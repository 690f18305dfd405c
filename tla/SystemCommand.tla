---------------------------- MODULE SystemCommand ----------------------------
(***************************************************************************)
(* `run` of src/probes/sys.rs: how a probe asks an external program.  The  *)
(* caller polls the child it spawned and kills it after a timeout, while a *)
(* thread of its own reads the child's output from a pipe.                 *)
(*                                                                         *)
(* The output is abstracted to how many chunks of it were written and      *)
(* read.  The child may leave a helper behind: a process of its own that   *)
(* inherits the pipe and outlives it.                                      *)
(***************************************************************************)
EXTENDS Naturals

CONSTANTS
  Programs,    (* The names a probe may ask for.                             *)
  ALLOWED,     (* The programs probes may run, a subset of Programs.         *)
  Installed,   (* The programs found through PATH.                           *)
  PipeSize,    (* How many chunks the pipe holds.                            *)
  MaxOutput,   (* Bound: the child and its helper write so many chunks.      *)
  TIMEOUT,     (* In ticks of the clock.                                     *)
  MayFork      (* Whether the child may leave a helper behind.               *)

ASSUME SystemCommandAssumption ==
  /\ ALLOWED \subseteq Programs
  /\ Installed \subseteq Programs
  /\ PipeSize \in Nat \ {0}
  /\ MaxOutput \in Nat
  /\ TIMEOUT \in Nat \ {0}
  /\ MayFork \in BOOLEAN

VARIABLES
  name,      (* The program asked for.                                       *)
  pc,        (* Where the caller is.                                         *)
  seen,      (* What the last try_wait returned.                             *)
  result,    (* What run returned, with the chunks of an answer.             *)
  elapsed,   (* Ticks since the caller started to wait, up to TIMEOUT.       *)
  child,     (* The child process.                                           *)
  helper,    (* What the child left behind.                                  *)
  sigchld,   (* "default", or "ignored": children leave no status.           *)
  written, pipe, got,   (* Chunks written, in the pipe, and read.            *)
  encoding,  (* "UTF-8" or "other": that of the output.                      *)
  reader     (* The thread that reads it.                                    *)

callerVars == <<pc, seen, result>>
outputVars == <<written, pipe, got>>
vars == <<name, pc, seen, result, elapsed, child, helper, sigchld,
          written, pipe, got, encoding, reader>>

NoAnswer(error) == [kind |-> error, out |-> 0]

Init ==
  /\ name \in Programs
  /\ pc = "call"
  /\ seen = "nothing"
  /\ result = NoAnswer("none")
  /\ elapsed = 0
  /\ child = "none"
  /\ helper = "none"
  /\ sigchld \in {"default", "ignored"}
  /\ written = 0
  /\ pipe = 0
  /\ got = 0
  /\ encoding \in {"UTF-8", "other"}
  /\ reader = "none"

(* What read_to_string makes of so many chunks: nothing unless all is text. *)
Text(chunks) == IF encoding = "UTF-8" THEN chunks ELSE 0

Return(r) == pc' = "returned" /\ result' = r

-----------------------------------------------------------------------------
(***************************************************************************)
(* The caller.                                                             *)
(***************************************************************************)

(* A program that is not allowed or not there starts nothing. *)
Refuse ==
  /\ pc = "call"
  /\ \/ name \notin ALLOWED /\ Return(NoAnswer("not_allowed"))
     \/ name \in ALLOWED \ Installed /\ Return(NoAnswer("missing"))
     \/ name \in ALLOWED \cap Installed /\ Return(NoAnswer("not_spawned"))
  /\ UNCHANGED <<name, seen, elapsed, child, helper, sigchld, outputVars, encoding, reader>>

Spawn ==
  /\ pc = "call"
  /\ name \in ALLOWED \cap Installed
  /\ child' = "running"
  /\ pc' = "spawned"
  /\ UNCHANGED <<name, seen, result, elapsed, helper, sigchld, outputVars, encoding, reader>>

(* Mutant of StartReader: the output is read once the child has ended. *)
StartReaderAtTheEnd ==
  /\ \/ pc = "spawned" /\ pc' = "poll" /\ UNCHANGED reader
     \/ pc = "join" /\ reader = "none" /\ reader' = "reading" /\ UNCHANGED pc
  /\ UNCHANGED <<name, seen, result, elapsed, child, helper, sigchld, outputVars, encoding>>

(* The reader starts before the clock does. *)
StartReader ==
  /\ pc = "spawned"
  /\ reader' = "reading"
  /\ pc' = "poll"
  /\ UNCHANGED <<name, seen, result, elapsed, child, helper, sigchld, outputVars, encoding>>

(* try_wait: the exit of the child is collected, unless it left no status. *)
Poll ==
  /\ pc = "poll"
  /\ \/ child \in {"running", "killed"} /\ seen' = "running" /\ UNCHANGED child
     \/ child = "zombie" /\ seen' = "exited" /\ child' = "reaped"
     \/ child = "reaped" /\ seen' = "error" /\ UNCHANGED child
  /\ pc' = "polled"
  /\ UNCHANGED <<name, result, elapsed, helper, sigchld, outputVars, encoding, reader>>

(* The loop polls again while there is time, and gives up on an error. *)
Sleep ==
  /\ pc = "polled"
  /\ seen = "running"
  /\ elapsed < TIMEOUT
  /\ pc' = "poll"
  /\ UNCHANGED <<name, seen, result, elapsed, child, helper, sigchld, outputVars, encoding, reader>>

Answered ==
  /\ pc = "polled"
  /\ seen = "exited"
  /\ pc' = "join"
  /\ UNCHANGED <<name, seen, result, elapsed, child, helper, sigchld, outputVars, encoding, reader>>

(* Mutant of GiveUp: the clock is looked at before the child. *)
GiveUpFirst ==
  /\ pc \in {"poll", "polled"}
  /\ \/ elapsed = TIMEOUT
     \/ pc = "polled" /\ seen = "error"
  /\ child' = IF child = "running" THEN "killed" ELSE child
  /\ pc' = "wait"
  /\ UNCHANGED <<name, seen, result, elapsed, helper, sigchld, outputVars, encoding, reader>>

(* Mutant of GiveUp: the loop never gives up on a child that runs. *)
GiveUpOnErrors ==
  /\ pc = "polled"
  /\ seen = "error"
  /\ pc' = "wait"
  /\ UNCHANGED <<name, seen, result, elapsed, child, helper, sigchld, outputVars, encoding, reader>>

GiveUp ==
  /\ pc = "polled"
  /\ \/ seen = "running" /\ elapsed = TIMEOUT
     \/ seen = "error"
  /\ child' = IF child = "running" THEN "killed" ELSE child
  /\ pc' = "wait"
  /\ UNCHANGED <<name, seen, result, elapsed, helper, sigchld, outputVars, encoding, reader>>

(* Mutant of Wait: the killed child is left to its fate. *)
WaitForNothing ==
  /\ pc = "wait"
  /\ Return(NoAnswer("timed_out"))
  /\ UNCHANGED <<name, seen, elapsed, child, helper, sigchld, outputVars, encoding, reader>>

(* The killed child is collected. *)
Wait ==
  /\ pc = "wait"
  /\ child \in {"zombie", "reaped"}
  /\ child' = "reaped"
  /\ Return(NoAnswer("timed_out"))
  /\ UNCHANGED <<name, seen, elapsed, helper, sigchld, outputVars, encoding, reader>>

(* Mutant of Join: what was read so far is the answer. *)
JoinNothing ==
  /\ pc = "join"
  /\ Return([kind |-> "answer", out |-> Text(got)])
  /\ UNCHANGED <<name, seen, elapsed, child, helper, sigchld, outputVars, encoding, reader>>

(* The answer is all of the output, or nothing when it is not UTF-8. *)
Join ==
  /\ pc = "join"
  /\ reader = "ended"
  /\ Return([kind |-> "answer", out |-> Text(got)])
  /\ UNCHANGED <<name, seen, elapsed, child, helper, sigchld, outputVars, encoding, reader>>

Caller ==
  \/ Refuse \/ Spawn \/ StartReader \/ Poll \/ Sleep
  \/ Answered \/ GiveUp \/ Wait \/ Join

-----------------------------------------------------------------------------
(***************************************************************************)
(* The reader: read_to_string.                                             *)
(***************************************************************************)
Read ==
  /\ reader = "reading"
  /\ pipe > 0
  /\ pipe' = pipe - 1
  /\ got' = got + 1
  /\ UNCHANGED <<name, callerVars, elapsed, child, helper, sigchld, written, encoding, reader>>

PipeIsHeld == child \in {"running", "killed"} \/ helper = "running"

EndOfFile ==
  /\ reader = "reading"
  /\ pipe = 0
  /\ ~PipeIsHeld
  /\ reader' = "ended"
  /\ UNCHANGED <<name, callerVars, elapsed, child, helper, sigchld, outputVars, encoding>>

Reader == Read \/ EndOfFile

-----------------------------------------------------------------------------
(***************************************************************************)
(* The environment: the child, what it leaves behind, the kernel, time.    *)
(***************************************************************************)
Write ==
  /\ PipeIsHeld
  /\ child # "killed" \/ helper = "running"
  /\ pipe < PipeSize
  /\ written < MaxOutput
  /\ pipe' = pipe + 1
  /\ written' = written + 1
  /\ UNCHANGED <<name, callerVars, elapsed, child, helper, sigchld, got, encoding, reader>>

Fork ==
  /\ MayFork
  /\ child = "running"
  /\ helper = "none"
  /\ helper' = "running"
  /\ UNCHANGED <<name, callerVars, elapsed, child, sigchld, outputVars, encoding, reader>>

Ends == child' = IF sigchld = "default" THEN "zombie" ELSE "reaped"

Exit ==
  /\ child = "running"
  /\ Ends
  /\ UNCHANGED <<name, callerVars, elapsed, helper, sigchld, outputVars, encoding, reader>>

Die ==
  /\ child = "killed"
  /\ Ends
  /\ UNCHANGED <<name, callerVars, elapsed, helper, sigchld, outputVars, encoding, reader>>

HelperExits ==
  /\ helper = "running"
  /\ helper' = "gone"
  /\ UNCHANGED <<name, callerVars, elapsed, child, sigchld, outputVars, encoding, reader>>

Tick ==
  /\ pc \notin {"call", "spawned", "returned"}
  /\ elapsed < TIMEOUT
  /\ elapsed' = elapsed + 1
  /\ UNCHANGED <<name, callerVars, child, helper, sigchld, outputVars, encoding, reader>>

Environment == Write \/ Fork \/ Exit \/ Die \/ HelperExits \/ Tick

Next == Caller \/ Reader \/ Environment

(* Threads are scheduled, time passes and SIGKILL kills; nothing is assumed *)
(* of what the child and its helper do.                                     *)
Fairness == WF_vars(Caller) /\ WF_vars(Reader) /\ WF_vars(Die) /\ WF_vars(Tick)

Spec == Init /\ [][Next]_vars
FairSpec == Spec /\ Fairness

-----------------------------------------------------------------------------
(***************************************************************************)
(* Properties.                                                             *)
(***************************************************************************)
TypeOK ==
  /\ name \in Programs
  /\ pc \in {"call", "spawned", "poll", "polled", "join", "wait", "returned"}
  /\ seen \in {"nothing", "running", "exited", "error"}
  /\ result \in [kind : {"none", "not_allowed", "missing", "not_spawned", "timed_out", "answer"},
                 out : Nat]
  /\ elapsed \in 0..TIMEOUT
  /\ child \in {"none", "running", "killed", "zombie", "reaped"}
  /\ helper \in {"none", "running", "gone"}
  /\ sigchld \in {"default", "ignored"}
  /\ written \in 0..MaxOutput
  /\ pipe \in 0..PipeSize
  /\ got \in Nat
  /\ encoding \in {"UTF-8", "other"}
  /\ reader \in {"none", "reading", "ended"}

(* An answer is whole: whatever the child wrote before it exited, and the  *)
(* helper it left behind, however late the reader was scheduled; nothing   *)
(* when it is not UTF-8.                                                   *)
WholeAnswer ==
  result.kind = "answer" => result.out = Text(written)

(* Only allowed programs ever run, and when run returns its child has      *)
(* ended and was collected: no zombie accumulates in the process that      *)
(* serves MCP for weeks.                                                   *)
NoChildLeft ==
  /\ child # "none" => name \in ALLOWED
  /\ pc = "returned" => child \in {"none", "reaped"}

(* A full pipe never keeps the child from ending: as long as the caller    *)
(* polls, a thread drains it.                                              *)
FullPipeIsDrained ==
  pc \in {"poll", "polled", "join"} /\ pipe = PipeSize => reader = "reading"

(* The caller gives up only on a child that its last poll saw running when *)
(* the time was up: a program that answered before it was polled last is   *)
(* never reported as timed out, and none is cut short.                     *)
GivesUpOnRunning ==
  [][pc' = "wait" /\ pc # "wait" /\ sigchld = "default" =>
       pc = "polled" /\ seen = "running" /\ elapsed = TIMEOUT]_vars

(* run returns, whatever the program does: it is killed after the timeout. *)
(* False when the child leaves a helper that holds the pipe.               *)
Returns == <>(pc = "returned")

(* It does unless such a helper holds the pipe for ever: whatever else the *)
(* program does, and however it is timed, the call comes to its end.       *)
ReturnsUnlessHeld == <>(pc = "returned") \/ <>[](helper = "running")
==============================================================================
