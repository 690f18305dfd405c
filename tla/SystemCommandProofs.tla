------------------------- MODULE SystemCommandProofs -------------------------
(***************************************************************************)
(* What holds of SystemCommand for every program, pipe and timeout.        *)
(***************************************************************************)
EXTENDS SystemCommand, TLAPS

(* Every chunk written is in the pipe or was read; the reader ends only    *)
(* when nobody can write any more.                                         *)
OutputInv ==
  /\ written = pipe + got
  /\ reader = "ended" => pipe = 0 /\ ~PipeIsHeld

(* What the caller has done so far.                                        *)
CallerInv ==
  /\ pc = "call" => child = "none" /\ helper = "none"
  /\ pc \in {"call", "spawned"} => reader = "none"
  /\ pc \in {"poll", "polled", "join", "wait"} => reader # "none"
  /\ pc \in {"spawned", "poll", "polled", "join", "wait"} => child # "none"
  /\ child = "none" => helper = "none"
  /\ pc = "polled" /\ seen = "exited" => child = "reaped"
  /\ pc = "join" => child = "reaped"
  /\ pc = "returned" => child \in {"none", "reaped"}
  /\ child # "none" => name \in ALLOWED

(* Only the return gives an answer, after the reader ended.                *)
AnswerInv ==
  /\ pc # "returned" => result.kind = "none"
  /\ result.kind = "answer" => reader = "ended" /\ result.out = Text(got)

IInv == TypeOK /\ OutputInv /\ CallerInv /\ AnswerInv

LEMMA InitInv == Init => IInv
  BY SystemCommandAssumption
  DEF Init, IInv, TypeOK, OutputInv, CallerInv, AnswerInv, NoAnswer, PipeIsHeld

LEMMA TextType ==
  ASSUME NEW n \in Nat
  PROVE  Text(n) \in Nat
  BY DEF Text

LEMMA CallerStep ==
  ASSUME IInv, Caller
  PROVE  IInv'
<1> USE SystemCommandAssumption
    DEF IInv, TypeOK, OutputInv, CallerInv, AnswerInv, PipeIsHeld, outputVars
<1>1. CASE Refuse
  BY <1>1 DEF Refuse, Return, NoAnswer
<1>2. CASE Spawn
  BY <1>2 DEF Spawn
<1>3. CASE StartReader
  BY <1>3 DEF StartReader
<1>4. CASE Poll
  BY <1>4 DEF Poll
<1>5. CASE Sleep
  BY <1>5 DEF Sleep
<1>6. CASE Answered
  BY <1>6 DEF Answered
<1>7. CASE GiveUp
  BY <1>7 DEF GiveUp
<1>8. CASE Wait
  BY <1>8 DEF Wait, Return, NoAnswer
<1>9. CASE Join
  <2>1. Text(got) \in Nat
    BY TextType
  <2>2. Text(got)' = Text(got)
    BY <1>9 DEF Join, Text
  <2> QED
    BY <1>9, <2>1, <2>2 DEF Join, Return
<1> QED
  BY <1>1, <1>2, <1>3, <1>4, <1>5, <1>6, <1>7, <1>8, <1>9 DEF Caller

LEMMA OthersStep ==
  ASSUME IInv, Reader \/ Environment
  PROVE  IInv'
<1> USE SystemCommandAssumption
    DEF IInv, TypeOK, OutputInv, CallerInv, AnswerInv, PipeIsHeld, outputVars, callerVars
<1>1. CASE Read
  BY <1>1 DEF Read
<1>2. CASE EndOfFile
  BY <1>2 DEF EndOfFile
<1>3. CASE Write
  BY <1>3 DEF Write
<1>4. CASE Fork
  BY <1>4 DEF Fork
<1>5. CASE Exit \/ Die
  BY <1>5 DEF Exit, Die, Ends
<1>6. CASE HelperExits
  BY <1>6 DEF HelperExits
<1>7. CASE Tick
  BY <1>7 DEF Tick
<1> QED
  BY <1>1, <1>2, <1>3, <1>4, <1>5, <1>6, <1>7 DEF Reader, Environment

LEMMA NextInv == IInv /\ [Next]_vars => IInv'
<1> SUFFICES ASSUME IInv, [Next]_vars PROVE IInv'
  OBVIOUS
<1>1. CASE UNCHANGED vars
  <2>1. TypeOK' /\ OutputInv'
    BY <1>1, SystemCommandAssumption
    DEF vars, IInv, TypeOK, OutputInv, PipeIsHeld, outputVars, callerVars
  <2>2. CallerInv' /\ AnswerInv'
    BY <1>1 DEF vars, IInv, CallerInv, AnswerInv, Text, outputVars, callerVars
  <2> QED
    BY <2>1, <2>2 DEF IInv
<1> QED
  BY <1>1, CallerStep, OthersStep DEF Next

LEMMA Inductive == Spec => []IInv
  BY InitInv, NextInv, PTL DEF Spec

(* Every variable of a call keeps its type; the clock and the pipe stay    *)
(* within their bounds.                                                    *)
THEOREM CommandTypes == Spec => []TypeOK
<1>1. IInv => TypeOK
  BY DEF IInv
<1> QED
  BY <1>1, Inductive, PTL

(* An answer is the whole output, whenever the reader was scheduled and    *)
(* however large the output.                                               *)
THEOREM AnswerIsWhole == Spec => []WholeAnswer
<1>1. IInv => WholeAnswer
  BY SystemCommandAssumption DEF IInv, TypeOK, OutputInv, AnswerInv, WholeAnswer
<1> QED
  BY <1>1, Inductive, PTL

(* A call leaves neither a running child nor a zombie, and starts nothing  *)
(* that is not allowed.                                                    *)
THEOREM ChildIsCollected == Spec => []NoChildLeft
<1>1. IInv => NoChildLeft
  BY DEF IInv, CallerInv, NoChildLeft
<1> QED
  BY <1>1, Inductive, PTL

(* While the caller polls, a thread drains a full pipe.                    *)
THEOREM PipeIsDrained == Spec => []FullPipeIsDrained
<1>1. IInv => FullPipeIsDrained
  BY SystemCommandAssumption
  DEF IInv, TypeOK, OutputInv, CallerInv, FullPipeIsDrained
<1> QED
  BY <1>1, Inductive, PTL

(* The invariant of the poll that gives up: an error is seen only of a     *)
(* child that left no status.                                              *)
PollInv ==
  /\ sigchld = "default" /\ pc = "poll" => child # "reaped"
  /\ sigchld = "default" /\ pc = "polled" => seen # "error"
  /\ sigchld = "default" /\ pc = "polled" /\ seen = "running" => child # "reaped"
  /\ sigchld = "default" /\ pc = "spawned" => child # "reaped"

LEMMA PollStep == IInv /\ PollInv /\ [Next]_vars => PollInv'
<1> SUFFICES ASSUME IInv, PollInv, [Next]_vars PROVE PollInv'
  OBVIOUS
<1> USE DEF PollInv, IInv, TypeOK, CallerInv, outputVars, callerVars
<1>1. CASE Caller
  BY <1>1 DEF Caller, Refuse, Spawn, StartReader, Poll, Sleep, Answered, GiveUp, Wait, Join,
     Return
<1>2. CASE Reader
  BY <1>2 DEF Reader, Read, EndOfFile
<1>3. CASE Environment
  BY <1>3 DEF Environment, Write, Fork, Exit, Die, Ends, HelperExits, Tick
<1>4. CASE UNCHANGED vars
  BY <1>4 DEF vars
<1> QED
  BY <1>1, <1>2, <1>3, <1>4 DEF Next

GivesUpStep ==
  pc' = "wait" /\ pc # "wait" /\ sigchld = "default" =>
    pc = "polled" /\ seen = "running" /\ elapsed = TIMEOUT

(* The caller gives up only on a child seen running when the time was up.  *)
THEOREM GivesUpInTime == Spec => GivesUpOnRunning
<1>1. Init => PollInv
  BY DEF Init, PollInv
<1>2. IInv /\ PollInv /\ [Next]_vars => [GivesUpStep]_vars
  <2> SUFFICES ASSUME IInv, PollInv, Next PROVE GivesUpStep
    OBVIOUS
  <2>1. CASE Caller
    BY <2>1 DEF PollInv, GivesUpStep, Caller, Refuse, Spawn, StartReader, Poll, Sleep,
       Answered, GiveUp, Wait, Join, Return
  <2>2. CASE Reader \/ Environment
    BY <2>2 DEF GivesUpStep, Reader, Read, EndOfFile, Environment, Write, Fork, Exit, Die,
       Ends, HelperExits, Tick, callerVars
  <2> QED
    BY <2>1, <2>2 DEF Next
<1>3. GivesUpOnRunning <=> [][GivesUpStep]_vars
  BY DEF GivesUpOnRunning, GivesUpStep
<1> QED
  BY <1>1, <1>2, <1>3, Inductive, PollStep, PTL DEF Spec
==============================================================================
