----------------------------- MODULE Processes -----------------------------
(***************************************************************************)
(* The probes that read the machine in several steps, and the machine that *)
(* changes between them: proc.states and proc.top (src/probes/proc.rs),    *)
(* proc.threads (conc.rs) and systemd.status (systemd.rs).                 *)
(*                                                                         *)
(* The machine is that of Linux: processes fork, exit to zombies, are      *)
(* collected by their parent, which frees their number for another one,    *)
(* and go to init when their parent exits; what they use of the machine    *)
(* changes all the while; systemd starts and stops, and its units fail and *)
(* recover.  A process is named by its order of birth, so that two that    *)
(* have the same number in turn are told apart.                            *)
(***************************************************************************)
EXTENDS Naturals, Sequences, FiniteSets, FiniteSetsExt, SequencesExt, Sorting

CONSTANTS
  Asks,       \* the probes that may be asked
  Pids,       \* the numbers of processes
  MaxBirths,  \* bound on the processes of a behaviour
  Amounts,    \* what a process may use: CPU time, memory, threads
  LIST_MAX,   \* rows of zombies and of waiting processes
  TOP_N,      \* rows of the top processes
  Phases,     \* what systemd may be at: "up" is running, or degraded if a unit failed
  Units,      \* the units of systemd
  None        \* Option::None

ASSUME AsksAssumption ==
  Asks \subseteq {"proc.states", "proc.top", "proc.threads", "systemd.status"}
ASSUME PidsAssumption == Pids \subseteq Nat /\ {1, 2} \subseteq Pids
ASSUME AmountsAssumption == Amounts \subseteq Nat /\ Amounts # {}
ASSUME SizesAssumption == LIST_MAX \in Nat /\ TOP_N \in Nat
ASSUME PhasesAssumption == Phases \subseteq {"starting", "up", "maintenance", "stopping"}
ASSUME UnitsAssumption == IsFiniteSet(Units)
ASSUME NoneAssumption == None \notin {"listed", "silent"}

VARIABLES
  procs,    \* the processes by number
  births,   \* how many processes there were
  phase,    \* what systemd is at, "offline" where it is not the init system
  failed,   \* the failed units
  asked,    \* the probe that runs
  step,     \* what it does next
  todo,     \* the numbers of the list that are still to be read
  half,     \* the process of which one of two files is read
  rows,     \* what was read, by list
  counts,   \* of proc.states
  state,    \* of systemd.status: the answer of is-system-running
  status,   \* of the answer
  had,      \* history: what each process that has been there since the listing
            \* used while the list was read
  quiet,    \* history: no unit changed since systemctl first answered
  second    \* history: how systemctl answered the second time

machine == <<procs, births, phase, failed>>
call == <<asked, step, todo, half, rows, counts, state, status, second>>
vars == <<machine, call, had, quiet>>

\* The processes that have been there since the listing.
steady == DOMAIN had

InitPid == 1   \* the number of init
Reader == 2    \* and that of atfq
States == {"R", "D", "Z"}
Lists == {"Z", "D", "cpu", "mem", "threads", "failed"}

-----------------------------------------------------------------------------
(* The machine *)

Process(comm, ppid, amount) ==
  [comm |-> comm, state |-> "R", ppid |-> ppid, amount |-> amount]

Fork(parent, pid, amount) ==
  /\ births < MaxBirths
  /\ parent \in DOMAIN procs /\ procs[parent].state # "Z"
  /\ pid \in Pids \ DOMAIN procs
  /\ births' = births + 1
  /\ procs' = [p \in DOMAIN procs \cup {pid} |->
                 IF p = pid THEN Process(births + 1, parent, amount) ELSE procs[p]]
  /\ UNCHANGED <<phase, failed, call, had, quiet>>

\* Waiting for a disk, which nothing interrupts, and no more.
Wait(pid) ==
  /\ pid \in DOMAIN procs \ {Reader} /\ procs[pid].state # "Z"
  /\ procs' = [procs EXCEPT ![pid].state = IF @ = "R" THEN "D" ELSE "R"]
  /\ UNCHANGED <<births, phase, failed, call, had, quiet>>

Exit(pid) ==
  /\ pid \in DOMAIN procs \ {InitPid, Reader} /\ procs[pid].state = "R"
  /\ procs' = [p \in DOMAIN procs |->
                 IF p = pid THEN [procs[p] EXCEPT !.state = "Z"]
                 ELSE IF procs[p].ppid = pid THEN [procs[p] EXCEPT !.ppid = InitPid]
                 ELSE procs[p]]
  /\ UNCHANGED <<births, phase, failed, call, had, quiet>>

Collect(pid) ==
  /\ pid \in DOMAIN procs /\ procs[pid].state = "Z"
  /\ procs' = [p \in DOMAIN procs \ {pid} |-> procs[p]]
  /\ had' = [comm \in steady \ {procs[pid].comm} |-> had[comm]]
  /\ UNCHANGED <<births, phase, failed, call, quiet>>

\* A process runs, takes or gives back memory, starts or ends threads.
Work(pid, amount) ==
  /\ pid \in DOMAIN procs /\ procs[pid].state # "Z"
  /\ procs' = [procs EXCEPT ![pid].amount = amount]
  /\ had' = IF step = "done" THEN had
            ELSE [comm \in steady |->
                   had[comm] \cup (IF comm = procs[pid].comm THEN {amount} ELSE {})]
  /\ UNCHANGED <<births, phase, failed, call, quiet>>

\* The start ends, an administrator asks for maintenance, the machine goes down.
Proceed(next) ==
  /\ phase # "offline"
  /\ phase' = next
  /\ UNCHANGED <<procs, births, failed, call, had, quiet>>

FailOrRecover(unit) ==
  /\ phase # "offline"
  /\ failed' = IF unit \in failed THEN failed \ {unit} ELSE failed \cup {unit}
  /\ quiet' = FALSE
  /\ UNCHANGED <<procs, births, phase, call, had>>

Machine ==
  \/ \E parent, pid \in Pids, amount \in Amounts : Fork(parent, pid, amount)
  \/ \E pid \in Pids : Wait(pid) \/ Exit(pid) \/ Collect(pid)
  \/ \E pid \in Pids, amount \in Amounts : Work(pid, amount)
  \/ \E next \in Phases : Proceed(next)
  \/ \E unit \in Units : FailOrRecover(unit)

-----------------------------------------------------------------------------
(* The probes of /proc *)

Add(list, row) == rows' = [rows EXCEPT ![list] = Append(@, row)]

\* ctx.list: the numbers, which proc.states sorts.  The others take them in the
\* order of their names, where 10 is before 2: in some order.
List ==
  /\ step = "list"
  /\ todo' = IF asked = "proc.states" THEN Sorted(DOMAIN procs, <) ELSE SetToSeq(DOMAIN procs)
  /\ had' = [comm \in {procs[p].comm : p \in DOMAIN procs} |->
               {procs[p].amount : p \in {q \in DOMAIN procs : procs[q].comm = comm}}]
  /\ step' = "read"
  /\ UNCHANGED <<machine, asked, half, rows, counts, state, status, quiet, second>>

Stat(pid) ==
  [pid |-> pid, comm |-> procs[pid].comm, state |-> procs[pid].state,
   ppid |-> procs[pid].ppid, amount |-> procs[pid].amount]

\* The first file of the next process, if it is still there: /proc/N/stat.
ReadStat ==
  /\ step = "read" /\ todo # <<>>
  /\ todo' = Tail(todo)
  /\ LET pid  == Head(todo)
         stat == Stat(pid)
     IN  \/ /\ pid \notin DOMAIN procs
            /\ UNCHANGED <<step, half, rows, counts>>
         \/ /\ pid \in DOMAIN procs
            /\ asked = "proc.states"
            /\ counts' = [counts EXCEPT ![stat.state] = @ + 1]
            /\ IF stat.state # "R" /\ Len(rows[stat.state]) < LIST_MAX
               THEN half' = stat /\ step' = "second"
               ELSE UNCHANGED <<half, step>>
            /\ UNCHANGED rows
         \/ /\ pid \in DOMAIN procs
            /\ asked = "proc.top"
            /\ Add("cpu", [pid |-> pid, comm |-> stat.comm, amount |-> stat.amount])
            /\ half' = stat
            /\ step' = "second"
            /\ UNCHANGED counts
         \/ /\ pid \in DOMAIN procs
            /\ asked = "proc.threads"
            /\ Add("threads", [pid |-> pid, comm |-> stat.comm, amount |-> stat.amount])
            /\ UNCHANGED <<step, half, counts>>
  /\ UNCHANGED <<machine, asked, state, status, had, quiet, second>>

Row(stat, parent) ==
  [pid |-> stat.pid, comm |-> stat.comm, ppid |-> stat.ppid, parent |-> parent]

ReadParentAgain ==
  /\ half.ppid \in DOMAIN procs
  /\ Add(half.state, Row(half, procs[half.ppid].comm))

ReadParentOrSkip ==
  IF half.ppid \in DOMAIN procs
  THEN Add(half.state, Row(half, procs[half.ppid].comm))
  ELSE UNCHANGED rows

\* /proc/N/stat of the parent of a zombie or of a waiting process.
ReadParent ==
  Add(half.state,
      Row(half, IF half.ppid \in DOMAIN procs THEN procs[half.ppid].comm ELSE None))

\* /proc/N/status for the memory, which a zombie has none of.
ReadMemory ==
  IF half.pid \in DOMAIN procs /\ procs[half.pid].state # "Z"
  THEN Add("mem", [pid |-> half.pid, comm |-> half.comm, amount |-> procs[half.pid].amount])
  ELSE UNCHANGED rows

\* The second file.
ReadSecond ==
  /\ step = "second"
  /\ \/ asked = "proc.states" /\ ReadParent
     \/ asked = "proc.top" /\ ReadMemory
  /\ half' = None
  /\ step' = "read"
  /\ UNCHANGED <<machine, asked, todo, counts, state, status, had, quiet, second>>

\* The order of the top lists: the most first, then the lowest number.
Before(a, b) == a.amount > b.amount \/ (a.amount = b.amount /\ a.pid < b.pid)

InOrder(list) ==
  LET order == Sorted(DOMAIN list, LAMBDA i, j : Before(list[i], list[j]))
  IN  [k \in DOMAIN list |-> list[order[k]]]

Cut(list) == [k \in 1..Min({TOP_N, Len(list)}) |-> list[k]]

CutBeforeSorting(list) == InOrder(Cut(list))
Top(list) == Cut(InOrder(list))

\* The end of the list: proc.states and proc.top say so if they found
\* nothing, proc.threads does not.
EndOfList ==
  /\ step = "read" /\ todo = <<>>
  /\ rows' = [l \in Lists |-> IF l \in {"cpu", "mem", "threads"} THEN Top(rows[l]) ELSE rows[l]]
  /\ status' = IF \/ asked = "proc.states" /\ \A s \in States : counts[s] = 0
                  \/ asked = "proc.top" /\ rows["cpu"] = <<>>
               THEN "Unavailable" ELSE "Ok"
  /\ step' = "done"
  /\ UNCHANGED <<machine, asked, todo, half, counts, state, had, quiet, second>>

-----------------------------------------------------------------------------
(* systemd.status *)

NoAnswerIsOk ==
  /\ step \in {"is-running", "failed-units"}
  /\ status' = IF step = "is-running" THEN "Unavailable" ELSE "Ok"
  /\ step' = "done"
  /\ UNCHANGED <<state, rows, second>>

\* systemctl does not answer: it is missing, or not in time.
NoAnswer ==
  \/ /\ step = "is-running"
     /\ status' = "Unavailable" /\ step' = "done"
     /\ UNCHANGED <<state, rows, second>>
  \/ /\ step = "failed-units"
     /\ status' = "Partial" /\ step' = "done"
     /\ UNCHANGED <<state, rows, second>>

\* systemctl ends without a word on its output, as it does when it fails: that
\* is an answer to ctx.run.  First it stands for no systemd, then for no unit.
Silent ==
  \/ /\ step = "is-running"
     /\ status' = "Unavailable" /\ step' = "done"
     /\ UNCHANGED <<state, rows, second>>
  \/ /\ step = "failed-units"
     /\ status' = "Ok" /\ step' = "done"
     /\ second' = "silent"
     /\ UNCHANGED <<state, rows>>

\* systemctl is-system-running, and what it makes of what it cannot tell.
Said ==
  {"unknown", IF phase # "up" THEN phase
              ELSE IF failed = {} THEN "running" ELSE "degraded"}

IsRunning ==
  /\ step = "is-running"
  /\ state' \in Said
  /\ IF state' = "offline" THEN step' = "done" /\ status' = "Unavailable"
     ELSE step' = "failed-units" /\ UNCHANGED status
  /\ quiet' = TRUE
  /\ UNCHANGED <<rows, second>>

\* systemctl list-units --failed.
FailedUnits ==
  /\ step = "failed-units"
  /\ rows' = [rows EXCEPT !["failed"] = SetToSeq(failed)]
  /\ status' = "Ok" /\ step' = "done"
  /\ second' = "listed"
  /\ UNCHANGED state

Systemctl ==
  /\ \/ IsRunning
     \/ (NoAnswer \/ Silent \/ FailedUnits) /\ UNCHANGED quiet
  /\ UNCHANGED <<machine, asked, todo, half, counts, had>>

-----------------------------------------------------------------------------

Born(pid) == Process(pid, IF pid = InitPid THEN 0 ELSE InitPid, Min(Amounts))

Init ==
  /\ procs = [p \in {InitPid, Reader} |-> Born(p)]
  /\ births = 2
  /\ phase \in Phases \cup {"offline"}
  /\ failed = {}
  /\ asked \in Asks
  /\ step = "before"
  /\ todo = <<>> /\ half = None
  /\ rows = [l \in Lists |-> <<>>]
  /\ counts = [s \in States |-> 0]
  /\ state = "" /\ status = None
  /\ had = <<>> /\ quiet = TRUE /\ second = None

\* The probe is asked at any time.
Ask ==
  /\ step = "before"
  /\ step' = IF asked = "systemd.status" THEN "is-running" ELSE "list"
  /\ UNCHANGED <<machine, asked, todo, half, rows, counts, state, status, had, quiet, second>>

Probe == Ask \/ List \/ ReadStat \/ ReadSecond \/ EndOfList \/ Systemctl

Next == Machine \/ Probe

Spec == Init /\ [][Next]_vars

\* The probe's thread is scheduled; systemctl is bounded in time by sys::run.
FairSpec == Spec /\ WF_vars(Probe)

-----------------------------------------------------------------------------
(* Properties *)

Answered(name) == step = "done" /\ asked = name
Total == counts["R"] + counts["D"] + counts["Z"]

(* CountsEachOnce: processes come, go, change their state and take over *)
(* numbers while proc.states counts them.  It counts every one that was *)
(* there all along, none twice, and lists as many zombies and waiting   *)
(* processes as it counted, up to LIST_MAX, each with its own number.   *)
CountsEachOnce ==
  Answered("proc.states") =>
    /\ Cardinality(steady) <= Total /\ Total <= births
    /\ \A s \in {"Z", "D"} :
         /\ Len(rows[s]) = Min({LIST_MAX, counts[s]})
         /\ \A i, j \in 1..Len(rows[s]) : i < j => rows[s][i].pid < rows[s][j].pid

(* LeavesOutLess: of the processes that were there all along, none that  *)
(* is left out of a top list used more than each that is in it all the    *)
(* while that the list was read, and one that is in it is shown with what *)
(* it used at some moment of it, whatever became of it and of the others  *)
(* between the reads.                                                     *)
LeavesOutLess ==
  \A list \in {"cpu", "mem", "threads"} :
    (step = "done" /\ rows[list] # <<>>) =>
      \A p \in DOMAIN procs :
        \/ procs[p].comm \notin steady
        \/ list = "mem" /\ procs[p].state = "Z"
        \/ \E i \in 1..Len(rows[list]) :
             /\ rows[list][i].comm = procs[p].comm
             /\ rows[list][i].amount \in had[procs[p].comm]
        \/ /\ Len(rows[list]) = TOP_N
           /\ \E amount \in had[procs[p].comm] :
                \A i \in 1..TOP_N : rows[list][i].amount >= amount

(* UnitsAgree: an answer without its second half is not Ok; if both halves *)
(* are there, a system that is shown as running shows no failed unit and   *)
(* one that is shown as degraded shows some, unless a unit failed or       *)
(* recovered between them (systemd.rs:72).  A systemctl that fails without *)
(* a word the second time is an exception: no failed unit is shown, as if  *)
(* it had listed none.                                                     *)
UnitsAgree ==
  (Answered("systemd.status") /\ status = "Ok") =>
    /\ second # None
    /\ (second = "listed" /\ quiet /\ state \in {"running", "degraded"}) =>
         (state = "running" <=> rows["failed"] = <<>>)

(* Answers: the probe comes to its end on a machine that never stops *)
(* changing: it reads the list that it took at first.                *)
Answers == <>(step = "done")
=============================================================================
