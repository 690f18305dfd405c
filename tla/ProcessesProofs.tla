-------------------------- MODULE ProcessesProofs --------------------------
(***************************************************************************)
(* What the probes that read twice show of a machine that changes between  *)
(* the reads, proved for every set of process numbers and of units, any    *)
(* amounts and any lengths of the lists: systemd.status first, then the    *)
(* counts of proc.states and the top lists of proc.top and proc.threads.   *)
(***************************************************************************)
EXTENDS Processes, DataProofs

-----------------------------------------------------------------------------
(* Lists of a finite set *)

\* The numbers of proc.top and proc.threads.
LEMMA NumbersInSomeOrder ==
  ASSUME NEW S, IsFiniteSet(S)
  PROVE  /\ SetToSeq(S) \in [1..Cardinality(S) -> S]
         /\ \A i, j \in 1..Cardinality(S) : i < j => SetToSeq(S)[i] # SetToSeq(S)[j]
<1> DEFINE n == Cardinality(S)
           Good(f) == IsInjective(f)
<1>1. \E f \in [1..n -> S] : Good(f)
  BY FS_CardinalityType DEF ExistsBijection, Bijection, Injection, IsInjective
<1>2. SetToSeq(S) \in [1..n -> S] /\ Good(SetToSeq(S))
  BY <1>1 DEF SetToSeq
<1>3. \A i, j \in 1..n : SetToSeq(S)[i] = SetToSeq(S)[j] => i = j
  BY <1>2 DEF IsInjective
<1>4. \A i, j \in 1..n : i < j => i # j
  BY FS_CardinalityType
<1> QED
  BY <1>2, <1>3, <1>4

\* A list of units is empty only if there are none.
LEMMA ListOfNone ==
  ASSUME NEW S, IsFiniteSet(S)
  PROVE  SetToSeq(S) = <<>> <=> S = {}
<1>1. SetToSeq(S) \in [1..Cardinality(S) -> S]
  BY NumbersInSomeOrder
<1>2. CASE S = {}
  BY <1>1, <1>2, FS_EmptySet
<1>3. CASE S # {}
  <2>1. Cardinality(S) \in Nat /\ Cardinality(S) # 0
    BY <1>3, FS_CardinalityType, FS_EmptySet
  <2>2. 1 \in DOMAIN SetToSeq(S)
    BY <1>1, <2>1
  <2> QED
    BY <1>3, <2>2
<1> QED
  BY <1>2, <1>3

-----------------------------------------------------------------------------
(* The top lists *)

ProcessT == [comm : Nat, state : States, ppid : Nat, amount : Nat]
StatT == [pid : Nat, comm : Nat, state : States, ppid : Nat, amount : Nat]
RowT == [pid : Nat, comm : Nat, ppid : Nat, parent : {None} \cup Nat]
TopT == [pid : Nat, comm : Nat, amount : Nat]

\* No two rows are of the same number.
Distinct(list) == \A i, j \in 1..Len(list) : i < j => list[i].pid # list[j].pid

LEMMA InOrderSorts ==
  ASSUME NEW list \in Seq(TopT), Distinct(list)
  PROVE  /\ InOrder(list) \in [1..Len(list) -> TopT]
         /\ \A k \in 1..Len(list) : \E i \in 1..Len(list) : InOrder(list)[i] = list[k]
         /\ \A i, j \in 1..Len(list) :
              i < j => InOrder(list)[i].amount >= InOrder(list)[j].amount
<1> DEFINE n == Len(list)
           I == 1..n
           R == {r \in I \X I : Before(list[r[1]], list[r[2]])}
           order == Sorted(I, LAMBDA i, j : Before(list[i], list[j]))
           Good(s) == \A i, j \in DOMAIN s : i < j => Before(list[s[i]], list[s[j]])
<1>1. n \in Nat /\ DOMAIN list = I /\ \A i \in I : list[i] \in TopT
  OBVIOUS
<1>2. IsFiniteSet(I) /\ Cardinality(I) = n
  <2> HIDE DEF n
  <2> QED
    BY <1>1, FS_Interval
<1>3. Orders(R, I)
  <2>1. \A i, j \in I : i = j \/ list[i].pid # list[j].pid
    <3>1. \A i, j \in I : i = j \/ i < j \/ j < i
      BY <1>1
    <3> QED
      BY <3>1 DEF Distinct
  <2>2. \A i, j \in I : i = j \/ Before(list[i], list[j]) \/ Before(list[j], list[i])
    BY <1>1, <2>1 DEF Before, TopT
  <2>3. \A i \in I : ~ Before(list[i], list[i])
    BY <1>1 DEF Before, TopT
  <2>4. \A i, j, k \in I :
          (Before(list[i], list[j]) /\ Before(list[j], list[k])) => Before(list[i], list[k])
    BY <1>1 DEF Before, TopT
  <2>5. \A i, j \in I : <<i, j>> \in R <=> Before(list[i], list[j])
    OBVIOUS
  <2> HIDE DEF R, I
  <2> QED
    BY <2>2, <2>3, <2>4, <2>5 DEF Orders
<1>4. order \in [I -> I] /\ Good(order)
  <2>1. PICK s : Enumerates(s, R, I)
    BY <1>2, <1>3, SortedExists
  <2>2. s \in [I -> I] /\ Good(s)
    <3>1. s \in [I -> I] /\ \A i, j \in I : i < j => <<s[i], s[j]>> \in R
      BY <1>2, <2>1 DEF Enumerates
    <3>2. \A i, j : <<i, j>> \in R => Before(list[i], list[j])
      OBVIOUS
    <3> HIDE DEF R, I
    <3> QED
      BY <3>1, <3>2
  <2>3. \E f \in [1..Cardinality(I) -> I] : Good(f)
    BY <1>2, <2>2
  <2>4. order \in [1..Cardinality(I) -> I] /\ Good(order)
    <3> HIDE DEF I
    <3> QED
      BY <2>3 DEF Sorted
  <2> QED
    BY <1>2, <2>4
<1>5. InOrder(list) = [k \in I |-> list[order[k]]]
  BY <1>1 DEF InOrder
<1> HIDE DEF order, R
<1>6. InOrder(list) \in [I -> TopT]
  BY <1>1, <1>4, <1>5
<1>7. \A k \in I : \E i \in I : InOrder(list)[i] = list[k]
  <2>1. \A i, j \in I : i < j => order[i] # order[j]
    <3>1. \A i \in I : ~ Before(list[i], list[i])
      BY <1>1 DEF Before, TopT
    <3>2. \A i, j \in I : i < j => Before(list[order[i]], list[order[j]])
      BY <1>4
    <3> HIDE DEF I
    <3> QED
      BY <1>4, <3>1, <3>2
  <2>2. \A k \in I : \E i \in I : order[i] = k
    <3> HIDE DEF I
    <3>1. order \in [1..Cardinality(I) -> I]
      BY <1>2, <1>4 DEF I
    <3>2. \A i, j \in 1..Cardinality(I) : i < j => order[i] # order[j]
      BY <1>2, <2>1 DEF I
    <3>3. \A k \in I : \E i \in 1..Cardinality(I) : order[i] = k
      BY <1>2, <3>1, <3>2, EnumeratesEach
    <3> QED
      BY <1>2, <3>3 DEF I
  <2> HIDE DEF I
  <2> QED
    BY <1>5, <2>2
<1>8. \A i, j \in I : i < j => InOrder(list)[i].amount >= InOrder(list)[j].amount
  <2> SUFFICES ASSUME NEW i \in I, NEW j \in I, i < j
               PROVE  InOrder(list)[i].amount >= InOrder(list)[j].amount
    OBVIOUS
  <2>1. Before(list[order[i]], list[order[j]])
    BY <1>4
  <2>2. list[order[i]] \in TopT /\ list[order[j]] \in TopT
    BY <1>1, <1>4
  <2>3. InOrder(list)[i] = list[order[i]] /\ InOrder(list)[j] = list[order[j]]
    BY <1>5
  <2>4. \A a, b \in TopT : Before(a, b) => a.amount >= b.amount
    BY DEF Before, TopT
  <2> QED
    BY <2>1, <2>2, <2>3, <2>4
<1> QED
  BY <1>6, <1>7, <1>8

\* A row that is left out of the top has no more than any that is in it.
LEMMA TopHasTheMost ==
  ASSUME NEW list \in Seq(TopT), Distinct(list)
  PROVE  /\ Top(list) \in Seq(TopT)
         /\ \A k \in 1..Len(list) :
              \/ \E i \in 1..Len(Top(list)) : Top(list)[i] = list[k]
              \/ /\ Len(Top(list)) = TOP_N
                 /\ \A i \in 1..TOP_N : Top(list)[i].amount >= list[k].amount
<1> DEFINE n == Len(list)
           s == InOrder(list)
           m == IF TOP_N < n THEN TOP_N ELSE n
<1>1. n \in Nat /\ TOP_N \in Nat
  BY SizesAssumption
<1>2. /\ s \in [1..n -> TopT]
      /\ \A k \in 1..n : \E i \in 1..n : s[i] = list[k]
      /\ \A i, j \in 1..n : i < j => s[i].amount >= s[j].amount
  BY InOrderSorts
<1> HIDE DEF s
<1>3. Len(s) = n
  BY <1>1, <1>2
<1>4. Top(list) = [k \in 1..m |-> s[k]]
  <2>1. Min({TOP_N, Len(s)}) = m
    BY <1>1, <1>3, MinOfTwo
  <2> QED
    BY <2>1 DEF Top, Cut, s
<1>5. m \in Nat /\ m <= n /\ (m = TOP_N \/ m = n)
  BY <1>1
<1> HIDE DEF m, n
<1>6. Top(list) \in Seq(TopT) /\ Len(Top(list)) = m
  BY <1>1, <1>2, <1>4, <1>5
<1>7. ASSUME NEW k \in 1..n
      PROVE  \/ \E i \in 1..m : Top(list)[i] = list[k]
             \/ m = TOP_N /\ \A i \in 1..m : Top(list)[i].amount >= list[k].amount
  <2>1. PICK i \in 1..n : s[i] = list[k]
    BY <1>2
  <2>2. CASE i <= m
    <3>1. i \in 1..m /\ Top(list)[i] = s[i]
      BY <1>1, <1>4, <1>5, <2>2
    <3> QED
      BY <2>1, <3>1
  <2>3. CASE ~ (i <= m)
    <3>1. m = TOP_N
      BY <1>1, <1>5, <2>3
    <3>2. ASSUME NEW j \in 1..m PROVE Top(list)[j].amount >= list[k].amount
      <4>1. j \in 1..n /\ j < i
        BY <1>1, <1>5, <2>3
      <4> QED
        BY <1>2, <1>4, <2>1, <4>1
    <3> QED
      BY <3>1, <3>2
  <2> QED
    BY <2>2, <2>3
<1> QED
  BY <1>6, <1>7 DEF n

LEMMA TopOfNone ==
  ASSUME NEW list, list = <<>>
  PROVE  Top(list) = <<>>
<1>1. list \in Seq(TopT) /\ Distinct(list) /\ Len(list) = 0
  BY DEF Distinct
<1>2. InOrder(list) \in [1..0 -> TopT]
  BY <1>1, InOrderSorts
<1>3. Len(InOrder(list)) = 0
  BY <1>2
<1>4. Min({TOP_N, 0}) = 0
  BY SizesAssumption, MinOfTwo
<1> DEFINE sorted == InOrder(list)
<1>5. Top(list) = [k \in 1..Min({TOP_N, Len(sorted)}) |-> sorted[k]]
  BY DEF Top, Cut
<1> HIDE DEF sorted
<1>6. Top(list) = [k \in 1..0 |-> sorted[k]]
  BY <1>3, <1>4, <1>5 DEF sorted
<1> QED
  BY <1>6

-----------------------------------------------------------------------------
(* The inductive invariant of systemd.status. *)

\* The steps of systemd.status.
SystemdSteps == {"before", "is-running", "failed-units", "done"}

TypeInv ==
  /\ failed \subseteq Units
  /\ phase \in Phases \cup {"offline"}
  /\ DOMAIN rows = Lists
  /\ asked = "systemd.status" => step \in SystemdSteps

\* Between the two calls the first answer is still right, if nothing changed.
FirstAnswer ==
  (asked = "systemd.status" /\ step = "failed-units" /\ quiet) =>
    /\ state = "running" => failed = {}
    /\ state = "degraded" => failed # {}

Inv == TypeInv /\ FirstAnswer /\ UnitsAgree

LEMMA InitInv == Init => Inv
BY DEF Init, Inv, TypeInv, FirstAnswer, UnitsAgree, Answered, SystemdSteps, Lists

\* Nothing in the process table matters to systemd.status.
LEMMA ProcessesKeep ==
  ASSUME Inv,
         \/ \E parent, pid \in Pids, amount \in Amounts : Fork(parent, pid, amount)
         \/ \E pid \in Pids : Wait(pid) \/ Exit(pid) \/ Collect(pid)
         \/ \E pid \in Pids, amount \in Amounts : Work(pid, amount)
  PROVE  Inv'
<1> UNCHANGED <<phase, failed, call, quiet>>
  BY DEF Fork, Wait, Exit, Collect, Work
<1> QED
  BY DEF Inv, TypeInv, FirstAnswer, UnitsAgree, Answered, call

\* A unit that changes ends the quiet; what systemd is at says nothing of units.
LEMMA UnitKeeps ==
  ASSUME Inv, \/ \E unit \in Units : FailOrRecover(unit)
              \/ \E next \in Phases : Proceed(next)
  PROVE  Inv'
BY DEF Inv, TypeInv, FirstAnswer, UnitsAgree, Answered, FailOrRecover, Proceed, call

\* The probes of /proc are others.
LEMMA ProcProbesKeep ==
  ASSUME Inv, List \/ ReadStat \/ ReadSecond \/ EndOfList
  PROVE  Inv'
<1>1. asked # "systemd.status" /\ UNCHANGED <<phase, failed, asked, quiet>>
  BY DEF Inv, TypeInv, SystemdSteps, List, ReadStat, ReadSecond, EndOfList, machine
<1>2. DOMAIN rows' = Lists
  BY DEF Inv, TypeInv, List, ReadStat, ReadSecond, EndOfList, Add, ReadParent,
         ReadMemory
<1> QED
  BY <1>1, <1>2 DEF Inv, TypeInv, FirstAnswer, UnitsAgree, Answered

LEMMA AskKeeps ==
  ASSUME Inv, Ask
  PROVE  Inv'
BY DEF Inv, TypeInv, FirstAnswer, UnitsAgree, Answered, SystemdSteps, Ask, machine

LEMMA SystemctlKeeps ==
  ASSUME Inv, Systemctl
  PROVE  Inv'
<1> USE DEF Inv, TypeInv, FirstAnswer, UnitsAgree, Answered, SystemdSteps, machine
<1> UNCHANGED <<phase, failed, asked>>
  BY DEF Systemctl
<1>1. CASE IsRunning
  <2>1. phase # "running" /\ phase # "degraded"
    BY PhasesAssumption
  <2>2. /\ state' \in Said /\ quiet' = TRUE /\ UNCHANGED rows
        /\ step' = "failed-units" \/ (step' = "done" /\ status' = "Unavailable")
    BY <1>1 DEF IsRunning
  <2>3. /\ state' = "running" => failed = {}
        /\ state' = "degraded" => failed # {}
    BY <2>1, <2>2 DEF Said
  <2> QED
    BY <2>2, <2>3
<1>2. CASE (NoAnswer \/ Silent) /\ UNCHANGED quiet
  BY <1>2, NoneAssumption DEF NoAnswer, Silent
<1>3. CASE FailedUnits /\ UNCHANGED quiet
  <2>1. IsFiniteSet(failed)
    BY UnitsAssumption, FS_Subset
  <2>2. SetToSeq(failed) = <<>> <=> failed = {}
    BY <2>1, ListOfNone
  <2>3. rows'["failed"] = SetToSeq(failed) /\ DOMAIN rows' = Lists
    BY <1>3 DEF FailedUnits, Lists
  <2> QED
    BY <1>3, <2>2, <2>3, NoneAssumption DEF FailedUnits
<1> QED
  BY <1>1, <1>2, <1>3 DEF Systemctl

LEMMA NextInv == Inv /\ [Next]_vars => Inv'
<1> SUFFICES ASSUME Inv, [Next]_vars PROVE Inv'
  OBVIOUS
<1>1. CASE Machine
  BY <1>1, ProcessesKeep, UnitKeeps DEF Machine
<1>2. CASE Probe
  BY <1>2, ProcProbesKeep, AskKeeps, SystemctlKeeps DEF Probe
<1>3. CASE UNCHANGED vars
  BY <1>3 DEF vars, machine, call, Inv, TypeInv, FirstAnswer, UnitsAgree, Answered
<1> QED
  BY <1>1, <1>2, <1>3 DEF Next

(* An answer of systemd.status that is Ok had both its halves, and if the  *)
(* second came with a list, a system that is shown as running shows no     *)
(* failed unit and one shown as degraded shows some, unless a unit failed  *)
(* or recovered between the two answers of systemctl (systemd.rs:45-92).   *)
THEOREM UnitsShownAgree == Spec => []UnitsAgree
<1>1. Inv => UnitsAgree
  BY DEF Inv
<1> QED
  BY <1>1, InitInv, NextInv, PTL DEF Spec
-----------------------------------------------------------------------------
(* The inductive invariant of the probes of /proc.                         *)

USE DEF steady

\* Processes are told apart by their order of birth; the steady ones are there.
MachineInv ==
  /\ births \in Nat
  /\ procs \in [DOMAIN procs -> ProcessT]
  /\ IsFiniteSet(DOMAIN procs) /\ DOMAIN procs \subseteq Nat
  /\ \A p \in DOMAIN procs : procs[p].comm \in 1..births
  /\ \A p, q \in DOMAIN procs : procs[p].comm = procs[q].comm => p = q
  /\ steady \subseteq {procs[p].comm : p \in DOMAIN procs}
  /\ \A c \in steady : had[c] \subseteq Nat

TopLists == {"cpu", "mem", "threads"}
ProcSteps == {"before", "list", "read", "second", "done"}

\* The types of what a probe reads, and which lists it fills.
ListsInv ==
  /\ asked \in {"proc.states", "proc.top", "proc.threads", "systemd.status"}
  /\ asked # "systemd.status" => step \in ProcSteps
  /\ asked = "systemd.status" => step \in SystemdSteps
  /\ step = "second" => asked \in {"proc.states", "proc.top"} /\ half \in StatT
  /\ counts \in [States -> Nat]
  /\ DOMAIN rows = Lists
  /\ \A l \in TopLists : rows[l] \in Seq(TopT)
  /\ \A l \in {"Z", "D"} : rows[l] \in Seq(RowT)
  /\ asked # "proc.top" => rows["cpu"] = <<>> /\ rows["mem"] = <<>>
  /\ asked # "proc.threads" => rows["threads"] = <<>>
  /\ step \in {"before", "list"} =>
       /\ \A s \in States : counts[s] = 0
       /\ \A l \in Lists : rows[l] = <<>>

\* No number is read twice.
Left == {todo[k] : k \in 1..Len(todo)}

TodoInv ==
  /\ todo \in Seq(Nat)
  /\ \A i, j \in 1..Len(todo) : i < j => todo[i] # todo[j]
  /\ step = "second" => half.pid \notin Left
  /\ asked = "proc.states" =>
       /\ \A i, j \in 1..Len(todo) : i < j => todo[i] < todo[j]
       /\ step = "second" => \A k \in 1..Len(todo) : half.pid < todo[k]
       /\ step = "done" => todo = <<>>

\* The steady processes whose number has been read are counted, and what is
\* counted or left to count was born.
Counted == {p \in DOMAIN procs : procs[p].comm \in steady /\ p \notin Left}

CountInv ==
  (asked = "proc.states" /\ step \in {"read", "second", "done"}) =>
    /\ Total + Len(todo) <= births
    /\ Cardinality(Counted) <= Total

\* The lists of proc.states: as long as the counts say, with the row to come,
\* and in the order of the numbers.
Rowed(s) == Len(rows[s]) + (IF step = "second" /\ half.state = s THEN 1 ELSE 0)

RowsInv ==
  asked = "proc.states" =>
    /\ step = "second" => half.state \in {"Z", "D"}
    /\ \A s \in {"Z", "D"} :
         /\ Rowed(s) = IF counts[s] < LIST_MAX THEN counts[s] ELSE LIST_MAX
         /\ \A i \in 1..Len(rows[s]) :
              /\ \A j \in 1..Len(rows[s]) : i < j => rows[s][i].pid < rows[s][j].pid
              /\ \A k \in 1..Len(todo) : rows[s][i].pid < todo[k]
              /\ step = "second" => rows[s][i].pid < half.pid

\* The top lists before they are cut: every steady process whose number has
\* been read has its row, once.
Shown(l, p) ==
  \E i \in 1..Len(rows[l]) :
    rows[l][i].comm = procs[p].comm /\ rows[l][i].amount \in had[procs[p].comm]

ListsOf == IF asked = "proc.top" THEN {"cpu", "mem"} ELSE {"threads"}

TopRead == asked \in {"proc.top", "proc.threads"} /\ step \in {"read", "second"}

OnceInv ==
  TopRead =>
    \A l \in ListsOf :
      /\ Distinct(rows[l])
      /\ \A i \in 1..Len(rows[l]) :
           /\ rows[l][i].pid \notin Left
           /\ (step = "second" /\ l = "mem") => rows[l][i].pid # half.pid

ShownInv ==
  TopRead =>
    /\ \A l \in ListsOf : \A p \in DOMAIN procs :
         (procs[p].comm \in steady /\ p \notin Left) =>
           \/ Shown(l, p)
           \/ l = "mem" /\ procs[p].state = "Z"
           \/ l = "mem" /\ step = "second" /\ p = half.pid
    /\ (step = "second" /\ half.pid \in DOMAIN procs /\ procs[half.pid].comm \in steady) =>
         half.comm = procs[half.pid].comm

\* What a steady process uses is among what it used.
UsedInv ==
  step \in {"read", "second"} =>
    \A p \in DOMAIN procs :
      procs[p].comm \in steady => procs[p].amount \in had[procs[p].comm]

ProcInv ==
  MachineInv /\ UsedInv /\ ListsInv /\ TodoInv /\ CountInv /\ RowsInv /\ OnceInv /\ ShownInv
  /\ LeavesOutLess

-----------------------------------------------------------------------------
(* The machine *)

\* A steady process is the one that it was: its number and that it is a zombie
\* do not change, what it used is remembered, and no process becomes steady.
StaysItself ==
  /\ births' \in Nat /\ births <= births'
  /\ steady' \subseteq steady
  /\ \A p \in DOMAIN procs' :
       procs'[p].comm \in steady' =>
         /\ p \in DOMAIN procs
         /\ procs'[p].comm = procs[p].comm
         /\ had[procs[p].comm] \subseteq had'[procs[p].comm]
         /\ procs[p].state = "Z" => procs'[p].state = "Z"

LEMMA ForkKeeps ==
  ASSUME MachineInv, UsedInv, NEW parent \in Pids, NEW pid \in Pids, NEW amount \in Amounts,
         Fork(parent, pid, amount)
  PROVE  MachineInv' /\ StaysItself /\ UsedInv'
<1> DEFINE child == Process(births + 1, parent, amount)
           now == DOMAIN procs \cup {pid}
<1>1. /\ births \in Nat /\ births' = births + 1 /\ UNCHANGED <<had, step>>
      /\ DOMAIN procs' = now /\ pid \notin DOMAIN procs /\ pid \in Nat
      /\ procs'[pid] = child
      /\ \A p \in DOMAIN procs : procs'[p] = procs[p]
      /\ procs' = [p \in now |-> procs'[p]]
  BY PidsAssumption DEF Fork, MachineInv, call
<1>2. child \in ProcessT /\ child.comm = births + 1
  BY <1>1, PidsAssumption, AmountsAssumption DEF Process, ProcessT, States
<1> HIDE DEF child
<1>3. \A p \in DOMAIN procs : procs[p].comm \in 1..births /\ procs[p] \in ProcessT
  BY DEF MachineInv
<1>4. births + 1 \notin 1..births /\ \A c \in 1..births : c \in 1..births + 1
  BY <1>1
<1>5. procs' \in [now -> ProcessT]
  BY <1>1, <1>2, <1>3
<1>6. IsFiniteSet(now) /\ now \subseteq Nat
  BY <1>1, FS_AddElement DEF MachineInv
<1>7. \A p \in now : procs'[p].comm \in 1..births'
  BY <1>1, <1>2, <1>3, <1>4
<1>8. \A p, q \in now : procs'[p].comm = procs'[q].comm => p = q
  BY <1>1, <1>2, <1>3, <1>4 DEF MachineInv
<1>9. steady' \subseteq {procs'[p].comm : p \in now}
  BY <1>1 DEF MachineInv
<1>10. births + 1 \notin steady
  BY <1>3, <1>4 DEF MachineInv
<1>11. StaysItself /\ UsedInv'
  BY <1>1, <1>2, <1>10 DEF StaysItself, UsedInv
<1> QED
  BY <1>1, <1>5, <1>6, <1>7, <1>8, <1>9, <1>11 DEF MachineInv

\* Wait and Exit change states and parents only.
LEMMA SameProcesses ==
  ASSUME MachineInv, UsedInv, UNCHANGED <<births, had, step>>, DOMAIN procs' = DOMAIN procs,
         procs' = [p \in DOMAIN procs |-> procs'[p]],
         \A p \in DOMAIN procs :
           /\ procs'[p] \in ProcessT
           /\ procs'[p].comm = procs[p].comm /\ procs'[p].amount = procs[p].amount
           /\ procs[p].state = "Z" => procs'[p].state = "Z"
  PROVE  MachineInv' /\ StaysItself /\ UsedInv'
<1>1. procs' \in [DOMAIN procs -> ProcessT]
  OBVIOUS
<1>2. {procs'[p].comm : p \in DOMAIN procs'} = {procs[p].comm : p \in DOMAIN procs}
  OBVIOUS
<1>3. MachineInv'
  BY <1>1, <1>2 DEF MachineInv
<1>4. StaysItself /\ UsedInv'
  BY DEF MachineInv, StaysItself, UsedInv
<1> QED
  BY <1>3, <1>4

LEMMA WaitKeeps ==
  ASSUME MachineInv, UsedInv, NEW pid \in Pids, Wait(pid)
  PROVE  MachineInv' /\ StaysItself /\ UsedInv'
<1> DEFINE s == IF procs[pid].state = "R" THEN "D" ELSE "R"
<1>1. /\ pid \in DOMAIN procs /\ procs[pid].state # "Z"
      /\ procs' = [procs EXCEPT ![pid].state = s]
      /\ UNCHANGED <<births, had, step>>
  BY DEF Wait, call
<1>2. \A p \in DOMAIN procs : procs[p] \in ProcessT
  BY DEF MachineInv
<1>3. s \in States
  BY DEF States
<1> HIDE DEF s
<1>4. \A p \in DOMAIN procs : p # pid => procs'[p] = procs[p]
  BY <1>1
<1>5. procs'[pid] = [procs[pid] EXCEPT !.state = s]
  BY <1>1
<1>6. /\ procs'[pid] \in ProcessT
      /\ procs'[pid].comm = procs[pid].comm /\ procs'[pid].amount = procs[pid].amount
  BY <1>1, <1>2, <1>3, <1>5 DEF ProcessT
<1>7. DOMAIN procs' = DOMAIN procs /\ procs' = [p \in DOMAIN procs |-> procs'[p]]
  BY <1>1 DEF MachineInv
<1> QED
  BY <1>1, <1>2, <1>4, <1>6, <1>7, SameProcesses

LEMMA ExitKeeps ==
  ASSUME MachineInv, UsedInv, NEW pid \in Pids, Exit(pid)
  PROVE  MachineInv' /\ StaysItself /\ UsedInv'
<1>1. /\ pid \in DOMAIN procs
      /\ procs' = [p \in DOMAIN procs |->
                    IF p = pid THEN [procs[p] EXCEPT !.state = "Z"]
                    ELSE IF procs[p].ppid = pid THEN [procs[p] EXCEPT !.ppid = InitPid]
                    ELSE procs[p]]
      /\ UNCHANGED <<births, had, step>>
  BY DEF Exit, call
<1>2. \A p \in DOMAIN procs : procs[p] \in ProcessT
  BY DEF MachineInv
<1>3. ASSUME NEW r \in ProcessT
      PROVE  /\ [r EXCEPT !.state = "Z"] \in ProcessT
             /\ [r EXCEPT !.state = "Z"].comm = r.comm
             /\ [r EXCEPT !.state = "Z"].amount = r.amount
             /\ [r EXCEPT !.state = "Z"].state = "Z"
             /\ [r EXCEPT !.ppid = InitPid] \in ProcessT
             /\ [r EXCEPT !.ppid = InitPid].comm = r.comm
             /\ [r EXCEPT !.ppid = InitPid].amount = r.amount
             /\ [r EXCEPT !.ppid = InitPid].state = r.state
  BY DEF ProcessT, States, InitPid
<1>4. ASSUME NEW p \in DOMAIN procs
      PROVE  /\ procs'[p] \in ProcessT
             /\ procs'[p].comm = procs[p].comm /\ procs'[p].amount = procs[p].amount
             /\ procs[p].state = "Z" => procs'[p].state = "Z"
  <2>1. CASE p = pid
    <3>1. procs'[p] = [procs[p] EXCEPT !.state = "Z"]
      BY <1>1, <2>1
    <3>2. procs[p] \in ProcessT
      BY <1>2
    <3> QED
      BY <1>3, <3>1, <3>2, Zenon
  <2>2. CASE p # pid /\ procs[p].ppid = pid
    <3>1. procs'[p] = [procs[p] EXCEPT !.ppid = InitPid]
      BY <1>1, <2>2
    <3>2. procs[p] \in ProcessT
      BY <1>2
    <3> QED
      BY <1>3, <3>1, <3>2, Zenon
  <2>3. CASE p # pid /\ procs[p].ppid # pid
    <3>1. procs'[p] = procs[p]
      BY <1>1, <2>3
    <3> QED
      BY <1>2, <3>1
  <2> QED
    BY <2>1, <2>2, <2>3
<1>5. DOMAIN procs' = DOMAIN procs /\ procs' = [p \in DOMAIN procs |-> procs'[p]]
  BY <1>1
<1> QED
  BY <1>1, <1>4, <1>5, SameProcesses

LEMMA CollectKeeps ==
  ASSUME MachineInv, UsedInv, NEW pid \in Pids, Collect(pid)
  PROVE  MachineInv' /\ StaysItself /\ UsedInv'
<1> DEFINE now == DOMAIN procs \ {pid}
<1>1. /\ pid \in DOMAIN procs
      /\ procs' = [p \in now |-> procs[p]]
      /\ had' = [c \in steady \ {procs[pid].comm} |-> had[c]]
      /\ UNCHANGED <<births, step>>
  BY DEF Collect, call
<1>2. DOMAIN procs' = now /\ \A p \in now : procs'[p] = procs[p] /\ p \in DOMAIN procs
  BY <1>1
<1>3. procs' \in [now -> ProcessT]
  BY <1>1 DEF MachineInv
<1>4. IsFiniteSet(now) /\ now \subseteq Nat
  BY FS_RemoveElement DEF MachineInv
<1>5. steady' \subseteq {procs'[p].comm : p \in now}
  <2> SUFFICES ASSUME NEW c \in steady' PROVE \E p \in now : c = procs'[p].comm
    OBVIOUS
  <2>1. PICK p \in DOMAIN procs : c = procs[p].comm
    BY <1>1 DEF MachineInv
  <2> QED
    BY <1>1, <1>2, <2>1
<1>6. StaysItself /\ UsedInv'
  BY <1>1, <1>2 DEF StaysItself, MachineInv, UsedInv
<1> QED
  BY <1>1, <1>2, <1>3, <1>4, <1>5, <1>6 DEF MachineInv

LEMMA WorkKeeps ==
  ASSUME MachineInv, UsedInv, NEW pid \in Pids, NEW amount \in Amounts, Work(pid, amount)
  PROVE  MachineInv' /\ StaysItself /\ UsedInv'
<1> DEFINE more(c) == had[c] \cup (IF c = procs[pid].comm THEN {amount} ELSE {})
<1>1. /\ pid \in DOMAIN procs /\ amount \in Nat
      /\ procs' = [procs EXCEPT ![pid].amount = amount]
      /\ UNCHANGED <<births, step>>
      /\ had' = IF step = "done" THEN had ELSE [c \in steady |-> more(c)]
  BY AmountsAssumption DEF Work, call
<1> HIDE DEF more
<1>2. \A p \in DOMAIN procs : procs[p] \in ProcessT
  BY DEF MachineInv
<1>3. \A p \in DOMAIN procs : p # pid => procs'[p] = procs[p]
  BY <1>1
<1>4. procs'[pid] = [procs[pid] EXCEPT !.amount = amount]
  BY <1>1
<1>5. /\ procs'[pid] \in ProcessT /\ procs'[pid].comm = procs[pid].comm
      /\ procs'[pid].state = procs[pid].state /\ procs'[pid].amount = amount
  BY <1>1, <1>2, <1>4 DEF ProcessT
<1>6. DOMAIN procs' = DOMAIN procs /\ procs' = [p \in DOMAIN procs |-> procs'[p]]
  BY <1>1 DEF MachineInv
<1>7. procs' \in [DOMAIN procs -> ProcessT]
  BY <1>2, <1>3, <1>5, <1>6
<1>8. \A p \in DOMAIN procs : procs'[p].comm = procs[p].comm
  BY <1>3, <1>5
<1>9. {procs'[p].comm : p \in DOMAIN procs'} = {procs[p].comm : p \in DOMAIN procs}
  BY <1>6, <1>8
<1>10. /\ steady' = steady
       /\ \A c \in steady : had[c] \subseteq had'[c] /\ had'[c] \subseteq Nat
  <2>1. CASE step = "done"
    BY <1>1, <2>1 DEF MachineInv
  <2>2. CASE step # "done"
    BY <1>1, <2>2 DEF MachineInv, more
  <2> QED
    BY <2>1, <2>2
<1>11. MachineInv'
  BY <1>1, <1>6, <1>7, <1>8, <1>9, <1>10 DEF MachineInv
<1>12. StaysItself
  BY <1>1, <1>3, <1>5, <1>6, <1>8, <1>10 DEF StaysItself, MachineInv
<1>13. ASSUME step \in {"read", "second"}, NEW p \in DOMAIN procs, procs[p].comm \in steady
       PROVE  procs'[p].amount \in had'[procs[p].comm]
  <2>1. had'[procs[p].comm] = more(procs[p].comm)
    BY <1>1, <1>13
  <2>2. CASE p = pid
    BY <1>5, <2>1, <2>2 DEF more
  <2>3. CASE p # pid
    BY <1>3, <1>13, <2>1, <2>3 DEF more, UsedInv
  <2> QED
    BY <2>2, <2>3
<1>14. UsedInv'
  BY <1>1, <1>6, <1>8, <1>10, <1>13 DEF UsedInv
<1> QED
  BY <1>11, <1>12, <1>14

LEMMA MachineSteps ==
  ASSUME MachineInv, UsedInv, Machine
  PROVE  MachineInv' /\ StaysItself /\ UsedInv' /\ UNCHANGED call
<1>1. ASSUME NEW parent \in Pids, NEW pid \in Pids, NEW amount \in Amounts,
             Fork(parent, pid, amount)
      PROVE  MachineInv' /\ StaysItself /\ UsedInv' /\ UNCHANGED call
  BY <1>1, ForkKeeps DEF Fork
<1>2. ASSUME NEW pid \in Pids, Wait(pid) \/ Exit(pid) \/ Collect(pid)
      PROVE  MachineInv' /\ StaysItself /\ UsedInv' /\ UNCHANGED call
  BY <1>2, WaitKeeps, ExitKeeps, CollectKeeps DEF Wait, Exit, Collect
<1>3. ASSUME \/ \E unit \in Units : FailOrRecover(unit)
             \/ \E next \in Phases : Proceed(next)
      PROVE  MachineInv' /\ StaysItself /\ UsedInv' /\ UNCHANGED call
  BY <1>3 DEF FailOrRecover, Proceed, MachineInv, StaysItself, UsedInv, call
<1>4. ASSUME NEW pid \in Pids, NEW amount \in Amounts, Work(pid, amount)
      PROVE  MachineInv' /\ StaysItself /\ UsedInv' /\ UNCHANGED call
  BY <1>4, WorkKeeps DEF Work
<1> QED
  BY <1>1, <1>2, <1>3, <1>4 DEF Machine

-----------------------------------------------------------------------------
(* The list of the numbers, and the rows.                                  *)

LEMMA InitProc == Init => ProcInv
<1> SUFFICES ASSUME Init PROVE ProcInv
  OBVIOUS
<1>1. Min(Amounts) \in Nat
  <2> DEFINE Least(n) == \A m \in Amounts : n <= m
  <2>1. PICK a \in Amounts : TRUE
    BY AmountsAssumption
  <2> DEFINE few == {m \in Amounts : m <= a}
             R == {r \in few \X few : r[1] > r[2]}
  <2>2. a \in Nat /\ \A m \in Amounts : m \in Nat
    BY AmountsAssumption
  <2>3. IsFiniteSet(few)
    <3>1. few \in SUBSET Nat /\ \A m \in few : m <= a
      BY <2>2
    <3> HIDE DEF few
    <3> QED
      BY <2>2, <3>1, FS_BoundedSetOfNaturals
  <2>4. a \in few /\ Orders(R, few)
    BY <2>2 DEF Orders
  <2>5. PICK n \in few : IsLast(n, R, few)
    <3> HIDE DEF few, R
    <3> QED
      BY <2>3, <2>4, LastExists
  <2>6. n \in Amounts /\ Least(n)
    <3>1. \A m \in few : m = n \/ n < m
      BY <2>5 DEF IsLast
    <3> QED
      BY <2>2, <3>1
  <2>7. Min(Amounts) \in Amounts
    BY <2>6 DEF Min
  <2> QED
    BY <2>2, <2>7
<1>2. \A p \in Nat : Born(p) \in ProcessT /\ Born(p).comm = p
  BY <1>1 DEF Born, Process, ProcessT, States, InitPid
<1>3. /\ procs = [p \in {1, 2} |-> Born(p)] /\ births = 2 /\ had = <<>> /\ steady = {}
      /\ DOMAIN procs = {1, 2}
  <2>1. procs = [p \in {1, 2} |-> Born(p)] /\ births = 2 /\ had = <<>>
    BY DEF Init, InitPid, Reader
  <2>2. steady = {}
    BY <2>1
  <2> QED
    BY <2>1, <2>2
<1>4. MachineInv
  <2>1. IsFiniteSet({1, 2})
    <3>1. {1, 2} = {1} \cup {2}
      OBVIOUS
    <3>2. IsFiniteSet({1})
      BY FS_Singleton
    <3> QED
      BY <3>1, <3>2, FS_AddElement
  <2>2. \A p \in {1, 2} : procs[p] = Born(p) /\ procs[p] \in ProcessT /\ procs[p].comm = p
    BY <1>2, <1>3
  <2>3. procs = [p \in {1, 2} |-> procs[p]]
    BY <1>3, <2>2
  <2> QED
    BY <1>3, <2>1, <2>2, <2>3 DEF MachineInv
<1>5. /\ step = "before" /\ todo = <<>> /\ rows = [l \in Lists |-> <<>>]
      /\ counts = [s \in States |-> 0] /\ asked \in Asks
  BY DEF Init
<1>6. ListsInv
  BY <1>5, AsksAssumption DEF ListsInv, Lists, TopLists, ProcSteps, SystemdSteps
<1>7. TodoInv
  BY <1>5 DEF TodoInv
<1>8. CountInv /\ OnceInv /\ ShownInv /\ LeavesOutLess
  BY <1>5 DEF CountInv, OnceInv, ShownInv, LeavesOutLess, TopRead
<1>9. RowsInv
  BY <1>5, SizesAssumption DEF RowsInv, Rowed, Lists, States
<1>10. UsedInv
  BY <1>5 DEF UsedInv
<1> QED
  BY <1>4, <1>6, <1>7, <1>8, <1>9, <1>10 DEF ProcInv

\* The listing takes down what every process uses, and all of them are steady.
LEMMA ListUses ==
  ASSUME MachineInv, List
  PROVE  MachineInv' /\ UsedInv'
<1> DEFINE there == {procs[p].comm : p \in DOMAIN procs}
           used(c) == {procs[p].amount : p \in {q \in DOMAIN procs : procs[q].comm = c}}
<1>1. had' = [c \in there |-> used(c)] /\ UNCHANGED <<procs, births>>
  BY DEF List, machine
<1>2. \A p \in DOMAIN procs : procs[p].amount \in Nat
  BY DEF MachineInv, ProcessT
<1>3. \A c : used(c) \subseteq Nat
  BY <1>2
<1>4. \A p \in DOMAIN procs : procs[p].amount \in used(procs[p].comm)
  OBVIOUS
<1> HIDE DEF used
<1>5. steady' = there /\ \A c \in there : had'[c] = used(c)
  BY <1>1
<1>6. MachineInv'
  BY <1>1, <1>3, <1>5 DEF MachineInv
<1>7. UsedInv'
  BY <1>1, <1>4, <1>5 DEF UsedInv
<1> QED
  BY <1>6, <1>7

\* What the listing takes down.
LEMMA ListTakesAll ==
  ASSUME MachineInv, List
  PROVE  /\ todo' \in Seq(Nat) /\ Len(todo') = Cardinality(DOMAIN procs)
         /\ DOMAIN procs \subseteq Left'
         /\ \A i, j \in 1..Len(todo') : i < j => todo'[i] # todo'[j]
         /\ asked = "proc.states" =>
              \A i, j \in 1..Len(todo') : i < j => todo'[i] < todo'[j]
<1> DEFINE S == DOMAIN procs
           n == Cardinality(S)
<1>1. IsFiniteSet(S) /\ S \subseteq Nat /\ n \in Nat
  BY FS_CardinalityType DEF MachineInv
<1>2. /\ todo' \in [1..n -> S]
      /\ \A i, j \in 1..n : i < j => todo'[i] # todo'[j]
      /\ asked = "proc.states" => \A i, j \in 1..n : i < j => todo'[i] < todo'[j]
  <2>1. CASE asked = "proc.states"
    <3>1. todo' = Sorted(S, <)
      BY <2>1 DEF List
    <3>2. /\ todo' \in [1..n -> S]
          /\ \A i, j \in 1..n : i < j => todo'[i] < todo'[j]
      BY <1>1, <3>1, NumbersSorted
    <3> HIDE DEF S, n
    <3>3. \A i, j \in 1..n : todo'[i] < todo'[j] => todo'[i] # todo'[j]
      <4>1. \A i \in 1..n : todo'[i] \in Nat
        BY <1>1, <3>2
      <4> QED
        BY <4>1
    <3> QED
      BY <3>2, <3>3
  <2>2. CASE asked # "proc.states"
    <3>1. todo' = SetToSeq(S)
      BY <2>2 DEF List
    <3> QED
      BY <1>1, <2>2, <3>1, NumbersInSomeOrder
  <2> QED
    BY <2>1, <2>2
<1>3. \A x \in S : \E k \in 1..n : todo'[k] = x
  BY <1>1, <1>2, EnumeratesEach
<1> HIDE DEF S, n
<1>4. todo' \in Seq(Nat) /\ Len(todo') = n
  <2>1. todo' \in [1..n -> Nat]
    BY <1>1, <1>2
  <2> QED
    BY <1>1, <2>1
<1>5. S \subseteq Left'
  BY <1>3, <1>4 DEF Left
<1> QED
  BY <1>2, <1>4, <1>5 DEF S, n

\* The number that is read leaves the list.
LEMMA HeadLeaves ==
  ASSUME TodoInv, todo # <<>>, todo' = Tail(todo)
  PROVE  /\ Head(todo) \in Nat
         /\ todo' \in Seq(Nat) /\ Len(todo') = Len(todo) - 1
         /\ \A k \in 1..Len(todo') : todo'[k] = todo[k + 1]
         /\ Left = Left' \cup {Head(todo)} /\ Head(todo) \notin Left'
         /\ \A i, j \in 1..Len(todo') : i < j => todo'[i] # todo'[j]
         /\ asked = "proc.states" =>
              /\ \A i, j \in 1..Len(todo') : i < j => todo'[i] < todo'[j]
              /\ \A k \in 1..Len(todo') : Head(todo) < todo'[k]
<1> DEFINE n == Len(todo)
<1>1. todo \in Seq(Nat) /\ n \in Nat /\ n # 0
  BY DEF TodoInv
<1>2. /\ Head(todo) = todo[1] /\ todo[1] \in Nat
      /\ todo' \in Seq(Nat) /\ Len(todo') = n - 1
      /\ \A k \in 1..n - 1 : todo'[k] = todo[k + 1]
  BY <1>1
<1>3. \A i, j \in 1..n : i < j => todo[i] # todo[j]
  BY DEF TodoInv
<1>4. asked = "proc.states" => \A i, j \in 1..n : i < j => todo[i] < todo[j]
  BY DEF TodoInv
<1> HIDE DEF n
<1>5. \A k \in 1..n - 1 : k + 1 \in 1..n /\ 1 < k + 1 /\ 1 \in 1..n
  BY <1>1
<1>6. \A i, j \in 1..n - 1 : i < j => i + 1 < j + 1
  BY <1>1
<1>7. Left = Left' \cup {todo[1]}
  <2>1. Left = {todo[k] : k \in 1..n} /\ Left' = {todo'[k] : k \in 1..n - 1}
    BY <1>2 DEF Left, n
  <2>2. \A k \in 1..n : k = 1 \/ (k - 1 \in 1..n - 1 /\ (k - 1) + 1 = k)
    BY <1>1
  <2>3. \A x \in Left : x \in Left' \cup {todo[1]}
    <3> SUFFICES ASSUME NEW k \in 1..n PROVE todo[k] \in Left' \cup {todo[1]}
      BY <2>1
    <3>1. CASE k = 1
      BY <3>1
    <3>2. CASE k # 1
      <4>1. k - 1 \in 1..n - 1 /\ todo'[k - 1] = todo[k]
        BY <1>2, <2>2, <3>2
      <4> QED
        BY <2>1, <4>1
    <3> QED
      BY <3>1, <3>2
  <2>4. \A x \in Left' : x \in Left
    BY <1>2, <1>5, <2>1
  <2>5. todo[1] \in Left
    BY <1>1, <2>1
  <2> QED
    BY <2>3, <2>4, <2>5
<1>8. todo[1] \notin Left'
  <2>1. Left' = {todo'[k] : k \in 1..n - 1}
    BY <1>2 DEF Left
  <2> QED
    BY <1>2, <1>3, <1>5, <2>1
<1>9. \A i, j \in 1..n - 1 : i < j => todo'[i] # todo'[j]
  BY <1>2, <1>3, <1>5, <1>6
<1>10. asked = "proc.states" =>
         /\ \A i, j \in 1..n - 1 : i < j => todo'[i] < todo'[j]
         /\ \A k \in 1..n - 1 : todo[1] < todo'[k]
  BY <1>2, <1>4, <1>5, <1>6
<1> QED
  BY <1>2, <1>7, <1>8, <1>9, <1>10 DEF n

\* A new row is the last of its list.
LEMMA RowAdded ==
  ASSUME NEW l \in Lists, NEW row, NEW S, rows[l] \in Seq(S), row \in S,
         DOMAIN rows = Lists, Add(l, row)
  PROVE  /\ DOMAIN rows' = Lists
         /\ \A m \in Lists \ {l} : rows'[m] = rows[m]
         /\ rows'[l] \in Seq(S) /\ Len(rows'[l]) = Len(rows[l]) + 1
         /\ \A i \in 1..Len(rows[l]) : rows'[l][i] = rows[l][i]
         /\ rows'[l][Len(rows[l]) + 1] = row
         /\ \A i \in 1..Len(rows'[l]) : i \in 1..Len(rows[l]) \/ i = Len(rows[l]) + 1
<1> DEFINE old == rows[l]
           n == Len(old)
<1>1. rows'[l] = Append(old, row) /\ DOMAIN rows' = Lists
      /\ \A m \in Lists \ {l} : rows'[m] = rows[m]
  BY DEF Add
<1>2. old \in Seq(S) /\ n \in Nat
  OBVIOUS
<1> HIDE DEF old
<1>3. /\ Append(old, row) \in Seq(S) /\ Len(Append(old, row)) = n + 1
      /\ \A i \in 1..n : Append(old, row)[i] = old[i]
      /\ Append(old, row)[n + 1] = row
  BY <1>2
<1>4. \A i \in 1..n + 1 : i \in 1..n \/ i = n + 1
  BY <1>2
<1> QED
  BY <1>1, <1>3, <1>4 DEF old

-----------------------------------------------------------------------------
(* ReadStat does one of five things.                                       *)

\* The process is gone.
SkipsIt ==
  /\ Head(todo) \notin DOMAIN procs
  /\ UNCHANGED <<step, half, rows, counts>>

CountsIt ==
  /\ Head(todo) \in DOMAIN procs /\ asked = "proc.states"
  /\ counts' = [counts EXCEPT ![procs[Head(todo)].state] = @ + 1]
  /\ \/ procs[Head(todo)].state = "R"
     \/ ~ (Len(rows[procs[Head(todo)].state]) < LIST_MAX)
  /\ UNCHANGED <<step, half, rows>>

CountsAndLists ==
  /\ Head(todo) \in DOMAIN procs /\ asked = "proc.states"
  /\ counts' = [counts EXCEPT ![procs[Head(todo)].state] = @ + 1]
  /\ procs[Head(todo)].state # "R" /\ Len(rows[procs[Head(todo)].state]) < LIST_MAX
  /\ half' = Stat(Head(todo)) /\ step' = "second"
  /\ UNCHANGED rows

TopRow(pid) == [pid |-> pid, comm |-> procs[pid].comm, amount |-> procs[pid].amount]

TakesTop ==
  /\ Head(todo) \in DOMAIN procs /\ asked = "proc.top"
  /\ Add("cpu", TopRow(Head(todo)))
  /\ half' = Stat(Head(todo)) /\ step' = "second"
  /\ UNCHANGED counts

TakesThreads ==
  /\ Head(todo) \in DOMAIN procs /\ asked = "proc.threads"
  /\ Add("threads", TopRow(Head(todo)))
  /\ UNCHANGED <<step, half, counts>>

LEMMA ReadStatDoes ==
  ASSUME ReadStat
  PROVE  /\ step = "read" /\ todo # <<>> /\ todo' = Tail(todo)
         /\ UNCHANGED <<procs, births, asked, had>>
         /\ SkipsIt \/ CountsIt \/ CountsAndLists \/ TakesTop \/ TakesThreads
<1>1. /\ step = "read" /\ todo # <<>> /\ todo' = Tail(todo)
      /\ UNCHANGED <<procs, births, asked, had>>
  BY DEF ReadStat, machine
<1>2. SkipsIt \/ CountsIt \/ CountsAndLists \/ TakesTop \/ TakesThreads
  BY DEF ReadStat, Stat, TopRow, SkipsIt, CountsIt, CountsAndLists, TakesTop, TakesThreads
<1> QED
  BY <1>1, <1>2

\* ReadSecond is ReadParent or ReadMemory, on the number of half.
LEMMA ReadSecondDoes ==
  ASSUME ReadSecond
  PROVE  /\ step = "second" /\ step' = "read"
         /\ UNCHANGED <<procs, births, asked, had, todo, counts>>
         /\ \/ asked = "proc.states" /\ ReadParent
            \/ asked = "proc.top" /\ ReadMemory
BY DEF ReadSecond, machine

LEMMA StatTypes ==
  ASSUME MachineInv, NEW pid \in DOMAIN procs
  PROVE  /\ Stat(pid) \in StatT /\ TopRow(pid) \in TopT
         /\ procs[pid] \in ProcessT /\ procs[pid].state \in States
<1>1. procs[pid] \in ProcessT /\ pid \in Nat
  BY DEF MachineInv
<1> QED
  BY <1>1 DEF Stat, TopRow, StatT, TopT, ProcessT

\* The row of ReadParent and that of ReadMemory.
ParentRow ==
  Row(half, IF half.ppid \in DOMAIN procs THEN procs[half.ppid].comm ELSE None)
MemoryRow == [pid |-> half.pid, comm |-> half.comm, amount |-> procs[half.pid].amount]

LEMMA SecondTypes ==
  ASSUME MachineInv, half \in StatT
  PROVE  /\ ParentRow \in RowT /\ ParentRow.pid = half.pid
         /\ half.pid \in DOMAIN procs => MemoryRow \in TopT
<1>1. \A p \in DOMAIN procs : procs[p].comm \in Nat /\ procs[p].amount \in Nat
  BY DEF MachineInv, ProcessT
<1>2. half.pid \in Nat /\ half.comm \in Nat /\ half.ppid \in Nat
  BY DEF StatT
<1> DEFINE parent == IF half.ppid \in DOMAIN procs THEN procs[half.ppid].comm ELSE None
<1>3. parent \in {None} \cup Nat
  BY <1>1
<1>4. ParentRow = Row(half, parent)
  BY DEF ParentRow
<1> HIDE DEF parent
<1>5. ParentRow \in RowT /\ ParentRow.pid = half.pid
  BY <1>2, <1>3, <1>4 DEF Row, RowT
<1>6. half.pid \in DOMAIN procs => MemoryRow \in TopT
  BY <1>1, <1>2 DEF MemoryRow, TopT
<1> QED
  BY <1>5, <1>6

-----------------------------------------------------------------------------
(* Types are kept.                                                         *)

LEMMA AskLists ==
  ASSUME ListsInv, TodoInv, Ask
  PROVE  ListsInv' /\ TodoInv'
<1>1. /\ step = "before" /\ UNCHANGED <<asked, todo, half, rows, counts>>
      /\ step' = IF asked = "systemd.status" THEN "is-running" ELSE "list"
  BY DEF Ask
<1>2. ListsInv'
  BY <1>1 DEF ListsInv, ProcSteps, SystemdSteps
<1>3. TodoInv'
  BY <1>1 DEF TodoInv, Left
<1> QED
  BY <1>2, <1>3

LEMMA ListLists ==
  ASSUME MachineInv, ListsInv, TodoInv, List
  PROVE  ListsInv' /\ TodoInv'
<1>1. step = "list" /\ step' = "read" /\ UNCHANGED <<asked, half, rows, counts>>
  BY DEF List
<1>2. asked # "systemd.status"
  BY <1>1 DEF ListsInv, SystemdSteps
<1>3. ListsInv'
  BY <1>1, <1>2 DEF ListsInv, ProcSteps
<1>4. TodoInv'
  BY <1>1, ListTakesAll DEF TodoInv
<1> QED
  BY <1>3, <1>4

LEMMA SystemctlLists ==
  ASSUME ListsInv, TodoInv, Systemctl
  PROVE  ListsInv' /\ TodoInv'
<1>1. /\ step \in {"is-running", "failed-units"}
      /\ step' \in {"failed-units", "done"}
      /\ UNCHANGED <<asked, todo, half, counts>>
      /\ DOMAIN rows' = DOMAIN rows /\ \A l \in Lists \ {"failed"} : rows'[l] = rows[l]
  BY DEF Systemctl, IsRunning, NoAnswer, Silent, FailedUnits, ListsInv, Lists
<1>2. asked = "systemd.status"
  BY <1>1 DEF ListsInv, ProcSteps
<1>3. ListsInv'
  BY <1>1, <1>2 DEF ListsInv, SystemdSteps, TopLists, Lists
<1>4. TodoInv'
  BY <1>1, <1>2 DEF TodoInv, Left
<1> QED
  BY <1>3, <1>4

LEMMA EndLists ==
  ASSUME ListsInv, TodoInv, OnceInv, EndOfList
  PROVE  ListsInv' /\ TodoInv'
<1>1. /\ step = "read" /\ step' = "done" /\ todo = <<>>
      /\ UNCHANGED <<asked, todo, half, counts>>
      /\ rows' = [l \in Lists |-> IF l \in TopLists THEN Top(rows[l]) ELSE rows[l]]
  BY DEF EndOfList, TopLists
<1>2. asked \in {"proc.states", "proc.top", "proc.threads"}
  BY <1>1 DEF ListsInv, SystemdSteps
<1>3. \A l \in TopLists : rows[l] \in Seq(TopT)
  BY DEF ListsInv
<1>4. ASSUME NEW l \in TopLists
      PROVE  Distinct(rows[l]) /\ (rows[l] = <<>> => Top(rows[l]) = <<>>)
  <2>1. CASE rows[l] = <<>>
    BY <2>1, TopOfNone DEF Distinct
  <2>2. CASE rows[l] # <<>>
    <3>1. l \in ListsOf /\ TopRead
      BY <1>1, <1>2, <2>2 DEF ListsInv, ListsOf, TopRead, TopLists
    <3> QED
      BY <2>2, <3>1 DEF OnceInv
  <2> QED
    BY <2>1, <2>2
<1>5. \A l \in TopLists : Top(rows[l]) \in Seq(TopT)
  BY <1>3, <1>4, TopHasTheMost
<1>6. /\ \A l \in TopLists : rows'[l] = Top(rows[l])
      /\ \A l \in {"Z", "D"} : rows'[l] = rows[l]
      /\ DOMAIN rows' = Lists
  BY <1>1 DEF TopLists, Lists
<1>7. ListsInv'
  BY <1>1, <1>2, <1>4, <1>5, <1>6 DEF ListsInv, ProcSteps, TopLists
<1>8. TodoInv'
  BY <1>1 DEF TodoInv, Left
<1> QED
  BY <1>7, <1>8

\* What reading a number leaves of the numbers.
LEMMA ReadStatTodo ==
  ASSUME MachineInv, ListsInv, TodoInv, ReadStat
  PROVE  TodoInv'
<1>1. /\ step = "read" /\ todo # <<>> /\ todo' = Tail(todo) /\ UNCHANGED asked
      /\ \/ UNCHANGED <<step, half>>
         \/ step' = "second" /\ half' = Stat(Head(todo))
  BY ReadStatDoes DEF SkipsIt, CountsIt, CountsAndLists, TakesTop, TakesThreads
<1>2. step' = "second" => half'.pid = Head(todo)
  BY <1>1 DEF Stat
<1>3. step' # "done"
  BY <1>1
<1> QED
  BY <1>1, <1>2, <1>3, HeadLeaves DEF TodoInv

LEMMA ReadStatLists ==
  ASSUME MachineInv, ListsInv, ReadStat
  PROVE  ListsInv'
<1>1. /\ step = "read" /\ UNCHANGED asked /\ asked # "systemd.status"
      /\ counts \in [States -> Nat] /\ DOMAIN rows = Lists
      /\ \A l \in TopLists : rows[l] \in Seq(TopT)
      /\ \A l \in {"Z", "D"} : rows[l] \in Seq(RowT)
  BY ReadStatDoes DEF ListsInv, SystemdSteps
<1>2. ProcSteps = {"before", "list", "read", "second", "done"}
  BY DEF ProcSteps
<1>3. /\ asked # "proc.top" => rows["cpu"] = <<>> /\ rows["mem"] = <<>>
      /\ asked # "proc.threads" => rows["threads"] = <<>>
  BY DEF ListsInv
<1> DEFINE pid == Head(todo)
<1>4. CASE SkipsIt
  BY <1>1, <1>2, <1>3, <1>4 DEF SkipsIt, ListsInv
<1>5. ASSUME pid \in DOMAIN procs,
             counts' = [counts EXCEPT ![procs[pid].state] = @ + 1]
      PROVE  counts' \in [States -> Nat]
  BY <1>1, <1>5, StatTypes
<1>6. CASE CountsIt
  BY <1>1, <1>2, <1>3, <1>5, <1>6 DEF CountsIt, ListsInv
<1>7. CASE CountsAndLists
  <2>1. half' \in StatT /\ step' = "second"
    BY <1>7, StatTypes DEF CountsAndLists
  <2> QED
    BY <1>1, <1>2, <1>3, <1>5, <1>7, <2>1 DEF CountsAndLists, ListsInv
<1>8. CASE TakesTop
  <2>1. half' \in StatT /\ step' = "second" /\ TopRow(pid) \in TopT
        /\ asked = "proc.top" /\ UNCHANGED counts
    BY <1>8, StatTypes DEF TakesTop
  <2>2. /\ DOMAIN rows' = Lists
        /\ \A m \in Lists \ {"cpu"} : rows'[m] = rows[m]
        /\ rows'["cpu"] \in Seq(TopT)
    <3>1. Add("cpu", TopRow(pid)) /\ "cpu" \in Lists /\ rows["cpu"] \in Seq(TopT)
      BY <1>1, <1>8 DEF TakesTop, Lists, TopLists
    <3> QED
      BY <1>1, <2>1, <3>1, RowAdded
  <2>3. \A l \in TopLists : rows'[l] \in Seq(TopT)
    BY <1>1, <2>2 DEF TopLists, Lists
  <2>4. \A l \in {"Z", "D"} : rows'[l] \in Seq(RowT)
    BY <1>1, <2>2 DEF Lists
  <2>5. rows'["threads"] = <<>>
    BY <1>3, <2>1, <2>2 DEF Lists
  <2> QED
    BY <1>1, <1>2, <2>1, <2>2, <2>3, <2>4, <2>5 DEF ListsInv
<1>9. CASE TakesThreads
  <2>1. TopRow(pid) \in TopT /\ asked = "proc.threads" /\ UNCHANGED <<step, half, counts>>
    BY <1>9, StatTypes DEF TakesThreads
  <2>2. /\ DOMAIN rows' = Lists
        /\ \A m \in Lists \ {"threads"} : rows'[m] = rows[m]
        /\ rows'["threads"] \in Seq(TopT)
    <3>1. /\ Add("threads", TopRow(pid)) /\ "threads" \in Lists
          /\ rows["threads"] \in Seq(TopT)
      BY <1>1, <1>9 DEF TakesThreads, Lists, TopLists
    <3> QED
      BY <1>1, <2>1, <3>1, RowAdded
  <2>3. \A l \in TopLists : rows'[l] \in Seq(TopT)
    BY <1>1, <2>2 DEF TopLists, Lists
  <2>4. \A l \in {"Z", "D"} : rows'[l] \in Seq(RowT)
    BY <1>1, <2>2 DEF Lists
  <2>5. rows'["cpu"] = <<>> /\ rows'["mem"] = <<>>
    BY <1>3, <2>1, <2>2 DEF Lists
  <2> QED
    BY <1>1, <1>2, <2>1, <2>2, <2>3, <2>4, <2>5 DEF ListsInv
<1> QED
  BY <1>4, <1>6, <1>7, <1>8, <1>9, ReadStatDoes

\* The row that ReadSecond adds, if any.
LEMMA ReadSecondRows ==
  ASSUME MachineInv, ListsInv, RowsInv, ReadSecond
  PROVE  \/ /\ asked = "proc.states" /\ half.state \in {"Z", "D"}
            /\ Add(half.state, ParentRow)
            /\ ParentRow \in RowT /\ ParentRow.pid = half.pid
         \/ /\ asked = "proc.top" /\ half.pid \in DOMAIN procs
            /\ procs[half.pid].state # "Z"
            /\ Add("mem", MemoryRow) /\ MemoryRow \in TopT
         \/ /\ asked = "proc.top" /\ UNCHANGED rows
            /\ half.pid \in DOMAIN procs => procs[half.pid].state = "Z"
<1>1. half \in StatT /\ step = "second"
  BY ReadSecondDoes DEF ListsInv
<1>2. CASE asked = "proc.states" /\ ReadParent
  BY <1>1, <1>2, SecondTypes DEF ReadParent, ParentRow, RowsInv
<1>3. CASE asked = "proc.top" /\ ReadMemory
  BY <1>1, <1>3, SecondTypes DEF ReadMemory, MemoryRow
<1> QED
  BY <1>2, <1>3, ReadSecondDoes

LEMMA ReadSecondLists ==
  ASSUME MachineInv, ListsInv, TodoInv, RowsInv, ReadSecond
  PROVE  ListsInv' /\ TodoInv'
<1>1. /\ step = "second" /\ step' = "read" /\ UNCHANGED <<asked, todo, counts>>
      /\ asked \in {"proc.states", "proc.top"}
  BY ReadSecondDoes
<1>2. /\ counts \in [States -> Nat] /\ DOMAIN rows = Lists
      /\ \A l \in TopLists : rows[l] \in Seq(TopT)
      /\ \A l \in {"Z", "D"} : rows[l] \in Seq(RowT)
      /\ asked # "proc.top" => rows["cpu"] = <<>> /\ rows["mem"] = <<>>
      /\ rows["threads"] = <<>>
  BY <1>1 DEF ListsInv
<1>3. /\ DOMAIN rows' = Lists
      /\ \A l \in TopLists : rows'[l] \in Seq(TopT)
      /\ \A l \in {"Z", "D"} : rows'[l] \in Seq(RowT)
      /\ asked # "proc.top" => rows'["cpu"] = <<>> /\ rows'["mem"] = <<>>
      /\ rows'["threads"] = <<>>
  <2>1. CASE /\ asked = "proc.states" /\ half.state \in {"Z", "D"}
             /\ Add(half.state, ParentRow) /\ ParentRow \in RowT
    <3>1. half.state \in Lists /\ rows[half.state] \in Seq(RowT)
      BY <1>2, <2>1 DEF Lists
    <3>2. /\ DOMAIN rows' = Lists
          /\ \A m \in Lists \ {half.state} : rows'[m] = rows[m]
          /\ rows'[half.state] \in Seq(RowT)
      BY <1>2, <2>1, <3>1, RowAdded
    <3>3. \A l \in {"Z", "D"} : rows'[l] \in Seq(RowT)
      BY <1>2, <3>2 DEF Lists
    <3>4. \A l \in TopLists : rows'[l] = rows[l]
      BY <2>1, <3>2 DEF Lists, TopLists
    <3> QED
      BY <1>2, <3>2, <3>3, <3>4 DEF TopLists
  <2>2. CASE asked = "proc.top" /\ Add("mem", MemoryRow) /\ MemoryRow \in TopT
    <3>1. "mem" \in Lists /\ rows["mem"] \in Seq(TopT)
      BY <1>2 DEF Lists, TopLists
    <3>2. /\ DOMAIN rows' = Lists
          /\ \A m \in Lists \ {"mem"} : rows'[m] = rows[m]
          /\ rows'["mem"] \in Seq(TopT)
      BY <1>2, <2>2, <3>1, RowAdded
    <3> QED
      BY <1>2, <2>2, <3>2 DEF Lists, TopLists
  <2>3. CASE asked = "proc.top" /\ UNCHANGED rows
    BY <1>2, <2>3
  <2> QED
    BY <2>1, <2>2, <2>3, ReadSecondRows
<1>4. ListsInv'
  BY <1>1, <1>2, <1>3 DEF ListsInv, ProcSteps
<1>5. TodoInv'
  BY <1>1 DEF TodoInv, Left
<1> QED
  BY <1>4, <1>5

-----------------------------------------------------------------------------
(* The counts are kept.                                                    *)

LEMMA TotalType ==
  ASSUME counts \in [States -> Nat]
  PROVE  Total \in Nat
BY DEF Total, States

LEMMA TotalGrows ==
  ASSUME counts \in [States -> Nat], NEW s \in States,
         counts' = [counts EXCEPT ![s] = @ + 1]
  PROVE  /\ Total' = Total + 1 /\ counts'[s] = counts[s] + 1
         /\ \A t \in States \ {s} : counts'[t] = counts[t]
BY DEF Total, States

\* What can be read at once is no more than what was born.
LEMMA BirthsBound ==
  ASSUME MachineInv
  PROVE  Cardinality(DOMAIN procs) <= births
<1> DEFINE S == DOMAIN procs
           f == [p \in S |-> procs[p].comm]
           T == 1..births
<1>1. f \in Injection(S, T)
  BY DEF MachineInv, Injection, IsInjective
<1>2. births \in Nat /\ IsFiniteSet(T) /\ Cardinality(T) = births
  <2>1. births \in Nat
    BY DEF MachineInv
  <2> QED
    BY <2>1, FS_Interval
<1>3. Cardinality(S) <= Cardinality(T)
  <2> HIDE DEF f, S, T
  <2> QED
    BY <1>1, <1>2, FS_Injection
<1> QED
  BY <1>2, <1>3

LEMMA CountedIsFinite ==
  ASSUME MachineInv
  PROVE  IsFiniteSet(Counted) /\ Cardinality(Counted) \in Nat
<1>1. Counted \subseteq DOMAIN procs /\ IsFiniteSet(DOMAIN procs)
  BY DEF Counted, MachineInv
<1>2. IsFiniteSet(Counted)
  BY <1>1, FS_Subset
<1> QED
  BY <1>2, FS_CardinalityType

LEMMA CountMachine ==
  ASSUME MachineInv, ListsInv, TodoInv, CountInv, MachineInv', StaysItself, UNCHANGED call
  PROVE  CountInv'
<1> SUFFICES ASSUME asked = "proc.states", step \in {"read", "second", "done"}
             PROVE  Total' + Len(todo') <= births' /\ Cardinality(Counted') <= Total'
  BY DEF CountInv, call
<1>1. Total + Len(todo) <= births /\ Cardinality(Counted) <= Total
  BY DEF CountInv
<1>2. Total' = Total /\ todo' = todo /\ Left' = Left
  BY DEF Total, Left, call
<1>3. Counted' \subseteq Counted
  BY <1>2 DEF Counted, StaysItself
<1>4. /\ IsFiniteSet(Counted) /\ Cardinality(Counted) \in Nat
      /\ Cardinality(Counted') <= Cardinality(Counted)
      /\ Cardinality(Counted') \in Nat
  BY <1>3, CountedIsFinite, FS_Subset, FS_CardinalityType
<1>5. Total \in Nat /\ births \in Nat /\ births' \in Nat /\ births <= births'
      /\ Len(todo) \in Nat
  BY TotalType DEF ListsInv, TodoInv, MachineInv, StaysItself
<1> QED
  BY <1>1, <1>2, <1>4, <1>5

LEMMA CountList ==
  ASSUME MachineInv, ListsInv, List
  PROVE  CountInv'
<1>1. UNCHANGED <<procs, births, counts>> /\ step = "list"
  BY DEF List, machine
<1>2. Total' = 0
  <2>1. \A s \in States : counts'[s] = 0
    BY <1>1 DEF ListsInv
  <2> QED
    BY <2>1 DEF Total, States
<1>3. Counted' = {}
  BY <1>1, ListTakesAll DEF Counted
<1>4. Cardinality(Counted') = 0
  BY <1>3, FS_EmptySet
<1>5. Len(todo') <= births' /\ Len(todo') \in Nat
  BY <1>1, ListTakesAll, BirthsBound
<1> QED
  BY <1>2, <1>4, <1>5 DEF CountInv

LEMMA CountRead ==
  ASSUME MachineInv, ListsInv, TodoInv, CountInv, ReadStat
  PROVE  CountInv'
<1> SUFFICES ASSUME asked = "proc.states"
             PROVE  Total' + Len(todo') <= births' /\ Cardinality(Counted') <= Total'
  BY ReadStatDoes DEF CountInv
<1> DEFINE pid == Head(todo)
<1>1. /\ step = "read" /\ UNCHANGED <<procs, births, had>>
      /\ Len(todo') = Len(todo) - 1 /\ Left = Left' \cup {pid}
      /\ Len(todo) \in Nat
  BY ReadStatDoes, HeadLeaves DEF TodoInv
<1>2. Total + Len(todo) <= births /\ Cardinality(Counted) <= Total
  BY <1>1 DEF CountInv
<1>3. Total \in Nat /\ births \in Nat
  BY TotalType DEF ListsInv, MachineInv
<1>4. /\ Counted' \subseteq Counted \cup {pid}
      /\ pid \notin DOMAIN procs => Counted' \subseteq Counted
  BY <1>1 DEF Counted
<1>5. IsFiniteSet(Counted) /\ Cardinality(Counted) \in Nat
  BY CountedIsFinite
<1>6. CASE SkipsIt
  <2>1. Total' = Total /\ pid \notin DOMAIN procs
    BY <1>6 DEF SkipsIt, Total
  <2>2. /\ Cardinality(Counted') <= Cardinality(Counted)
        /\ Cardinality(Counted') \in Nat
    BY <1>4, <1>5, <2>1, FS_Subset, FS_CardinalityType
  <2> QED
    BY <1>1, <1>2, <1>3, <1>5, <2>1, <2>2
<1>7. CASE CountsIt \/ CountsAndLists
  <2>1. Total' = Total + 1
    <3>1. /\ pid \in DOMAIN procs
          /\ counts' = [counts EXCEPT ![procs[pid].state] = @ + 1]
      BY <1>7 DEF CountsIt, CountsAndLists
    <3>2. procs[pid].state \in States /\ counts \in [States -> Nat]
      BY <3>1, StatTypes DEF ListsInv
    <3> QED
      BY <3>1, <3>2, TotalGrows
  <2>2. /\ IsFiniteSet(Counted \cup {pid})
        /\ Cardinality(Counted \cup {pid}) <= Cardinality(Counted) + 1
        /\ Cardinality(Counted \cup {pid}) \in Nat
    BY <1>5, FS_AddElement, FS_CardinalityType
  <2>3. /\ Cardinality(Counted') <= Cardinality(Counted \cup {pid})
        /\ Cardinality(Counted') \in Nat
    BY <1>4, <2>2, FS_Subset, FS_CardinalityType
  <2> QED
    BY <1>1, <1>2, <1>3, <1>5, <2>1, <2>2, <2>3
<1> QED
  BY <1>6, <1>7, ReadStatDoes DEF TakesTop, TakesThreads

LEMMA CountRest ==
  ASSUME ListsInv, CountInv,
         \/ Ask \/ Systemctl
         \/ ReadSecond \/ EndOfList
  PROVE  CountInv'
<1>1. UNCHANGED <<procs, births, asked, todo, counts, had>>
  BY DEF Ask, Systemctl, ReadSecond, EndOfList, machine
<1>2. Total' = Total /\ Counted' = Counted
  BY <1>1 DEF Total, Counted, Left
<1>3. CASE Ask
  BY <1>1, <1>3 DEF Ask, CountInv
<1>4. CASE Systemctl
  <2>1. step \in {"is-running", "failed-units"}
    BY <1>4 DEF Systemctl, IsRunning, NoAnswer, Silent, FailedUnits
  <2>2. asked = "systemd.status"
    BY <2>1 DEF ListsInv, ProcSteps
  <2> QED
    BY <1>1, <2>2 DEF CountInv
<1>5. CASE ReadSecond \/ EndOfList
  <2>1. step \in {"read", "second"}
    BY <1>5 DEF ReadSecond, EndOfList
  <2> QED
    BY <1>1, <1>2, <2>1 DEF CountInv
<1> QED
  BY <1>3, <1>4, <1>5

-----------------------------------------------------------------------------
(* The lists of proc.states are kept.                                      *)

\* Nothing that RowsInv speaks of changes.
LEMMA RowsSame ==
  ASSUME RowsInv, step # "second", step' # "second",
         UNCHANGED <<asked, todo, counts>>,
         \A s \in {"Z", "D"} : rows'[s] = rows[s]
  PROVE  RowsInv'
BY DEF RowsInv, Rowed

LEMMA RowsMachine ==
  ASSUME RowsInv, UNCHANGED call
  PROVE  RowsInv'
BY DEF RowsInv, Rowed, call

LEMMA RowsList ==
  ASSUME ListsInv, RowsInv, List
  PROVE  RowsInv'
<1>1. step = "list" /\ step' = "read" /\ UNCHANGED <<asked, rows, counts>>
  BY DEF List
<1>2. \A s \in {"Z", "D"} : rows'[s] = <<>>
  BY <1>1 DEF ListsInv, Lists
<1>3. \A s \in {"Z", "D"} : Rowed(s)' = Rowed(s)
  BY <1>1 DEF Rowed
<1> QED
  BY <1>1, <1>2, <1>3 DEF RowsInv

LEMMA RowsRead ==
  ASSUME MachineInv, ListsInv, TodoInv, RowsInv, ReadStat
  PROVE  RowsInv'
<1> SUFFICES ASSUME asked = "proc.states" PROVE RowsInv'
  BY ReadStatDoes DEF RowsInv
<1> DEFINE pid == Head(todo)
           s0 == procs[pid].state
<1>1. /\ step = "read" /\ UNCHANGED asked
      /\ Len(todo') = Len(todo) - 1 /\ Len(todo) \in Nat
      /\ \A k \in 1..Len(todo') : todo'[k] = todo[k + 1] /\ k + 1 \in 1..Len(todo)
      /\ \A k \in 1..Len(todo') : pid < todo'[k]
      /\ pid = todo[1] /\ 1 \in 1..Len(todo)
  <2>1. todo \in Seq(Nat) /\ todo # <<>> /\ Len(todo) \in Nat
    BY ReadStatDoes DEF TodoInv
  <2>2. pid = todo[1] /\ 1 \in 1..Len(todo)
    BY <2>1
  <2>3. Len(todo') = Len(todo) - 1
    BY ReadStatDoes, HeadLeaves
  <2>4. \A k \in 1..Len(todo') : k + 1 \in 1..Len(todo)
    BY <2>1, <2>3
  <2> QED
    BY <2>1, <2>2, <2>3, <2>4, ReadStatDoes, HeadLeaves
<1>2. /\ counts \in [States -> Nat] /\ LIST_MAX \in Nat
      /\ \A s \in {"Z", "D"} : Len(rows[s]) \in Nat /\ s \in States
  BY SizesAssumption DEF ListsInv, States
<1>3. \A s \in {"Z", "D"} :
        Len(rows[s]) = IF counts[s] < LIST_MAX THEN counts[s] ELSE LIST_MAX
  BY <1>1, <1>2 DEF RowsInv, Rowed
<1>4. ASSUME NEW s \in {"Z", "D"}, NEW i \in 1..Len(rows[s])
      PROVE  /\ \A j \in 1..Len(rows[s]) : i < j => rows[s][i].pid < rows[s][j].pid
             /\ \A k \in 1..Len(todo') : rows[s][i].pid < todo'[k]
             /\ rows[s][i].pid < pid
  BY <1>1 DEF RowsInv
<1>5. UNCHANGED rows
  BY ReadStatDoes DEF SkipsIt, CountsIt, CountsAndLists, TakesTop, TakesThreads
<1>6. CASE SkipsIt
  <2>1. \A s \in {"Z", "D"} : Rowed(s)' = Rowed(s)
    BY <1>1, <1>6 DEF SkipsIt, Rowed
  <2> QED
    BY <1>1, <1>4, <1>5, <1>6, <2>1 DEF SkipsIt, RowsInv
<1>7. CASE CountsIt \/ CountsAndLists
  <2>1. /\ pid \in DOMAIN procs
        /\ counts' = [counts EXCEPT ![s0] = @ + 1]
    BY <1>7 DEF CountsIt, CountsAndLists
  <2>2. s0 \in States
    BY <2>1, StatTypes
  <2> HIDE DEF s0
  <2>3. counts'[s0] = counts[s0] + 1 /\ \A t \in States \ {s0} : counts'[t] = counts[t]
    BY <1>2, <2>1, <2>2, TotalGrows
  <2>4. CASE CountsIt
    <3>1. step' = step /\ (s0 = "R" \/ ~ (Len(rows[s0]) < LIST_MAX))
      BY <2>4 DEF CountsIt, s0
    <3>2. ASSUME NEW s \in {"Z", "D"}
          PROVE  Rowed(s)' = IF counts'[s] < LIST_MAX THEN counts'[s] ELSE LIST_MAX
      <4>1. Rowed(s)' = Len(rows[s])
        BY <1>1, <1>2, <1>5, <3>1 DEF Rowed
      <4>2. CASE s = s0
        BY <1>2, <1>3, <2>3, <3>1, <4>1, <4>2
      <4>3. CASE s # s0
        BY <1>2, <1>3, <2>3, <4>1, <4>3
      <4> QED
        BY <4>2, <4>3
    <3> QED
      BY <1>1, <1>4, <1>5, <3>1, <3>2 DEF RowsInv
  <2>5. CASE CountsAndLists
    <3>1. /\ step' = "second" /\ half'.state = s0 /\ half'.pid = pid
          /\ s0 # "R" /\ Len(rows[s0]) < LIST_MAX
      BY <2>5 DEF CountsAndLists, Stat, s0
    <3>2. s0 \in {"Z", "D"}
      BY <2>2, <3>1 DEF States
    <3>3. ASSUME NEW s \in {"Z", "D"}
          PROVE  Rowed(s)' = IF counts'[s] < LIST_MAX THEN counts'[s] ELSE LIST_MAX
      <4>1. CASE s = s0
        <5>1. Rowed(s)' = Len(rows[s]) + 1
          BY <1>5, <3>1, <4>1 DEF Rowed
        <5> QED
          BY <1>2, <1>3, <2>3, <3>1, <4>1, <5>1
      <4>2. CASE s # s0
        <5>1. Rowed(s)' = Len(rows[s])
          <6>1. half'.state # s
            BY <3>1, <4>2
          <6>2. Rowed(s)' = Len(rows[s]) + 0
            BY <1>5, <6>1 DEF Rowed
          <6> QED
            BY <1>2, <6>2
        <5> QED
          BY <1>2, <1>3, <2>3, <4>2, <5>1
      <4> QED
        BY <4>1, <4>2
    <3> QED
      BY <1>1, <1>4, <1>5, <3>1, <3>2, <3>3 DEF RowsInv
  <2> QED
    BY <1>7, <2>4, <2>5
<1> QED
  BY <1>6, <1>7, ReadStatDoes DEF TakesTop, TakesThreads

LEMMA RowsSecond ==
  ASSUME MachineInv, ListsInv, TodoInv, RowsInv, ReadSecond
  PROVE  RowsInv'
<1> SUFFICES ASSUME asked = "proc.states" PROVE RowsInv'
  BY ReadSecondDoes DEF RowsInv
<1>1. /\ step = "second" /\ step' = "read" /\ UNCHANGED <<asked, todo, counts>>
      /\ half.state \in {"Z", "D"} /\ Add(half.state, ParentRow)
      /\ ParentRow \in RowT /\ ParentRow.pid = half.pid
  BY ReadSecondDoes, ReadSecondRows
<1> DEFINE s0 == half.state
           n == Len(rows[s0])
<1>2. /\ DOMAIN rows = Lists /\ s0 \in Lists /\ rows[s0] \in Seq(RowT) /\ n \in Nat
      /\ \A s \in {"Z", "D"} : s \in Lists /\ Len(rows[s]) \in Nat
  BY <1>1 DEF ListsInv, Lists
<1>3. /\ \A m \in Lists \ {s0} : rows'[m] = rows[m]
      /\ Len(rows'[s0]) = n + 1
      /\ \A i \in 1..n : rows'[s0][i] = rows[s0][i]
      /\ rows'[s0][n + 1] = ParentRow
      /\ \A i \in 1..Len(rows'[s0]) : i \in 1..n \/ i = n + 1
  BY <1>1, <1>2, RowAdded
<1> HIDE DEF s0
<1>4. ASSUME NEW s \in {"Z", "D"}
      PROVE  Rowed(s)' = Rowed(s)
  <2>1. CASE s = s0
    BY <1>1, <1>2, <1>3, <2>1 DEF Rowed, s0
  <2>2. CASE s # s0
    BY <1>1, <1>2, <1>3, <2>2 DEF Rowed, s0
  <2> QED
    BY <2>1, <2>2
<1>5. ASSUME NEW s \in {"Z", "D"}, NEW i \in 1..Len(rows[s])
      PROVE  /\ \A j \in 1..Len(rows[s]) : i < j => rows[s][i].pid < rows[s][j].pid
             /\ \A k \in 1..Len(todo) : rows[s][i].pid < todo[k]
             /\ rows[s][i].pid < half.pid
  BY <1>1 DEF RowsInv
<1>6. \A k \in 1..Len(todo) : half.pid < todo[k]
  BY <1>1 DEF TodoInv
<1>7. ASSUME NEW s \in {"Z", "D"}, NEW i \in 1..Len(rows'[s])
      PROVE  /\ \A j \in 1..Len(rows'[s]) : i < j => rows'[s][i].pid < rows'[s][j].pid
             /\ \A k \in 1..Len(todo) : rows'[s][i].pid < todo[k]
  <2>1. CASE s # s0
    BY <1>2, <1>3, <1>5, <2>1
  <2>2. CASE s = s0 /\ i \in 1..n
    <3>1. rows'[s][i] = rows[s][i] /\ i \in 1..Len(rows[s])
      BY <1>3, <2>2
    <3>2. ASSUME NEW j \in 1..Len(rows'[s]), i < j
          PROVE  rows[s][i].pid < rows'[s][j].pid
      <4>1. CASE j \in 1..n
        BY <1>3, <1>5, <2>2, <3>1, <3>2, <4>1
      <4>2. CASE j = n + 1
        BY <1>1, <1>3, <1>5, <2>2, <3>1, <4>2
      <4> QED
        BY <1>3, <2>2, <4>1, <4>2
    <3> QED
      BY <1>5, <3>1, <3>2
  <2>3. CASE s = s0 /\ i = n + 1
    <3>1. rows'[s][i] = ParentRow
      BY <1>3, <2>3
    <3>2. \A j \in 1..Len(rows'[s]) : ~ (i < j)
      BY <1>2, <1>3, <2>3
    <3> QED
      BY <1>1, <1>6, <3>1, <3>2
  <2> QED
    BY <1>3, <2>1, <2>2, <2>3
<1> QED
  BY <1>1, <1>4, <1>7 DEF RowsInv

LEMMA RowsRest ==
  ASSUME ListsInv, RowsInv, Ask \/ Systemctl \/ EndOfList
  PROVE  RowsInv'
<1>1. UNCHANGED <<asked, todo, counts>>
  BY DEF Ask, Systemctl, EndOfList
<1>2. step # "second" /\ step' # "second"
  BY DEF Ask, Systemctl, EndOfList, IsRunning, NoAnswer, Silent, FailedUnits
<1>3. \A s \in {"Z", "D"} : rows'[s] = rows[s]
  BY DEF Ask, Systemctl, EndOfList, IsRunning, NoAnswer, Silent, FailedUnits, Lists, ListsInv
<1> QED
  BY <1>1, <1>2, <1>3, RowsSame

-----------------------------------------------------------------------------
(* The top lists are kept.                                                 *)

\* A row that is added keeps a list distinct, if its number is a new one.
LEMMA DistinctAdded ==
  ASSUME NEW l \in Lists, NEW row \in TopT, rows[l] \in Seq(TopT),
         DOMAIN rows = Lists, Add(l, row), Distinct(rows[l]),
         \A i \in 1..Len(rows[l]) : rows[l][i].pid # row.pid
  PROVE  Distinct(rows'[l])
<1> DEFINE n == Len(rows[l])
<1>1. /\ \A i \in 1..n : rows'[l][i] = rows[l][i]
      /\ rows'[l][n + 1] = row
      /\ \A i \in 1..Len(rows'[l]) : i \in 1..n \/ i = n + 1
  BY RowAdded
<1>2. n \in Nat
  OBVIOUS
<1> SUFFICES ASSUME NEW i \in 1..Len(rows'[l]), NEW j \in 1..Len(rows'[l]), i < j
             PROVE  rows'[l][i].pid # rows'[l][j].pid
  BY DEF Distinct
<1>3. i \in 1..n /\ (j \in 1..n \/ j = n + 1)
  BY <1>1, <1>2
<1>4. CASE j \in 1..n
  BY <1>1, <1>3, <1>4 DEF Distinct
<1>5. CASE j = n + 1
  BY <1>1, <1>3, <1>5
<1> QED
  BY <1>3, <1>4, <1>5

LEMMA OnceList ==
  ASSUME ListsInv, List
  PROVE  OnceInv'
<1>1. \A l \in Lists : rows'[l] = <<>>
  BY DEF List, ListsInv
<1>2. ListsOf' \subseteq Lists
  BY DEF ListsOf, Lists
<1> QED
  BY <1>1, <1>2 DEF OnceInv, Distinct

LEMMA OnceRead ==
  ASSUME MachineInv, ListsInv, TodoInv, OnceInv, ReadStat
  PROVE  OnceInv'
<1> DEFINE pid == Head(todo)
<1>1. /\ step = "read" /\ UNCHANGED asked
      /\ Left = Left' \cup {pid} /\ pid \notin Left'
  BY ReadStatDoes, HeadLeaves
<1>2. DOMAIN rows = Lists /\ \A l \in TopLists : rows[l] \in Seq(TopT)
  BY DEF ListsInv
<1>3. CASE SkipsIt
  <2>1. UNCHANGED <<rows, step, half, asked>>
    BY <1>1, <1>3 DEF SkipsIt
  <2> QED
    BY <1>1, <2>1 DEF OnceInv, TopRead, ListsOf
<1>4. CASE CountsIt \/ CountsAndLists
  BY <1>1, <1>4 DEF CountsIt, CountsAndLists, OnceInv, TopRead
<1>5. CASE TakesTop
  <2>1. /\ asked = "proc.top" /\ Add("cpu", TopRow(pid)) /\ TopRow(pid) \in TopT
        /\ TopRow(pid).pid = pid /\ half'.pid = pid /\ step' = "second"
    BY <1>5, StatTypes DEF TakesTop, TopRow, Stat
  <2>2. ASSUME NEW l \in {"cpu", "mem"}
        PROVE  /\ Distinct(rows[l])
               /\ \A i \in 1..Len(rows[l]) : rows[l][i].pid \notin Left
    BY <1>1, <2>1 DEF OnceInv, TopRead, ListsOf
  <2>3. "cpu" \in Lists /\ rows["cpu"] \in Seq(TopT)
    BY <1>2 DEF Lists, TopLists
  <2>4. Distinct(rows'["cpu"])
    BY <1>1, <1>2, <2>1, <2>2, <2>3, DistinctAdded
  <2>5. \A i \in 1..Len(rows'["cpu"]) : rows'["cpu"][i].pid \notin Left'
    BY <1>1, <1>2, <2>1, <2>2, <2>3, RowAdded
  <2>6. rows'["mem"] = rows["mem"]
    BY <1>2, <2>1 DEF Add, Lists
  <2>7. Distinct(rows'["mem"])
        /\ \A i \in 1..Len(rows'["mem"]) :
             rows'["mem"][i].pid \notin Left' /\ rows'["mem"][i].pid # half'.pid
    BY <1>1, <2>1, <2>2, <2>6
  <2>8. ListsOf' = {"cpu", "mem"}
    BY <1>1, <2>1 DEF ListsOf
  <2> QED
    BY <2>4, <2>5, <2>7, <2>8 DEF OnceInv
<1>6. CASE TakesThreads
  <2>1. /\ asked = "proc.threads" /\ Add("threads", TopRow(pid)) /\ TopRow(pid) \in TopT
        /\ TopRow(pid).pid = pid
    BY <1>6, StatTypes DEF TakesThreads, TopRow
  <2>2. /\ Distinct(rows["threads"])
        /\ \A i \in 1..Len(rows["threads"]) : rows["threads"][i].pid \notin Left
    BY <1>1, <2>1 DEF OnceInv, TopRead, ListsOf
  <2>3. "threads" \in Lists /\ rows["threads"] \in Seq(TopT)
    BY <1>2 DEF Lists, TopLists
  <2>4. Distinct(rows'["threads"])
    BY <1>1, <1>2, <2>1, <2>2, <2>3, DistinctAdded
  <2>5. \A i \in 1..Len(rows'["threads"]) : rows'["threads"][i].pid \notin Left'
    BY <1>1, <1>2, <2>1, <2>2, <2>3, RowAdded
  <2>6. ListsOf' = {"threads"}
    BY <1>1, <2>1 DEF ListsOf
  <2> QED
    BY <2>4, <2>5, <2>6 DEF OnceInv
<1> QED
  BY <1>3, <1>4, <1>5, <1>6, ReadStatDoes

LEMMA OnceSecond ==
  ASSUME MachineInv, ListsInv, TodoInv, RowsInv, OnceInv, ReadSecond
  PROVE  OnceInv'
<1>1. /\ step = "second" /\ step' = "read" /\ UNCHANGED <<asked, todo>>
      /\ Left' = Left /\ half.pid \notin Left
  BY ReadSecondDoes DEF TodoInv, Left
<1>2. DOMAIN rows = Lists /\ \A l \in TopLists : rows[l] \in Seq(TopT)
  BY DEF ListsInv
<1>3. CASE asked = "proc.states"
  BY <1>1, <1>3 DEF OnceInv, TopRead
<1>4. CASE asked = "proc.top" /\ UNCHANGED rows
  BY <1>1, <1>4 DEF OnceInv, TopRead, ListsOf
<1>5. CASE asked = "proc.top" /\ Add("mem", MemoryRow) /\ MemoryRow \in TopT
  <2>1. ASSUME NEW l \in {"cpu", "mem"}
        PROVE  /\ Distinct(rows[l])
               /\ \A i \in 1..Len(rows[l]) :
                    rows[l][i].pid \notin Left /\ (l = "mem" => rows[l][i].pid # half.pid)
    BY <1>1, <1>5 DEF OnceInv, TopRead, ListsOf
  <2>2. "mem" \in Lists /\ rows["mem"] \in Seq(TopT) /\ MemoryRow.pid = half.pid
    BY <1>2 DEF Lists, TopLists, MemoryRow
  <2>3. Distinct(rows'["mem"])
    BY <1>2, <1>5, <2>1, <2>2, DistinctAdded
  <2>4. \A i \in 1..Len(rows'["mem"]) : rows'["mem"][i].pid \notin Left
    BY <1>1, <1>2, <1>5, <2>1, <2>2, RowAdded
  <2>5. rows'["cpu"] = rows["cpu"]
    BY <1>2, <1>5 DEF Add, Lists
  <2>6. ListsOf' = {"cpu", "mem"}
    BY <1>1, <1>5 DEF ListsOf
  <2> QED
    BY <1>1, <2>1, <2>3, <2>4, <2>5, <2>6 DEF OnceInv
<1> QED
  BY <1>3, <1>4, <1>5, ReadSecondRows

-----------------------------------------------------------------------------
(* The steady processes are in the top lists.                              *)

LEMMA ShownMachine ==
  ASSUME ListsInv, TodoInv, ShownInv, StaysItself, UNCHANGED call
  PROVE  ShownInv'
<1> SUFFICES ASSUME TopRead PROVE ShownInv'
  BY DEF ShownInv, TopRead, call
<1>1. UNCHANGED <<rows, step, half, asked>> /\ Left' = Left /\ ListsOf' = ListsOf
  BY DEF Left, ListsOf, call
<1>2. ASSUME NEW l \in ListsOf, NEW p \in DOMAIN procs',
             procs'[p].comm \in steady', p \notin Left
      PROVE  \/ Shown(l, p)'
             \/ l = "mem" /\ procs'[p].state = "Z"
             \/ l = "mem" /\ step = "second" /\ p = half.pid
  <2>1. /\ p \in DOMAIN procs /\ procs[p].comm \in steady
        /\ procs'[p].comm = procs[p].comm
        /\ had[procs[p].comm] \subseteq had'[procs[p].comm]
        /\ procs[p].state = "Z" => procs'[p].state = "Z"
    BY <1>2 DEF StaysItself
  <2>2. \/ Shown(l, p)
        \/ l = "mem" /\ procs[p].state = "Z"
        \/ l = "mem" /\ step = "second" /\ p = half.pid
    BY <1>2, <2>1 DEF ShownInv
  <2>3. Shown(l, p) => Shown(l, p)'
    BY <1>1, <2>1 DEF Shown
  <2> QED
    BY <2>1, <2>2, <2>3
<1>3. ASSUME step = "second", half.pid \in DOMAIN procs', procs'[half.pid].comm \in steady'
      PROVE  half.comm = procs'[half.pid].comm
  BY <1>3 DEF StaysItself, ShownInv
<1> QED
  BY <1>1, <1>2, <1>3 DEF ShownInv

LEMMA ShownList ==
  ASSUME MachineInv, List
  PROVE  ShownInv'
<1>1. step' = "read" /\ procs' = procs /\ DOMAIN procs \subseteq Left'
  BY ListTakesAll DEF List, machine
<1> QED
  BY <1>1 DEF ShownInv

\* Rows stay.
LEMMA StillShown ==
  ASSUME NEW l \in Lists, NEW row, rows[l] \in Seq(TopT), row \in TopT,
         DOMAIN rows = Lists, Add(l, row), UNCHANGED <<procs, had>>
  PROVE  /\ \A m \in Lists : \A p : Shown(m, p) => Shown(m, p)'
         /\ \A p : (row.comm = procs[p].comm /\ row.amount \in had[procs[p].comm])
                      => Shown(l, p)'
<1> DEFINE n == Len(rows[l])
<1>1. /\ \A m \in Lists \ {l} : rows'[m] = rows[m]
      /\ \A i \in 1..n : rows'[l][i] = rows[l][i]
      /\ rows'[l][n + 1] = row
      /\ Len(rows'[l]) = n + 1
  BY RowAdded
<1>2. n \in Nat /\ n + 1 \in 1..n + 1 /\ \A i \in 1..n : i \in 1..n + 1
  OBVIOUS
<1>3. ASSUME NEW m \in Lists, NEW p, Shown(m, p)
      PROVE  Shown(m, p)'
  <2>1. CASE m # l
    BY <1>1, <1>3, <2>1 DEF Shown
  <2>2. CASE m = l
    BY <1>1, <1>2, <1>3, <2>2 DEF Shown
  <2> QED
    BY <2>1, <2>2
<1>4. ASSUME NEW p, row.comm = procs[p].comm, row.amount \in had[procs[p].comm]
      PROVE  Shown(l, p)'
  BY <1>1, <1>2, <1>4 DEF Shown
<1> QED
  BY <1>3, <1>4

LEMMA ShownRead ==
  ASSUME MachineInv, UsedInv, ListsInv, TodoInv, ShownInv, ReadStat
  PROVE  ShownInv'
<1> DEFINE pid == Head(todo)
<1>1. /\ step = "read" /\ UNCHANGED <<asked, procs, had>>
      /\ Left = Left' \cup {pid} /\ ListsOf' = ListsOf
  BY ReadStatDoes, HeadLeaves DEF ListsOf
<1>2. DOMAIN rows = Lists /\ \A l \in TopLists : rows[l] \in Seq(TopT)
  BY DEF ListsInv
<1>3. CASE SkipsIt
  <2>1. UNCHANGED <<rows, step, half>> /\ pid \notin DOMAIN procs
    BY <1>3 DEF SkipsIt
  <2>2. \A l, p : Shown(l, p)' = Shown(l, p)
    BY <1>1, <2>1 DEF Shown
  <2> QED
    BY <1>1, <2>1, <2>2 DEF ShownInv, TopRead
<1>4. CASE CountsIt \/ CountsAndLists
  BY <1>1, <1>4 DEF CountsIt, CountsAndLists, ShownInv, TopRead
<1>5. CASE TakesTop
  <2>1. /\ asked = "proc.top" /\ Add("cpu", TopRow(pid)) /\ TopRow(pid) \in TopT
        /\ TopRow(pid).comm = procs[pid].comm /\ TopRow(pid).amount = procs[pid].amount
        /\ half'.pid = pid /\ half'.comm = procs[pid].comm /\ step' = "second"
    BY <1>5, StatTypes DEF TakesTop, TopRow, Stat
  <2>2. "cpu" \in Lists /\ "mem" \in Lists /\ rows["cpu"] \in Seq(TopT)
    BY <1>2 DEF Lists, TopLists
  <2>3. /\ \A m \in Lists : \A p : Shown(m, p) => Shown(m, p)'
        /\ \A p : (p = pid /\ procs[p].comm \in steady) => Shown("cpu", p)'
    <3>1. procs[pid].comm \in steady => procs[pid].amount \in had[procs[pid].comm]
      BY <1>1, <1>5 DEF UsedInv, TakesTop
    <3> QED
      BY <1>1, <1>2, <2>1, <2>2, <3>1, StillShown
  <2>4. ListsOf = {"cpu", "mem"} /\ TopRead
    BY <1>1, <2>1 DEF ListsOf, TopRead
  <2>5. ASSUME NEW l \in {"cpu", "mem"}, NEW p \in DOMAIN procs,
               procs[p].comm \in steady, p \notin Left'
        PROVE  \/ Shown(l, p)'
               \/ l = "mem" /\ procs[p].state = "Z"
               \/ l = "mem" /\ p = pid
    <3>1. CASE p = pid
      BY <2>3, <2>5, <3>1
    <3>2. CASE p # pid
      <4>1. p \notin Left
        BY <1>1, <2>5, <3>2
      <4>2. Shown(l, p) \/ (l = "mem" /\ procs[p].state = "Z")
        BY <1>1, <2>4, <2>5, <4>1 DEF ShownInv
      <4> QED
        BY <2>2, <2>3, <4>2
    <3> QED
      BY <3>1, <3>2
  <2> QED
    BY <1>1, <2>1, <2>4, <2>5 DEF ShownInv
<1>6. CASE TakesThreads
  <2>1. /\ asked = "proc.threads" /\ Add("threads", TopRow(pid)) /\ TopRow(pid) \in TopT
        /\ TopRow(pid).comm = procs[pid].comm /\ TopRow(pid).amount = procs[pid].amount
        /\ step' = "read"
    BY <1>1, <1>6, StatTypes DEF TakesThreads, TopRow
  <2>2. "threads" \in Lists /\ rows["threads"] \in Seq(TopT)
    BY <1>2 DEF Lists, TopLists
  <2>3. /\ \A m \in Lists : \A p : Shown(m, p) => Shown(m, p)'
        /\ \A p : (p = pid /\ procs[p].comm \in steady) => Shown("threads", p)'
    <3>1. procs[pid].comm \in steady => procs[pid].amount \in had[procs[pid].comm]
      BY <1>1, <1>6 DEF UsedInv, TakesThreads
    <3> QED
      BY <1>1, <1>2, <2>1, <2>2, <3>1, StillShown
  <2>4. ListsOf = {"threads"} /\ TopRead
    BY <1>1, <2>1 DEF ListsOf, TopRead
  <2>5. ASSUME NEW p \in DOMAIN procs, procs[p].comm \in steady, p \notin Left'
        PROVE  Shown("threads", p)'
    <3>1. CASE p = pid
      BY <2>3, <2>5, <3>1
    <3>2. CASE p # pid
      <4>1. p \notin Left
        BY <1>1, <2>5, <3>2
      <4>2. Shown("threads", p)
        BY <2>4, <2>5, <4>1 DEF ShownInv
      <4> QED
        BY <2>2, <2>3, <4>2
    <3> QED
      BY <3>1, <3>2
  <2> QED
    BY <1>1, <2>1, <2>4, <2>5 DEF ShownInv
<1> QED
  BY <1>3, <1>4, <1>5, <1>6, ReadStatDoes

LEMMA ShownSecond ==
  ASSUME MachineInv, UsedInv, ListsInv, TodoInv, RowsInv, ShownInv, ReadSecond
  PROVE  ShownInv'
<1>1. /\ step = "second" /\ step' = "read" /\ UNCHANGED <<asked, procs, had>>
      /\ Left' = Left /\ ListsOf' = ListsOf
  BY ReadSecondDoes DEF Left, ListsOf
<1> SUFFICES ASSUME asked = "proc.top" PROVE ShownInv'
  BY <1>1, ReadSecondDoes DEF ShownInv, TopRead
<1>2. /\ DOMAIN rows = Lists /\ "cpu" \in Lists /\ "mem" \in Lists
      /\ rows["mem"] \in Seq(TopT) /\ TopRead /\ ListsOf = {"cpu", "mem"}
  BY <1>1 DEF ListsInv, Lists, TopLists, TopRead, ListsOf
<1>3. /\ \A l \in {"cpu", "mem"} : \A p \in DOMAIN procs :
           (procs[p].comm \in steady /\ p \notin Left) =>
             \/ Shown(l, p)
             \/ l = "mem" /\ procs[p].state = "Z"
             \/ l = "mem" /\ p = half.pid
      /\ (half.pid \in DOMAIN procs /\ procs[half.pid].comm \in steady) =>
           half.comm = procs[half.pid].comm
  BY <1>1, <1>2 DEF ShownInv
<1>4. SUFFICES \A l \in {"cpu", "mem"} : \A p \in DOMAIN procs :
                 (procs[p].comm \in steady /\ p \notin Left) =>
                   Shown(l, p)' \/ (l = "mem" /\ procs[p].state = "Z")
  BY <1>1, <1>2 DEF ShownInv
<1>5. CASE /\ half.pid \in DOMAIN procs
           /\ Add("mem", MemoryRow) /\ MemoryRow \in TopT
  <2>1. /\ \A m \in Lists : \A p : Shown(m, p) => Shown(m, p)'
        /\ \A p : (/\ MemoryRow.comm = procs[p].comm
                  /\ MemoryRow.amount \in had[procs[p].comm]) => Shown("mem", p)'
    BY <1>1, <1>2, <1>5, StillShown
  <2>2. MemoryRow.comm = half.comm /\ MemoryRow.amount = procs[half.pid].amount
    BY DEF MemoryRow
  <2>3. \A p : (p = half.pid /\ procs[p].comm \in steady) => Shown("mem", p)'
    <3>1. procs[half.pid].comm \in steady =>
            procs[half.pid].amount \in had[procs[half.pid].comm]
      BY <1>1, <1>5 DEF UsedInv
    <3> QED
      BY <1>3, <1>5, <2>1, <2>2, <3>1
  <2> QED
    BY <1>2, <1>3, <2>1, <2>3
<1>6. CASE /\ UNCHANGED rows
           /\ half.pid \in DOMAIN procs => procs[half.pid].state = "Z"
  <2>1. \A l, p : Shown(l, p)' = Shown(l, p)
    BY <1>1, <1>6 DEF Shown
  <2> QED
    BY <1>3, <1>6, <2>1
<1> QED
  BY <1>5, <1>6, ReadSecondRows

-----------------------------------------------------------------------------
(* The end of the list.                                                    *)

LEMMA EndShowsTheMost ==
  ASSUME MachineInv, ListsInv, OnceInv, ShownInv, EndOfList
  PROVE  LeavesOutLess'
<1>1. /\ step = "read" /\ todo = <<>> /\ UNCHANGED <<procs, asked, had>>
      /\ \A l \in TopLists : rows'[l] = Top(rows[l])
  BY DEF EndOfList, TopLists, Lists, machine
<1>2. Left = {}
  BY <1>1 DEF Left
<1>3. asked \in {"proc.states", "proc.top", "proc.threads"}
  BY <1>1 DEF ListsInv, SystemdSteps
<1> SUFFICES ASSUME NEW l \in TopLists, rows'[l] # <<>>, NEW p \in DOMAIN procs,
                    procs[p].comm \in steady, ~ (l = "mem" /\ procs[p].state = "Z")
             PROVE  \/ \E i \in 1..Len(rows'[l]) :
                         /\ rows'[l][i].comm = procs[p].comm
                         /\ rows'[l][i].amount \in had[procs[p].comm]
                    \/ /\ Len(rows'[l]) = TOP_N
                       /\ \E amount \in had[procs[p].comm] :
                            \A i \in 1..TOP_N : rows'[l][i].amount >= amount
  BY <1>1 DEF LeavesOutLess, TopLists
<1>4. rows[l] \in Seq(TopT)
  BY DEF ListsInv
<1>5. rows[l] # <<>>
  BY <1>1, TopOfNone
<1>6. l \in ListsOf /\ TopRead
  BY <1>1, <1>3, <1>5 DEF ListsInv, ListsOf, TopRead, TopLists
<1>7. Distinct(rows[l])
  BY <1>6 DEF OnceInv
<1>8. PICK k \in 1..Len(rows[l]) :
        rows[l][k].comm = procs[p].comm /\ rows[l][k].amount \in had[procs[p].comm]
  <2>1. Shown(l, p)
    BY <1>1, <1>2, <1>6 DEF ShownInv
  <2> QED
    BY <2>1 DEF Shown
<1>9. \/ \E i \in 1..Len(Top(rows[l])) : Top(rows[l])[i] = rows[l][k]
      \/ /\ Len(Top(rows[l])) = TOP_N
         /\ \A i \in 1..TOP_N : Top(rows[l])[i].amount >= rows[l][k].amount
  BY <1>4, <1>7, TopHasTheMost
<1>10. rows'[l] = Top(rows[l])
  BY <1>1
<1> QED
  BY <1>8, <1>9, <1>10

LEMMA LeavesMachine ==
  ASSUME LeavesOutLess, StaysItself, UNCHANGED call
  PROVE  LeavesOutLess'
<1>1. UNCHANGED <<rows, step>>
  BY DEF call
<1> SUFFICES ASSUME NEW l \in TopLists, step = "done", rows[l] # <<>>,
                    NEW p \in DOMAIN procs', procs'[p].comm \in steady',
                    ~ (l = "mem" /\ procs'[p].state = "Z")
             PROVE  \/ \E i \in 1..Len(rows[l]) :
                         /\ rows[l][i].comm = procs'[p].comm
                         /\ rows[l][i].amount \in had'[procs'[p].comm]
                    \/ /\ Len(rows[l]) = TOP_N
                       /\ \E amount \in had'[procs'[p].comm] :
                            \A i \in 1..TOP_N : rows[l][i].amount >= amount
  BY <1>1 DEF LeavesOutLess, TopLists
<1>2. /\ p \in DOMAIN procs /\ procs[p].comm \in steady
      /\ procs'[p].comm = procs[p].comm
      /\ had[procs[p].comm] \subseteq had'[procs[p].comm]
      /\ ~ (l = "mem" /\ procs[p].state = "Z")
  BY DEF StaysItself
<1> QED
  BY <1>2 DEF LeavesOutLess, TopLists

LEMMA LeavesProbe ==
  ASSUME ListsInv, Ask \/ List \/ ReadStat \/ ReadSecond \/ Systemctl
  PROVE  LeavesOutLess'
<1>1. CASE Ask \/ List \/ ReadStat \/ ReadSecond
  <2>1. step' # "done"
    BY <1>1, ReadStatDoes, ReadSecondDoes
       DEF Ask, List, SkipsIt, CountsIt, CountsAndLists, TakesTop, TakesThreads
  <2> QED
    BY <2>1 DEF LeavesOutLess
<1>2. CASE Systemctl
  <2>1. /\ step \in {"is-running", "failed-units"}
        /\ \A l \in TopLists : rows'[l] = rows[l]
    BY <1>2 DEF Systemctl, IsRunning, NoAnswer, Silent, FailedUnits, ListsInv, Lists, TopLists
  <2>2. asked = "systemd.status"
    BY <2>1 DEF ListsInv, ProcSteps
  <2>3. \A l \in TopLists : rows'[l] = <<>>
    BY <2>1, <2>2 DEF ListsInv, TopLists
  <2> QED
    BY <2>3 DEF LeavesOutLess, TopLists
<1> QED
  BY <1>1, <1>2

-----------------------------------------------------------------------------
(* Every step keeps the invariant.                                         *)

LEMMA MachineKeepsProc ==
  ASSUME ProcInv, Machine
  PROVE  ProcInv'
<1>1. /\ MachineInv /\ UsedInv /\ ListsInv /\ TodoInv /\ CountInv /\ RowsInv
      /\ OnceInv /\ ShownInv /\ LeavesOutLess
  BY DEF ProcInv
<1>2. MachineInv' /\ UsedInv' /\ StaysItself /\ UNCHANGED call
  BY <1>1, MachineSteps
<1>3. ListsInv' /\ TodoInv' /\ OnceInv'
  <2>1. UNCHANGED <<asked, step, todo, half, rows, counts>>
    BY <1>2 DEF call
  <2>2. ListsInv'
    BY <1>1, <2>1 DEF ListsInv
  <2>3. TodoInv'
    BY <1>1, <2>1 DEF TodoInv, Left
  <2>4. OnceInv'
    BY <1>1, <2>1 DEF OnceInv, TopRead, ListsOf, Left
  <2> QED
    BY <2>2, <2>3, <2>4
<1>4. CountInv' /\ RowsInv' /\ ShownInv' /\ LeavesOutLess'
  BY <1>1, <1>2, CountMachine, RowsMachine, ShownMachine, LeavesMachine
<1> QED
  BY <1>2, <1>3, <1>4 DEF ProcInv

LEMMA ProbeKeepsProc ==
  ASSUME ProcInv, Probe
  PROVE  ProcInv'
<1>1. /\ MachineInv /\ UsedInv /\ ListsInv /\ TodoInv /\ CountInv /\ RowsInv
      /\ OnceInv /\ ShownInv /\ LeavesOutLess
  BY DEF ProcInv
<1>2. CASE List
  <2>1. MachineInv' /\ UsedInv'
    BY <1>1, <1>2, ListUses
  <2> QED
    BY <1>1, <1>2, <2>1, ListLists, CountList, RowsList, OnceList, ShownList, LeavesProbe
       DEF ProcInv
<1>3. ASSUME Ask \/ ReadStat \/ ReadSecond \/ EndOfList \/ Systemctl
      PROVE  MachineInv' /\ UsedInv'
  <2>1. UNCHANGED <<procs, births, had>>
    BY <1>3 DEF Ask, ReadStat, ReadSecond, EndOfList, Systemctl, machine
  <2>2. MachineInv'
    BY <1>1, <2>1 DEF MachineInv
  <2>3. step' \in {"read", "second"} => step \in {"read", "second"}
    BY <1>3 DEF Ask, ReadStat, ReadSecond, EndOfList, Systemctl, IsRunning, NoAnswer,
                Silent, FailedUnits
  <2>4. UsedInv'
    BY <1>1, <2>1, <2>3 DEF UsedInv
  <2> QED
    BY <2>2, <2>4
<1>4. CASE ReadStat
  BY <1>1, <1>3, <1>4, ReadStatLists, ReadStatTodo, CountRead, RowsRead, OnceRead,
     ShownRead, LeavesProbe DEF ProcInv
<1>5. CASE ReadSecond
  BY <1>1, <1>3, <1>5, ReadSecondLists, CountRest, RowsSecond, OnceSecond, ShownSecond,
     LeavesProbe DEF ProcInv
<1>6. ASSUME Ask \/ Systemctl \/ EndOfList
      PROVE  OnceInv' /\ ShownInv'
  <2>1. step' \notin {"read", "second"}
    BY <1>6 DEF Ask, Systemctl, EndOfList, IsRunning, NoAnswer, Silent, FailedUnits
  <2> QED
    BY <2>1 DEF OnceInv, ShownInv, TopRead
<1>7. CASE Ask
  BY <1>1, <1>3, <1>6, <1>7, AskLists, CountRest, RowsRest, LeavesProbe DEF ProcInv
<1>8. CASE Systemctl
  BY <1>1, <1>3, <1>6, <1>8, SystemctlLists, CountRest, RowsRest, LeavesProbe DEF ProcInv
<1>9. CASE EndOfList
  BY <1>1, <1>3, <1>6, <1>9, EndLists, CountRest, RowsRest, EndShowsTheMost DEF ProcInv
<1> QED
  BY <1>2, <1>4, <1>5, <1>7, <1>8, <1>9 DEF Probe

LEMMA NextProc == ProcInv /\ [Next]_vars => ProcInv'
<1> SUFFICES ASSUME ProcInv, [Next]_vars PROVE ProcInv'
  OBVIOUS
<1>1. CASE Next
  BY <1>1, MachineKeepsProc, ProbeKeepsProc DEF Next
<1>2. CASE UNCHANGED vars
  <2>1. UNCHANGED <<procs, births, had, asked, step, todo, half, rows, counts>>
    BY <1>2 DEF vars, machine, call
  <2>2. MachineInv' /\ UsedInv' /\ ListsInv' /\ TodoInv'
    BY <2>1 DEF ProcInv, MachineInv, UsedInv, ListsInv, TodoInv, Left
  <2>3. CountInv' /\ RowsInv'
    BY <2>1 DEF ProcInv, CountInv, Total, Counted, Left, RowsInv, Rowed
  <2>4. OnceInv' /\ ShownInv'
    BY <2>1 DEF ProcInv, OnceInv, ShownInv, TopRead, ListsOf, Left, Shown
  <2>5. LeavesOutLess'
    BY <2>1 DEF ProcInv, LeavesOutLess
  <2> QED
    BY <2>2, <2>3, <2>4, <2>5 DEF ProcInv
<1> QED
  BY <1>1, <1>2

LEMMA ProcInvariant == Spec => []ProcInv
BY InitProc, NextProc, PTL DEF Spec

\* At the end the counted ones are the steady ones.
LEMMA EachOnce == ProcInv => CountsEachOnce
<1> SUFFICES ASSUME ProcInv, Answered("proc.states")
             PROVE  /\ Cardinality(steady) <= Total /\ Total <= births
                    /\ \A s \in {"Z", "D"} :
                         /\ Len(rows[s]) = Min({LIST_MAX, counts[s]})
                         /\ \A i, j \in 1..Len(rows[s]) :
                              i < j => rows[s][i].pid < rows[s][j].pid
  BY DEF CountsEachOnce
<1>1. asked = "proc.states" /\ step = "done" /\ todo = <<>>
  BY DEF Answered, ProcInv, TodoInv
<1>2. MachineInv /\ ListsInv /\ CountInv /\ RowsInv
  BY DEF ProcInv
<1>3. Total <= births /\ Cardinality(Counted) <= Total
  <2>1. Len(todo) = 0 /\ Total \in Nat /\ births \in Nat
    BY <1>1, <1>2, TotalType DEF ListsInv, MachineInv
  <2> QED
    BY <1>1, <1>2, <2>1 DEF CountInv
<1>4. Cardinality(steady) = Cardinality(Counted)
  <2> DEFINE f == [p \in Counted |-> procs[p].comm]
  <2>1. Counted = {p \in DOMAIN procs : procs[p].comm \in steady}
    BY <1>1 DEF Counted, Left
  <2>2. f \in [Counted -> steady]
    BY <2>1
  <2>3. \A p, q \in Counted : f[p] = f[q] => p = q
    BY <1>2, <2>1 DEF MachineInv
  <2>4. \A c \in steady : \E p \in Counted : f[p] = c
    BY <1>2, <2>1 DEF MachineInv
  <2> HIDE DEF f
  <2>5. f \in Bijection(Counted, steady)
    BY <2>2, <2>3, <2>4 DEF Bijection, Injection, Surjection, IsInjective
  <2>6. ExistsBijection(Counted, steady)
    BY <2>5 DEF ExistsBijection
  <2> QED
    BY <1>2, <2>6, CountedIsFinite, FS_Bijection
<1>5. ASSUME NEW s \in {"Z", "D"}
      PROVE  Len(rows[s]) = Min({LIST_MAX, counts[s]})
  <2>1. counts[s] \in Nat /\ LIST_MAX \in Nat /\ Len(rows[s]) \in Nat
    BY <1>2, SizesAssumption DEF ListsInv, States
  <2>2. Len(rows[s]) = IF counts[s] < LIST_MAX THEN counts[s] ELSE LIST_MAX
    BY <1>1, <1>2, <2>1 DEF RowsInv, Rowed
  <2>3. Min({LIST_MAX, counts[s]}) = IF LIST_MAX < counts[s] THEN LIST_MAX ELSE counts[s]
    BY <2>1, MinOfTwo
  <2> QED
    BY <2>1, <2>2, <2>3
<1>6. \A s \in {"Z", "D"} : \A i, j \in 1..Len(rows[s]) :
        i < j => rows[s][i].pid < rows[s][j].pid
  BY <1>1, <1>2 DEF RowsInv
<1> QED
  BY <1>3, <1>4, <1>5, <1>6

(* proc.states counts every process that was there from its listing of   *)
(* /proc to its end, and none twice, whatever comes, goes or takes over  *)
(* a number in between; its lists of zombies and of waiting processes are *)
(* as long as the counts say, up to LIST_MAX, each row with a number of   *)
(* its own (proc.rs:48-89).                                              *)
THEOREM CountsCorrect == Spec => []CountsEachOnce
BY EachOnce, ProcInvariant, PTL

(* Of the processes that were there all along, none that a top list of   *)
(* proc.top or proc.threads leaves out used more than each that is in it  *)
(* all the while that the list was read, and one that is in it is shown   *)
(* with what it used at some moment of it, though what a process uses     *)
(* changes between the reads, the files of one are read at different      *)
(* times and its number may be another's by the second (proc.rs:110-170,  *)
(* conc.rs:27-53).                                                        *)
THEOREM TopListsCorrect == Spec => []LeavesOutLess
<1>1. ProcInv => LeavesOutLess
  BY DEF ProcInv
<1> QED
  BY <1>1, ProcInvariant, PTL
=============================================================================
