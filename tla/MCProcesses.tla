----------------------------- MODULE MCProcesses -----------------------------
(***************************************************************************)
(* Bounds of Processes for TLC: for each probe those of its machine that   *)
(* matter to it.  Births and numbers matter most to the counts, amounts to *)
(* the top lists, phases and units to systemd.status.                      *)
(***************************************************************************)
EXTENDS Processes

\* A constraint, which the steps of a probe never leave: what is fair to it is
\* as in FairSpec.  For proc.states amounts stay as they are; for the top lists
\* there is one number and one birth less.  Of systemd nothing changes but for
\* systemd.status, which looks at no process.
Bounded ==
  /\ asked = "proc.states" => \A p \in DOMAIN procs : procs[p].amount = Min(Amounts)
  /\ asked \in {"proc.top", "proc.threads"} =>
       births < MaxBirths /\ DOMAIN procs \subseteq Pids \ {Max(Pids)}
  /\ asked # "systemd.status" => phase = "up" /\ failed = {}
  /\ asked = "systemd.status" => births = 2
=============================================================================
