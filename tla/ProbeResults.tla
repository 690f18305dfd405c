--------------------------- MODULE ProbeResults ---------------------------
(***************************************************************************)
(* What a probe reads and what it answers (src/probes/mod.rs).             *)
(*                                                                         *)
(* A file, a directory or a link that a probe reads is a site.  Its state  *)
(* is a record: "err" is how reading it fails, if it does, and "has" is    *)
(* what of interest is in it, whether or not it can be read.  Text is      *)
(* abstracted to the set of the things a probe looks for in it.            *)
(*                                                                         *)
(* An answer has the status of the code, whether there is data, the fields *)
(* of the data that were really read, and the sites or reasons that the    *)
(* notes speak of.  A field that shows a default because its source could  *)
(* not be read is not among the known ones.                                *)
(***************************************************************************)
EXTENDS Naturals, FiniteSets

Statuses == {"Ok", "Partial", "NeedsRoot", "Unavailable", "Unsupported"}

\* The kinds of io::Error that are told apart, and "InvalidData" for all
\* others: text that is not UTF-8, a file in the place of a directory.  What
\* is "Hidden" lies in a folder that may not be entered: to read it is denied
\* as well, and it does not seem to exist.
Kinds == {"none", "NotFound", "PermissionDenied", "Hidden", "InvalidData"}

Denied == {"PermissionDenied", "Hidden"}

\* A site that can be read, and one that is not there.
Text(tags) == [err |-> "none", has |-> tags]
Absent     == [err |-> "NotFound", has |-> {}]

\* The error a probe is given.
ReadError(kind) ==
  CASE kind = "NotFound"  -> "Missing"
    [] kind \in Denied    -> "NeedsRoot"
    [] OTHER              -> "Other"

\* ctx.read, read_bytes and list are Ok.
CanRead(site) == site.err = "none"

\* A thing that is found in what was read.
Has(site, tag) == CanRead(site) /\ tag \in site.has

\* ctx.exists: whether the file can be read does not matter.
Exists(site) == site.err \notin {"NotFound", "Hidden"}

When(condition, set) == IF condition THEN set ELSE {}

-----------------------------------------------------------------------------
(* ProbeResult *)

\* ProbeResult::new, with the notes added to it.
Result(status, data, known, notes) ==
  [status |-> status, data |-> data, known |-> known, notes |-> notes]

\* ProbeResult::failed.
Failed(name, err) ==
  Result(IF err = "NeedsRoot" THEN "NeedsRoot" ELSE "Unavailable",
         FALSE, {}, {name})

\* A probe that returns at once when its main site cannot be read.
Needs(name, site, answer) ==
  IF CanRead(site) THEN answer ELSE Failed(name, ReadError(site.err))

\* Nothing to show, with a note of the probe's own.
Nothing(note) == Result("Unavailable", FALSE, {}, {note})

\* Data whose notes decide between Ok and Partial.
Noted(known, notes) ==
  Result(IF notes = {} THEN "Ok" ELSE "Partial", TRUE, known, notes)

\* Data that is Ok whatever is missing in it.
Always(known) == Result("Ok", TRUE, known, {})

\* ProbeInfo::run on another system than Linux.
Unsupported == Result("Unsupported", FALSE, {}, {"only_available_on_Linux"})
=============================================================================
