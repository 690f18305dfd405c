-------------------------------- MODULE Sshd --------------------------------
(***************************************************************************)
(* The settings of sshd (server, read_sshd and expand in                   *)
(* src/probes/ssh.rs).                                                     *)
(*                                                                         *)
(* The files are a function from names to what they are: whether they can  *)
(* be read, and their lines, each with a key, a value and perhaps one more *)
(* word.  The words of an Include are files or the pattern of the folder   *)
(* of drop-ins, which is a file too: it can be listed if it can be read,   *)
(* and lists the files of DropIns that are there, in their order.          *)
(***************************************************************************)
EXTENDS Naturals, Sequences

CONSTANTS
  DropIns,    \* the names of the drop-ins in their order
  Unset       \* Option::None

ASSUME SshdAssumption == DropIns \in Seq(STRING) /\ Unset \notin STRING

Main == "sshd_config"
Folder == "sshd_config.d"
MAX_DEPTH == 4
Settings == {"port", "passwordauthentication", "permitrootlogin"}

SshdLine == [key : STRING, value : STRING, more : STRING \cup {Unset}]
SshdFile == [readable : BOOLEAN, lines : Seq(SshdLine)]
SshdServer == [set : [Settings -> STRING \cup {Unset}], unreadable : BOOLEAN]

\* The main file is there, or there is no server; and drop-ins are in their folder.
SshdFiles(files) ==
  /\ Main \in DOMAIN files /\ DOMAIN files \subseteq STRING
  /\ \A file \in DOMAIN files : files[file] \in SshdFile
  /\ (\E n \in DOMAIN DropIns : DropIns[n] \in DOMAIN files) => Folder \in DOMAIN files

-----------------------------------------------------------------------------

Readable(files, file) == file \in DOMAIN files /\ files[file].readable

DropInsThere(files) ==
  LET there[n \in 0..Len(DropIns)] ==
        IF n = 0 THEN <<>>
        ELSE LET before == there[n - 1]
             IN  IF DropIns[n] \in DOMAIN files THEN Append(before, DropIns[n]) ELSE before
  IN  there[Len(DropIns)]

\* expand: the name as it is, there or not, or what is listed of the folder,
\* which is nothing if it cannot be.
Expand(files, pattern) ==
  IF pattern # Folder THEN <<pattern>>
  ELSE IF Readable(files, Folder) THEN DropInsThere(files) ELSE <<>>

InsertLast(set, key, value) == [set EXCEPT ![key] = value]

\* slot.get_or_insert_with.
Insert(set, key, value) == [set EXCEPT ![key] = IF @ = Unset THEN value ELSE @]

\* read_sshd: what is read of a file is added to s.  The function read says
\* what the files of an Include add.
ReadAll(list, s, read) ==
  LET after[k \in 0..Len(list)] ==
        IF k = 0 THEN s ELSE read[[file |-> list[k], s |-> after[k - 1]]]
  IN  after[Len(list)]

ReadLine(files, line, s, read) ==
  IF line.key = "include" THEN ReadAll(Expand(files, line.value), s, read)
  ELSE IF line.key \in Settings
  THEN [set |-> Insert(s.set, line.key, line.value), unreadable |-> s.unreadable]
  ELSE s

ReadLines(files, lines, s, read) ==
  LET after[i \in 0..Len(lines)] ==
        IF i = 0 THEN s
        ELSE LET t == after[i - 1]
             IN  IF \E j \in 1..i : lines[j].key = "match" THEN t
                 ELSE ReadLine(files, lines[i], t, read)
  IN  after[Len(lines)]

ReadSshd(files, file, s, read) ==
  IF ~Readable(files, file) THEN [set |-> s.set, unreadable |-> TRUE]
  ELSE ReadLines(files, files[file].lines, s, read)

\* Files up to n levels deep; of the ones below nothing is read.
Server(files) ==
  LET read[n \in 0..(MAX_DEPTH + 1)] ==
        [r \in [file : STRING, s : SshdServer] |->
           IF n = 0 THEN r.s ELSE ReadSshd(files, r.file, r.s, read[n - 1])]
  IN  read[MAX_DEPTH + 1][[file |-> Main,
                           s |-> [set |-> [key \in Settings |-> Unset], unreadable |-> FALSE]]]

-----------------------------------------------------------------------------
(* What sshd does, said by places.  A place is the line of an Include, the *)
(* number of the file among those it stands for, a line of that file, and  *)
(* so on: of two places the first one to be read is the smaller number     *)
(* where they differ.                                                      *)

Live(files, file) ==
  IF ~Readable(files, file) THEN {}
  ELSE {i \in DOMAIN files[file].lines :
          \A k \in 1..i : files[file].lines[k].key # "match"}

LiveWith(files, file, key) == {i \in Live(files, file) : files[file].lines[i].key = key}

Below(i, k, at) == <<i, k>> \o at

\* What the words of an Include stand for: sshd can list every folder.
Glob(files, pattern) ==
  IF pattern # Folder THEN <<pattern>>
  ELSE IF Folder \in DOMAIN files THEN DropInsThere(files) ELSE <<>>

Globs(files, line) ==
  IF line.more = Unset THEN Glob(files, line.value)
  ELSE Glob(files, line.value) \o Glob(files, line.more)

\* Where files are read from a file on, if it is known for those it includes.
VisitsFrom(files, file, visits) ==
  {[at |-> <<>>, file |-> file]} \cup
    UNION {LET list == Globs(files, files[file].lines[i])
           IN  UNION {{[at |-> Below(i, k, v.at), file |-> v.file] : v \in visits[list[k]]}
                      : k \in DOMAIN list}
           : i \in LiveWith(files, file, "include")}

Visits(files) ==
  LET visits[n \in 0..(MAX_DEPTH + 1)] ==
        [file \in STRING |-> IF n = 0 THEN {} ELSE VisitsFrom(files, file, visits[n - 1])]
  IN  visits[MAX_DEPTH + 1][Main]

Earlier(a, b) ==
  \E n \in 1..Len(a) :
    n <= Len(b) /\ a[n] < b[n] /\ \A m \in 1..(n - 1) : a[m] = b[m]

\* Where a setting is given a value.
Places(files, visits, key) ==
  UNION {{[at |-> Append(v.at, i), value |-> files[v.file].lines[i].value] :
            i \in LiveWith(files, v.file, key)} : v \in visits}

\* Of all the values of a setting that some chain of Includes leads to,
\* before any Match of their files, the first one is shown; and the settings
\* are shown as incomplete if one of those files could not be read.
TakesFirst(files, s) ==
  LET visits == Visits(files)
  IN  /\ \A key \in Settings :
           LET places == Places(files, visits, key)
           IN  IF places = {} THEN s.set[key] = Unset
               ELSE \E p \in places :
                      s.set[key] = p.value /\ \A q \in places \ {p} : Earlier(p.at, q.at)
      /\ s.unreadable <=> \E v \in visits : ~Readable(files, v.file)

\* Every Include is of one word, and if it is that of a folder the program can
\* list it.
SeesIncludes(files) ==
  \A file \in DOMAIN files : \A i \in LiveWith(files, file, "include") :
    /\ files[file].lines[i].more = Unset
    /\ (files[file].lines[i].value = Folder /\ Folder \in DOMAIN files) =>
         files[Folder].readable

(* FirstWins: sshd's first value of each setting is shown, unless there is *)
(* an Include that the program does not see the whole of (ssh.rs:147, 177).*)
FirstWins(files, s) == SeesIncludes(files) => TakesFirst(files, s)
=============================================================================
