------------------------------- MODULE Paths -------------------------------
(***************************************************************************)
(* ProbeCtx::resolve (src/probes/mod.rs): a path inside the root, where    *)
(* links are followed as in a chroot.                                      *)
(*                                                                         *)
(* A path is a sequence of names from the root.  A tree is a function from *)
(* paths to nodes: "dir", "file", or a link and its target, which may      *)
(* begin at the root.  The root itself is a directory and not in it.       *)
(***************************************************************************)
EXTENDS Naturals, Sequences

CONSTANT MAX_LINKS    \* 40 in the code

ASSUME MaxLinksAssumption == MAX_LINKS \in Nat

IsDir(tree, path) == path = <<>> \/ (path \in DOMAIN tree /\ tree[path].kind = "dir")
IsLink(tree, path) == path \in DOMAIN tree /\ tree[path].kind = "link"

Path == Seq(STRING)

\* The targets of links are paths.
Tree(tree) == \A path \in DOMAIN tree : tree[path].kind = "link" => tree[path].parts \in Path

Parent(path) == IF path = <<>> THEN <<>> ELSE SubSeq(path, 1, Len(path) - 1)

-----------------------------------------------------------------------------

\* What is done when a link is followed.
StartHere(link, done) == done
Start(link, done) == IF link.absolute THEN <<>> ELSE done

\* The walk over names: what is left to do, what is done, the links followed.
WalkState == [todo : Path, done : Path, links : Nat]
Walking(todo, done, links) == [todo |-> todo, done |-> done, links |-> links]

\* One name.  A link beyond the limit stays in the path.
WalkOn(tree, s, follow_last) ==
  LET part == Head(s.todo)
      rest == Tail(s.todo)
      here == Append(s.done, part)
  IN  CASE part = "."  -> Walking(rest, s.done, s.links)
        [] part = ".." -> Walking(rest, Parent(s.done), s.links)
        [] OTHER ->
             IF /\ IsLink(tree, here)
                /\ follow_last \/ rest # <<>>
                /\ s.links < MAX_LINKS
             THEN Walking(tree[here].parts \o rest, Start(tree[here], s.done), s.links + 1)
             ELSE Walking(rest, here, s.links)

Walk(tree, follow_last) ==
  LET walk[s \in WalkState] ==
        IF s.todo = <<>> THEN s.done ELSE walk[WalkOn(tree, s, follow_last)]
  IN  walk

Resolved(tree, abs, follow_last) ==
  Walk(tree, follow_last)[Walking(abs, <<>>, 0)]

-----------------------------------------------------------------------------
(* What a chroot does: it steps from directory to directory, each of which *)
(* must be there, and finds where a link leads before it goes on.          *)

Nowhere == [at |-> <<>>, ok |-> FALSE, left |-> 0]

\* A way from a directory: its parts, whether a link at its end is followed,
\* and how many links may be; and ways with up to n links.
Way(dir, parts, follow, left) == [dir |-> dir, parts |-> parts, follow |-> follow, left |-> left]
Ways(n) == [dir : Path, parts : Path, follow : BOOLEAN, left : 0..n]

\* One part of a way; what a link leads to is known for ways with less links.
Enter(tree, s, part, follow, leads) ==
  LET node == Append(s.at, part)
  IN  IF ~s.ok \/ ~IsDir(tree, s.at) THEN Nowhere
      ELSE CASE part = "."  -> s
             [] part = ".." -> [s EXCEPT !.at = Parent(s.at)]
             [] OTHER ->
                  IF node \notin DOMAIN tree THEN Nowhere
                  ELSE IF ~IsLink(tree, node) \/ ~follow THEN [s EXCEPT !.at = node]
                  ELSE IF s.left = 0 THEN Nowhere
                  ELSE leads[Way(IF tree[node].absolute THEN <<>> ELSE s.at,
                                 tree[node].parts, TRUE, s.left - 1)]

\* Where a way leads, part by part.
Follow(tree, way, leads) ==
  LET after[i \in 0..Len(way.parts)] ==
        IF i = 0 THEN [at |-> way.dir, ok |-> TRUE, left |-> way.left]
        ELSE LET s == after[i - 1]
             IN  Enter(tree, s, way.parts[i], way.follow \/ i < Len(way.parts), leads)
  IN  after[Len(way.parts)]

Chroot(tree) ==
  LET leads[n \in 0..MAX_LINKS] ==
        [way \in Ways(n) |->
           IF way.left = n THEN Follow(tree, way, IF n = 0 THEN <<>> ELSE leads[n - 1])
           ELSE leads[n - 1][way]]
  IN  leads[MAX_LINKS]

(* WalkedAsChroot: the path found by names is the one of the file that a *)
(* chroot opens, if it opens one.                                        *)
WalkedAsChroot(tree, abs, follow_last, path) ==
  LET found == Chroot(tree)[Way(<<>>, abs, follow_last, MAX_LINKS)]
  IN  found.ok => path = found.at
=============================================================================
