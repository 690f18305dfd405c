------------------------------- MODULE Browser -------------------------------
(***************************************************************************)
(* What the interactive mode promises its reader about pages, whatever the *)
(* keys, the mouse, the overlays and the size of the terminal: one page is *)
(* shown, the pages left behind are kept in order, opening a page keeps    *)
(* the one it leaves, and "back" returns to the page left last.  Module    *)
(* Tui implements it.                                                      *)
(***************************************************************************)
EXTENDS Naturals, Sequences

CONSTANTS
  Handles,   (* What opens a page: a hub id (memory) or a card number (5.1). *)
  NoHandle   (* No page is shown yet.                                        *)

VARIABLES
  shown,     (* The handle of the page shown, or NoHandle.                   *)
  past       (* The handles of the pages behind it, the last one left last.  *)

vars == <<shown, past>>

Init ==
  /\ shown = NoHandle
  /\ past = <<>>

Open(h) ==
  /\ shown' = h
  /\ past' = IF shown = NoHandle THEN past ELSE Append(past, shown)

Back ==
  /\ past # <<>>
  /\ shown' = past[Len(past)]
  /\ past' = SubSeq(past, 1, Len(past) - 1)

Next == Back \/ \E h \in Handles : Open(h)

Spec == Init /\ [][Next]_vars
==============================================================================
