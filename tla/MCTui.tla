-------------------------------- MODULE MCTui --------------------------------
(***************************************************************************)
(* A small book for Tui: a hub, which is also the page of a chapter and so *)
(* appears twice in the contents, and a card with two deep dive questions. *)
(* "memroy" is a typo that shows the hub below a "did you mean" line,      *)
(* "zzz" looks up nothing.                                                 *)
(***************************************************************************)
EXTENDS Tui

MCHandles == {"mem", "5.1"}
MCToc == <<"-", "mem", "mem", "5.1">>
MCHubs == <<"mem">>
MCLinks == [h \in MCHandles |->
  IF h = "mem" THEN <<OpenLink("5.1")>>
  ELSE <<ToggleLink(0), OpenLink("mem")>>]
MCNames == MCHandles \cup {"memroy", "zzz"}
MCLookup == [n \in MCNames |->
  CASE n \in MCHandles -> [handle |-> n, header |-> <<>>]
    [] n = "memroy"    -> [handle |-> "mem", header |-> <<"5.1">>]
    [] n = "zzz"       -> [handle |-> "-", header |-> <<>>]]
MCFound == [q \in Queries |-> IF q = "free" THEN <<"5.1", "mem">> ELSE <<>>]

NavKeys == {"Enter", "Tab", "Backspace", "j", "r", "?", "/", "Esc"}
KeyRunKeys == MotionKeys \cup
  {"Esc", "Enter", "Tab", "BackTab", "Backspace", "h", "l", "?", "/", "r", "M", "q", "x",
   "C-n", "C-p", "C-u", "C-w", "C-o", "C-c", "F1"}
==============================================================================
