----------------------------- MODULE Algorithms -----------------------------
(***************************************************************************)
(* The pure functions that are hard to test, each called on an input of    *)
(* its own and compared with a definition of what it should do, that is    *)
(* said in another way than it is computed.                                *)
(***************************************************************************)
EXTENDS Markdown, Calls

CONSTANT Documents    \* Markdown, for render

Init ==
  \/ CallInit
  \/ output = Pending /\ call = "render" /\ input \in Documents

RenderBody ==
  /\ Called("render")
  /\ output' = Render(input.blocks, input.indent, input.width)

Next == CallNext \/ RenderBody

Spec == Init /\ [][Next]_vars

-----------------------------------------------------------------------------
(* Properties *)

(* StandsWhereItBelongs: the stacks of open lists, items and styles, and    *)
(* the pending text, marker and blank line, come out as a layout of the     *)
(* document: each text in its item and style, each item with its number.   *)
StandsWhereItBelongs ==
  Returned("render") => LaidOut(input.blocks, input.indent, input.width, output)
=============================================================================
