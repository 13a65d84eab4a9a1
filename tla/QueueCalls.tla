----------------------------- MODULE QueueCalls -----------------------------
(***************************************************************************)
(* The calls that background goroutines hand to the event loop (tui/app.go,*)
(* QueueUpdateDraw): what LossyQueue and UpdateQueue share.  The lines of  *)
(* the log view are calls with a content of their own; all other calls     *)
(* repaint a panel from the state it shows and are told apart by their     *)
(* panel only.                                                             *)
(***************************************************************************)
EXTENDS Naturals, Sequences

CONSTANTS
  Panels,   \* panels whose ticker repaints them from the state they show
  NLines    \* bound: lines the log file gets

ASSUME NLinesAssumption == NLines \in Nat
ASSUME PanelsAssumption == "log" \notin Panels

Lines == 1 .. NLines

\* A call repaints a panel, or writes one line of the log.
Calls == [panel : Panels, line : {0}] \cup [panel : {"log"}, line : Lines]
=============================================================================
