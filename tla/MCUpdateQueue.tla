--------------------------- MODULE MCUpdateQueue ---------------------------
(***************************************************************************)
(* Small instances of UpdateQueue.  A queue of two slots is the smallest   *)
(* in which the call dropped and the call added differ from the head; two  *)
(* tickers and the log tail are three callers that can be between the      *)
(* selects of QueueUpdateDraw at once.                                     *)
(***************************************************************************)
EXTENDS UpdateQueue, TLC

CONSTANTS p1, p2

OnePanel  == {p1}
TwoPanels == {p1, p2}
=============================================================================
