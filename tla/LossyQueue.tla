----------------------------- MODULE LossyQueue -----------------------------
(***************************************************************************)
(* What the client may rely on when a background goroutine hands a call to *)
(* the event loop: the calls that run do so one at a time and in the order *)
(* in which they were accepted, none runs twice, and any of them may be    *)
(* lost.  UpdateQueue implements this specification.                       *)
(***************************************************************************)
EXTENDS QueueCalls

VARIABLES
  pending,    \* accepted calls, oldest first
  nextLine,   \* the first line of the file nobody has offered yet
  logView     \* the lines the log view shows

vars == <<pending, nextLine, logView>>

Init == pending = <<>> /\ nextLine = 1 /\ logView = <<>>

AcceptRepaint(p) ==
  /\ pending' = Append(pending, [panel |-> p, line |-> 0])
  /\ UNCHANGED <<nextLine, logView>>

\* A line is offered once; it is accepted or lost.
AcceptLine ==
  /\ nextLine \in Lines
  /\ nextLine' = nextLine + 1
  /\ pending' = Append(pending, [panel |-> "log", line |-> nextLine])
  /\ UNCHANGED logView

RefuseLine ==
  /\ nextLine \in Lines
  /\ nextLine' = nextLine + 1
  /\ UNCHANGED <<pending, logView>>

\* calls without the one at place i.
Without(calls, i) ==
  [j \in 1 .. Len(calls) - 1 |-> IF j < i THEN calls[j] ELSE calls[j + 1]]

\* An accepted call is lost.
Lose ==
  /\ \E i \in 1 .. Len(pending) : pending' = Without(pending, i)
  /\ UNCHANGED <<nextLine, logView>>

\* The oldest call runs.
Run ==
  /\ pending # <<>>
  /\ pending' = Tail(pending)
  /\ logView' = IF Head(pending).panel = "log"
                  THEN Append(logView, Head(pending).line) ELSE logView
  /\ UNCHANGED nextLine

Next ==
  \/ \E p \in Panels : AcceptRepaint(p)
  \/ AcceptLine
  \/ RefuseLine
  \/ Lose
  \/ Run

Spec == Init /\ [][Next]_vars

TypeOK ==
  /\ pending \in Seq(Calls)
  /\ nextLine \in 1 .. NLines + 1
  /\ logView \in Seq(Lines)

(***************************************************************************)
(* The log view shows lines in the order of the file, no line twice, and   *)
(* no line that is still on its way: one channel and one drainer (tui/     *)
(* app.go, drainUpdates) keep the order that several callers and dropped   *)
(* calls could upset.                                                      *)
(***************************************************************************)
InOrder ==
  /\ \A i, j \in DOMAIN logView : i < j => logView[i] < logView[j]
  /\ \A i, j \in DOMAIN pending :
       i < j /\ pending[i].panel = "log" /\ pending[j].panel = "log"
         => pending[i].line < pending[j].line
  /\ \A i \in DOMAIN pending :
       pending[i].panel = "log" =>
         /\ pending[i].line < nextLine
         /\ \A k \in DOMAIN logView : logView[k] < pending[i].line
  /\ \A k \in DOMAIN logView : logView[k] < nextLine
=============================================================================
