---------------------------- MODULE UpdateQueue ----------------------------
(***************************************************************************)
(* How background goroutines reach the event loop: tui/app.go,             *)
(* App.QueueUpdateDraw and drainUpdates, with the goroutines that call it  *)
(* on a ticker (network-stats.go, node-info.go, the synchronisation dialog *)
(* of conversations.go, the tail of log.go) and are stopped, with a wait,  *)
(* from the event loop itself.                                             *)
(*                                                                         *)
(* A call goes through the channel updates (Capacity slots), the drainer's *)
(* hand and tview, which runs it on the event loop.  QueueUpdateDraw takes *)
(* three selects, none of which may block: another caller or the drainer   *)
(* can come in between.                                                    *)
(***************************************************************************)
EXTENDS QueueCalls

CONSTANTS
  Capacity,      \* slots of App.updates (128 in the code)
  MaxVersion,    \* bound: changes of the state behind one panel
  MaxLag         \* bound: ticks while the event loop is behind

ASSUME CapacityAssumption == Capacity \in Nat \ {0}

Callers == Panels \cup {"log"}

VARIABLES
  updates,     \* the channel App.updates
  hand,        \* the call the drainer has taken and waits for, if any
  drainer,     \* the drainer goroutine is running
  done,        \* App.done is closed
  loop,        \* the event loop: not yet started, serving, inside the Stop of
               \* a caller (the caller's name is in joined), or ended
  joined,      \* the caller whose goroutine the event loop waits for
  caller,      \* caller[c]: where the goroutine of c is in QueueUpdateDraw
  started,     \* started[c]: the stop channel of c is open
  nextLine,    \* the first line of the file that has not been offered
  logView,     \* the lines the log view shows
  model,       \* model[p]: version of the state behind panel p
  shown,       \* shown[p]: the version p was last painted from
  lag          \* ticks so far that found the event loop behind

queueVars  == <<updates, hand, drainer, done>>
loopVars   == <<loop, joined>>
callerVars == <<caller, started>>
viewVars   == <<nextLine, logView, model, shown, lag>>
vars == <<queueVars, loopVars, callerVars, viewVars>>

TypeOK ==
  /\ updates \in Seq(Calls) /\ Len(updates) <= Capacity
  /\ hand \in Seq(Calls) /\ Len(hand) <= 1
  /\ drainer \in BOOLEAN /\ done \in BOOLEAN
  /\ loop \in {"starting", "serving", "joining", "ended"}
  /\ joined \in Callers
  /\ caller \in [Callers -> {"select", "full", "freed", "gone"}]
  /\ started \in [Callers -> BOOLEAN]
  /\ nextLine \in 1 .. NLines + 1
  /\ logView \in Seq(Lines)
  /\ model \in [Panels -> Nat] /\ shown \in [Panels -> Nat]
  /\ lag \in Nat

Init ==
  /\ updates = <<>> /\ hand = <<>> /\ drainer = TRUE /\ done = FALSE
  /\ loop = "starting" /\ joined = "log"
  /\ caller = [c \in Callers |-> IF c = "log" THEN "select" ELSE "gone"]
  /\ started = [c \in Callers |-> c = "log"]
  /\ nextLine = 1 /\ logView = <<>>
  /\ model = [p \in Panels |-> 0] /\ shown = [p \in Panels |-> 0]
  /\ lag = 0

-----------------------------------------------------------------------------
(***************************************************************************)
(* QueueUpdateDraw.                                                        *)
(***************************************************************************)

\* The call goroutine c makes: the repaint of its panel, or the next line.
CallOf(c) == [panel |-> c, line |-> IF c = "log" THEN nextLine ELSE 0]

\* The call of c is over, accepted or not; a line is offered only once.
Return(c) ==
  /\ caller' = [caller EXCEPT ![c] = "select"]
  /\ nextLine' = IF c = "log" THEN nextLine + 1 ELSE nextLine

\* Mutant: a channel without a bound.
SendUnbounded(c) == updates' = Append(updates, CallOf(c)) /\ Return(c)

Send(c) ==
  /\ Len(updates) < Capacity
  /\ updates' = Append(updates, CallOf(c))
  /\ Return(c)

\* A closed done is ready in a select too, and Go picks among the ready ones.
SeeDone(c) == done /\ Return(c) /\ UNCHANGED updates

\* The first select.
Offer(c) ==
  /\ \/ Send(c)
     \/ SeeDone(c)
     \/ /\ Len(updates) >= Capacity /\ ~done
        /\ caller' = [caller EXCEPT ![c] = "full"]
        /\ UNCHANGED <<updates, nextLine>>
  /\ UNCHANGED <<hand, drainer, done, started>>

\* The second: drop the oldest call.  The channel may have been drained since.
DropOldest(c) ==
  /\ caller[c] = "full"
  /\ updates' = IF updates = <<>> THEN updates ELSE Tail(updates)
  /\ caller' = [caller EXCEPT ![c] = "freed"]
  /\ UNCHANGED <<hand, drainer, done, started, loopVars, viewVars>>

\* Mutant: the third select has no default and waits for a slot.
RetryBlocks(c) ==
  /\ caller[c] = "freed"
  /\ Send(c) \/ SeeDone(c)
  /\ UNCHANGED <<hand, drainer, done, started, loopVars, logView, model, shown, lag>>

\* The third: if another caller has taken the slot, this call is lost.
Retry(c) ==
  /\ caller[c] = "freed"
  /\ \/ Send(c)
     \/ SeeDone(c)
     \/ Len(updates) >= Capacity /\ ~done /\ Return(c) /\ UNCHANGED updates
  /\ UNCHANGED <<hand, drainer, done, started, loopVars, logView, model, shown, lag>>

-----------------------------------------------------------------------------
(***************************************************************************)
(* The callers.                                                            *)
(***************************************************************************)

CaughtUp == updates = <<>> /\ hand = <<>> /\ loop = "serving"

\* The ticker fires in the goroutine of panel p.  Only MaxLag ticks come
\* while the event loop has not caught up.
Tick(p) ==
  /\ p \in Panels /\ caller[p] = "select"
  /\ CaughtUp \/ lag < MaxLag
  /\ lag' = IF CaughtUp THEN lag ELSE lag + 1
  /\ Offer(p)
  /\ UNCHANGED <<loopVars, logView, model, shown>>

\* A poll of the log file finds a line.
Poll ==
  /\ caller["log"] = "select" /\ nextLine \in Lines
  /\ Offer("log")
  /\ UNCHANGED <<loopVars, logView, model, shown, lag>>

\* The goroutine sees its stop channel closed and returns.
Exit(c) ==
  /\ caller[c] = "select" /\ ~started[c]
  /\ caller' = [caller EXCEPT ![c] = "gone"]
  /\ UNCHANGED <<queueVars, loopVars, started, viewVars>>

\* The state behind a panel changes.
Change(p) ==
  /\ model[p] < MaxVersion
  /\ model' = [model EXCEPT ![p] = @ + 1]
  /\ UNCHANGED <<queueVars, loopVars, callerVars, nextLine, logView, shown, lag>>

-----------------------------------------------------------------------------
(***************************************************************************)
(* The event loop and its handlers.                                        *)
(***************************************************************************)

\* Mutant: a panel that was stopped keeps its finished goroutine.
StartOnce(p) ==
  /\ loop = "serving" /\ ~started[p]
  /\ started' = [started EXCEPT ![p] = TRUE]
  /\ UNCHANGED <<queueVars, caller, loopVars, viewVars>>

\* A dialog or a pane opens: start.  A second start does nothing.
Start(p) ==
  /\ loop = "serving" /\ ~started[p]
  /\ started' = [started EXCEPT ![p] = TRUE]
  /\ caller' = [caller EXCEPT ![p] = "select"]
  /\ UNCHANGED <<queueVars, loopVars, viewVars>>

\* It closes: Stop, StopTailing.  The event loop waits for the goroutine.
Stop(c) ==
  /\ loop = "serving" /\ started[c]
  /\ started' = [started EXCEPT ![c] = FALSE]
  /\ loop' = "joining" /\ joined' = c
  /\ UNCHANGED <<queueVars, caller, viewVars>>

Joined ==
  /\ loop = "joining" /\ caller[joined] = "gone"
  /\ loop' = "serving"
  /\ UNCHANGED <<queueVars, joined, callerVars, viewVars>>

\* App.Run, once.
RunLoop ==
  /\ loop = "starting"
  /\ loop' = "serving"
  /\ UNCHANGED <<queueVars, joined, callerVars, viewVars>>

\* App.Stop: done is closed and tview leaves its loop.
StopApp ==
  /\ loop = "serving"
  /\ done' = TRUE /\ loop' = "ended"
  /\ UNCHANGED <<updates, hand, drainer, joined, callerVars, viewVars>>

\* App.RestoreTerminal, after a panic anywhere: the loop ends, done stays open.
RestoreTerminal ==
  /\ loop \in {"serving", "joining"}
  /\ loop' = "ended"
  /\ UNCHANGED <<queueVars, joined, callerVars, viewVars>>

-----------------------------------------------------------------------------
(***************************************************************************)
(* The drainer.  tview's QueueUpdateDraw returns when the call has run.    *)
(***************************************************************************)
\* Mutant: the newest call is taken first.
TakeNewest ==
  /\ drainer /\ hand = <<>> /\ updates # <<>>
  /\ hand' = <<updates[Len(updates)]>> /\ updates' = SubSeq(updates, 1, Len(updates) - 1)
  /\ UNCHANGED <<drainer, done, loopVars, callerVars, viewVars>>

Take ==
  /\ drainer /\ hand = <<>> /\ updates # <<>>
  /\ hand' = <<Head(updates)>> /\ updates' = Tail(updates)
  /\ UNCHANGED <<drainer, done, loopVars, callerVars, viewVars>>

DrainerExit ==
  /\ drainer /\ hand = <<>> /\ done
  /\ drainer' = FALSE
  /\ UNCHANGED <<updates, hand, done, loopVars, callerVars, viewVars>>

\* Mutant: a call that has run stays in the drainer's hand.
DrawTwice ==
  /\ hand # <<>> /\ loop = "serving"
  /\ LET call == Head(hand) IN
       IF call.panel = "log"
         THEN logView' = Append(logView, call.line) /\ UNCHANGED shown
         ELSE shown' = [shown EXCEPT ![call.panel] = model[call.panel]] /\ UNCHANGED logView
  /\ Len(logView) <= NLines
  /\ UNCHANGED <<queueVars, loopVars, callerVars, nextLine, model, lag>>

\* tview runs the call and draws.
Draw ==
  /\ hand # <<>> /\ loop = "serving"
  /\ LET call == Head(hand) IN
       IF call.panel = "log"
         THEN logView' = Append(logView, call.line) /\ UNCHANGED shown
         ELSE shown' = [shown EXCEPT ![call.panel] = model[call.panel]] /\ UNCHANGED logView
  /\ hand' = <<>>
  /\ UNCHANGED <<updates, drainer, done, loopVars, callerVars, nextLine, model, lag>>

CallerNext(c) == DropOldest(c) \/ Retry(c)

Next ==
  \/ \E c \in Callers : DropOldest(c) \/ Retry(c) \/ Exit(c) \/ Stop(c)
  \/ \E p \in Panels : Tick(p) \/ Change(p) \/ Start(p)
  \/ Poll
  \/ Joined \/ RunLoop \/ StopApp \/ RestoreTerminal
  \/ Take \/ DrainerExit \/ Draw

Spec == Init /\ [][Next]_vars

(***************************************************************************)
(* Every goroutine runs on.  A ticker fires again and again; a goroutine   *)
(* whose stop channel is closed picks it in its select sooner or later, as *)
(* Go chooses uniformly among the ready cases; so does the drainer.        *)
(***************************************************************************)
Fairness ==
  /\ \A c \in Callers : WF_vars(CallerNext(c)) /\ SF_vars(Exit(c))
  /\ \A p \in Panels : SF_vars(Tick(p))
  /\ WF_vars(Poll) /\ WF_vars(RunLoop) /\ WF_vars(Joined)
  /\ WF_vars(Take) /\ WF_vars(Draw)

FairSpec == Spec /\ Fairness

-----------------------------------------------------------------------------
(***************************************************************************)
(* The queue implements LossyQueue: the drainer's hand is the head of the  *)
(* pending calls.                                                          *)
(***************************************************************************)
Abstract == INSTANCE LossyQueue WITH pending <- hand \o updates

AbstractSpec == Abstract!Spec

(***************************************************************************)
(* The log view shows the lines in the order of the file, whatever is      *)
(* dropped and whoever calls in between (QueueUpdateDraw, drainUpdates).   *)
(***************************************************************************)
LinesInOrder == Abstract!InOrder

(***************************************************************************)
(* A caller returns from QueueUpdateDraw, whatever the event loop does     *)
(* ("It is non-blocking and safe to call from any goroutine"), and a Stop  *)
(* that waits for the caller on the event loop returns: neither waits for  *)
(* the other.                                                              *)
(***************************************************************************)
CallsReturn ==
  /\ \A c \in Callers : caller[c] \in {"full", "freed"} ~> caller[c] \in {"select", "gone"}
  /\ loop = "joining" ~> loop \in {"serving", "ended"}

(***************************************************************************)
(* "a dropped call only delays a redraw until the next producer tick": a   *)
(* panel whose ticker runs is painted from the current state sooner or     *)
(* later, although calls are dropped.                                      *)
(***************************************************************************)
PanelsCatchUp ==
  \A p \in Panels :
    model[p] # shown[p] ~> model[p] = shown[p] \/ ~started[p] \/ loop = "ended"

(***************************************************************************)
(* "no model state is lost": when nothing is on its way any more, the log  *)
(* view shows every line the tail has read.                                *)
(***************************************************************************)
NoLineIsLost ==
  CaughtUp /\ caller["log"] \in {"select", "gone"} => Len(logView) = nextLine - 1
=============================================================================
