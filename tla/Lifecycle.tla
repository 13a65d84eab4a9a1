----------------------------- MODULE Lifecycle -----------------------------
(***************************************************************************)
(* The life of the application: app.go (Init, initRNS, Shutdown,           *)
(* AnnounceNow), jobs.go, sync.go, node-hosting.go and the job loop of     *)
(* node/node.go.                                                           *)
(*                                                                         *)
(* Init starts a goroutine that brings Reticulum up while the user         *)
(* interface already runs.  It starts, in its turn, the job loop of the    *)
(* application, the job loop of the hosted node, and two goroutines that   *)
(* announce once after a delay.  All of them, and the user interface, use  *)
(* the router; Shutdown stops the loops, waits for them and closes it.     *)
(* The times of the last announce and of the last synchronisation are kept *)
(* twice: in a field the job loop reads, and in the peer settings, which   *)
(* are on disk and seed the fields when the program starts.                *)
(***************************************************************************)
EXTENDS Naturals

CONSTANTS
  UICalls,       \* what the user starts: a subset of {"announce", "sync"}
  Starters,      \* the delayed first announces: of {"starter", "nodeStarter"}
  EnableNode,    \* [node] enable_node
  MaxRuns,       \* bound: runs of the program
  MaxTicks       \* bound: times all intervals elapse, over all runs

ASSUME EnableNodeAssumption == EnableNode \in BOOLEAN
ASSUME StartersAssumption == Starters \subseteq {"starter", "nodeStarter"}
ASSUME UICallsAssumption == UICalls \subseteq {"announce", "sync"}

Loops      == {"jobs", "nodeJobs"}
Goroutines == {"ui"} \cup Loops \cup Starters

\* Whether the interval has elapsed since the time a field holds.
Ages == {"old", "recent"}

VARIABLES
  main,         \* Init and Shutdown: where the program is
  init,         \* the step initRNS is at
  rns,          \* the Reticulum instance
  router,       \* App.Router: not there, there, or there with App.LXMFDest
  node,         \* App.Node is set
  runJobs,      \* App.ShouldRunJobs
  jobsStop,     \* App.jobsStop is closed
  nodeStop,     \* Node.ShouldRunJobs is false and Node.jobsStop closed
  pc,           \* pc[g]: where goroutine g is
  transfer,     \* the router's propagation transfer: idle, active, complete
                \* (which includes every failure)
  lastSync,     \* App.LastLXMFSync
  lastAnnounce, \* App.LastAnnounce
  settings,     \* PeerSettings, in memory and, written by rename, on disk
  aged,         \* goroutines for which an interval elapsed between their two
                \* writes of a time
  apart,        \* the clocks of which the two copies were set apart: by a
                \* synchronisation without a router, or by a goroutine in aged
  late,         \* goroutines that used the router after RNS was closed
  runs, ticks

lifeVars  == <<main, init, rns, router, node>>
stopVars  == <<runJobs, jobsStop, nodeStop>>
clockVars == <<lastSync, lastAnnounce, settings, aged, apart>>
vars == <<lifeVars, stopVars, pc, transfer, clockVars, late, runs, ticks>>

InitSteps == {"reticulum", "router", "destination", "node", "spawn"}
AnnounceSteps == {"announce", "announceStamp", "announceSave"}
SyncSteps == {"sync", "syncSave", "syncSend", "syncStamp"}
NodeSteps == {"nodeSave", "nodeSend"}
BetweenWrites == {"announceSave", "syncSend", "syncStamp"}
Places == {"none", "idle", "quitting", "wait", "check", "due", "gone"}
            \cup AnnounceSteps \cup SyncSteps \cup NodeSteps

TypeOK ==
  /\ main \in {"off", "running", "waiting", "stopping", "closing", "closed"}
  /\ init \in InitSteps \cup {"none", "ended"}
  /\ rns \in {"none", "up", "closed"}
  /\ router \in {"none", "router", "ready"} /\ node \in BOOLEAN
  /\ runJobs \in BOOLEAN /\ jobsStop \in BOOLEAN /\ nodeStop \in BOOLEAN
  /\ pc \in [Goroutines -> Places]
  /\ transfer \in {"idle", "active", "complete"}
  /\ lastSync \in Ages /\ lastAnnounce \in Ages
  /\ settings \in [sync : Ages, announce : Ages]
  /\ aged \subseteq Goroutines /\ apart \subseteq {"sync", "announce"}
  /\ late \subseteq Goroutines
  /\ runs \in Nat /\ ticks \in Nat

Init ==
  /\ main = "off" /\ init = "none" /\ rns = "none" /\ router = "none" /\ node = FALSE
  /\ runJobs = TRUE /\ jobsStop = FALSE /\ nodeStop = FALSE
  /\ pc = [g \in Goroutines |-> "none"]
  /\ transfer = "idle"
  /\ lastSync = "old" /\ lastAnnounce = "old"
  /\ settings = [sync |-> "old", announce |-> "old"]
  /\ aged = {} /\ apart = {}
  /\ late = {} /\ runs = 0 /\ ticks = 0

\* App.mu: Shutdown holds it from the end of the jobs to its own end; everyone
\* else only for an assignment.
MuFree == main # "closing"

-----------------------------------------------------------------------------
(***************************************************************************)
(* Init and initRNS.                                                       *)
(***************************************************************************)

\* Mutant: the fields the job loop reads start at the zero time.
StartUnseeded ==
  /\ main = "off" /\ runs < MaxRuns
  /\ main' = "running" /\ init' = "reticulum"
  /\ lastSync' = "old" /\ lastAnnounce' = settings.announce
  /\ pc' = [pc EXCEPT !["ui"] = "idle"]
  /\ apart' = {} /\ runs' = runs + 1
  /\ UNCHANGED <<rns, router, node, stopVars, transfer, settings, aged, late, ticks>>

\* Mutant: a settings file without the time leaves the clock unset.
StartUnconverted ==
  /\ main = "off" /\ runs < MaxRuns
  /\ main' = "running" /\ init' = "reticulum"
  /\ lastSync' = settings.sync /\ lastAnnounce' = "unset"
  /\ pc' = [pc EXCEPT !["ui"] = "idle"]
  /\ apart' = {} /\ runs' = runs + 1
  /\ UNCHANGED <<rns, router, node, stopVars, transfer, settings, aged, late, ticks>>

\* App.Init: what does not block, loadPeerSettings among it.
Start ==
  /\ main = "off" /\ runs < MaxRuns
  /\ main' = "running" /\ init' = "reticulum"
  /\ lastSync' = settings.sync /\ lastAnnounce' = settings.announce
  /\ pc' = [pc EXCEPT !["ui"] = "idle"]
  /\ apart' = {} /\ runs' = runs + 1
  /\ UNCHANGED <<rns, router, node, stopVars, transfer, settings, aged, late, ticks>>

\* A step of initRNS that can fail: the goroutine logs and returns.
InitFails ==
  /\ init \in {"reticulum", "router", "destination"}
  /\ init' = "ended"
  /\ UNCHANGED <<main, rns, router, node, stopVars, pc, transfer, clockVars, late, runs, ticks>>

InitReticulum ==
  /\ init = "reticulum"
  /\ rns' = "up" /\ init' = "router"
  /\ UNCHANGED <<main, router, node, stopVars, pc, transfer, clockVars, late, runs, ticks>>

\* The identity, then the LXMF router.
InitRouter ==
  /\ init = "router"
  /\ router' = "router" /\ init' = "destination"
  /\ UNCHANGED <<main, rns, node, stopVars, pc, transfer, clockVars, late, runs, ticks>>

\* RegisterDeliveryIdentity, then the announce handlers.
InitDestination ==
  /\ init = "destination"
  /\ router' = "ready" /\ init' = "node"
  /\ UNCHANGED <<main, rns, node, stopVars, pc, transfer, clockVars, late, runs, ticks>>

\* startNode.  The node may fail to start, and the client goes on without it.
InitNode ==
  /\ init = "node"
  /\ init' = "spawn"
  /\ \/ UNCHANGED <<node, pc>>
     \/ /\ EnableNode
        /\ node' = TRUE
        /\ pc' = [g \in Goroutines |-> IF g = "nodeJobs" THEN "check"
                                       ELSE IF g = "nodeStarter" THEN "wait" ELSE pc[g]]
  /\ UNCHANGED <<main, rns, router, stopVars, transfer, clockVars, late, runs, ticks>>

\* The end of initRNS: the delayed announce and the job loop start.
InitSpawn ==
  /\ init = "spawn"
  /\ init' = "ended"
  /\ pc' = [g \in Goroutines |-> IF g \in {"jobs", "starter"} THEN "wait" ELSE pc[g]]
  /\ UNCHANGED <<main, rns, router, node, stopVars, transfer, clockVars, late, runs, ticks>>

InitStep ==
  InitReticulum \/ InitRouter \/ InitDestination \/ InitNode \/ InitSpawn

-----------------------------------------------------------------------------
(***************************************************************************)
(* AnnounceNow, RequestLXMFSync and Node.Announce, step by step: psMu and  *)
(* mu are taken one after the other, and nothing is held over a call.      *)
(***************************************************************************)

\* g uses the router or the transport.
Use(g) == late' = IF rns = "closed" THEN late \cup {g} ELSE late

\* Where g goes on when its call returns.
Returned(g) == IF g = "ui" THEN "idle"
               ELSE IF g \in Loops THEN "wait" ELSE "gone"

\* Router.Announce, which may fail; or the router is not ready.
AnnounceSend(g) ==
  /\ pc[g] = "announce"
  /\ pc' = [pc EXCEPT ![g] = "announceStamp"]
  /\ IF router = "ready" THEN Use(g) ELSE UNCHANGED late
  /\ UNCHANGED <<lifeVars, stopVars, transfer, clockVars, runs, ticks>>

AnnounceStamp(g) ==
  /\ pc[g] = "announceStamp" /\ MuFree
  /\ lastAnnounce' = "recent"
  /\ pc' = [pc EXCEPT ![g] = "announceSave"]
  /\ UNCHANGED <<lifeVars, stopVars, transfer, lastSync, settings, aged, apart, late, runs, ticks>>

\* The time saved is the time that AnnounceStamp took.
AnnounceSave(g) ==
  /\ pc[g] = "announceSave"
  /\ settings' = [settings EXCEPT !.announce = IF g \in aged THEN "old" ELSE "recent"]
  /\ apart' = IF g \in aged THEN apart \cup {"announce"} ELSE apart \ {"announce"}
  /\ aged' = aged \ {g}
  /\ pc' = [pc EXCEPT ![g] = Returned(g)]
  /\ UNCHANGED <<lifeVars, stopVars, transfer, lastSync, lastAnnounce, late, runs, ticks>>

\* The state of the router decides whether RequestLXMFSync does anything.
SyncCheck(g) ==
  /\ pc[g] = "sync"
  /\ IF router = "none"
       THEN /\ MuFree /\ lastSync' = "recent" /\ apart' = apart \cup {"sync"}
            /\ UNCHANGED late
       ELSE Use(g) /\ UNCHANGED <<lastSync, apart>>
  /\ pc' = [pc EXCEPT ![g] =
              IF router # "none" /\ transfer # "active" THEN "syncSave"
              ELSE IF g = "jobs" THEN "due" ELSE Returned(g)]
  /\ UNCHANGED <<lifeVars, stopVars, transfer, lastAnnounce, settings, aged, runs, ticks>>

SyncSave(g) ==
  /\ pc[g] = "syncSave"
  /\ settings' = [settings EXCEPT !.sync = "recent"]
  /\ apart' = apart \ {"sync"}
  /\ pc' = [pc EXCEPT ![g] = "syncSend"]
  /\ UNCHANGED <<lifeVars, stopVars, transfer, lastSync, lastAnnounce, aged, late, runs, ticks>>

SyncSend(g) ==
  /\ pc[g] = "syncSend"
  /\ transfer' = "active" /\ Use(g)
  /\ pc' = [pc EXCEPT ![g] = "syncStamp"]
  /\ UNCHANGED <<lifeVars, stopVars, clockVars, runs, ticks>>

\* The field gets a time of its own.
SyncStamp(g) ==
  /\ pc[g] = "syncStamp" /\ MuFree
  /\ lastSync' = "recent"
  /\ apart' = IF g \in aged THEN apart \cup {"sync"} ELSE apart
  /\ aged' = aged \ {g}
  /\ pc' = [pc EXCEPT ![g] = IF g = "jobs" THEN "due" ELSE Returned(g)]
  /\ UNCHANGED <<lifeVars, stopVars, transfer, lastAnnounce, settings, late, runs, ticks>>

\* OnAnnounced saves the peer settings; then the announce goes out.
NodeSave(g) ==
  /\ pc[g] = "nodeSave"
  /\ pc' = [pc EXCEPT ![g] = "nodeSend"]
  /\ UNCHANGED <<lifeVars, stopVars, transfer, clockVars, late, runs, ticks>>

NodeSend(g) ==
  /\ pc[g] = "nodeSend"
  /\ Use(g)
  /\ pc' = [pc EXCEPT ![g] = Returned(g)]
  /\ UNCHANGED <<lifeVars, stopVars, transfer, clockVars, runs, ticks>>

CallStep(g) ==
  \/ AnnounceSend(g) \/ AnnounceStamp(g) \/ AnnounceSave(g)
  \/ SyncCheck(g) \/ SyncSave(g) \/ SyncSend(g) \/ SyncStamp(g)
  \/ NodeSave(g) \/ NodeSend(g)

\* The transfer ends; or the user cancels it, or puts an ended one away.
TransferEnds ==
  /\ transfer = "active" /\ rns # "closed"
  /\ transfer' = "complete"
  /\ UNCHANGED <<lifeVars, stopVars, pc, clockVars, late, runs, ticks>>

CancelLXMFSync ==
  /\ pc["ui"] = "idle" /\ transfer # "idle" /\ router # "none"
  /\ transfer' = "idle" /\ Use("ui")
  /\ UNCHANGED <<lifeVars, stopVars, pc, clockVars, runs, ticks>>

-----------------------------------------------------------------------------
(***************************************************************************)
(* The goroutines.                                                         *)
(***************************************************************************)

UICall(call) ==
  /\ call \in UICalls /\ pc["ui"] = "idle"
  /\ pc' = [pc EXCEPT !["ui"] = call]
  /\ UNCHANGED <<lifeVars, stopVars, transfer, clockVars, late, runs, ticks>>

\* jobs and Node.Jobs wait; a closed channel and a timer can both be ready.
StopOf(g) == IF g = "nodeJobs" THEN nodeStop ELSE jobsStop

Wake(g) ==
  /\ g # "ui" /\ pc[g] = "wait"
  /\ pc' = [pc EXCEPT ![g] = CASE g \in Loops -> "check"
                               [] g = "starter" -> "announce"
                               [] g = "nodeStarter" -> "nodeSave"]
  /\ UNCHANGED <<lifeVars, stopVars, transfer, clockVars, late, runs, ticks>>

SeeStop(g) ==
  /\ g # "ui" /\ pc[g] = "wait" /\ StopOf(g)
  /\ pc' = [pc EXCEPT ![g] = "gone"]
  /\ UNCHANGED <<lifeVars, stopVars, transfer, clockVars, late, runs, ticks>>

\* jobs: ShouldRunJobs is read under mu, and then lxmfSyncDue.
JobsCheck ==
  /\ pc["jobs"] = "check" /\ MuFree
  /\ pc' = [pc EXCEPT !["jobs"] = IF ~runJobs THEN "gone"
                                  ELSE IF lastSync = "old" THEN "sync" ELSE "due"]
  /\ UNCHANGED <<lifeVars, stopVars, transfer, clockVars, late, runs, ticks>>

\* Mutant: the announce waits until no transfer is running.
JobsDueIfIdle ==
  /\ pc["jobs"] = "due"
  /\ pc' = [pc EXCEPT !["jobs"] =
              IF lastAnnounce = "old" /\ transfer # "active" THEN "announce" ELSE "wait"]
  /\ UNCHANGED <<lifeVars, stopVars, transfer, clockVars, late, runs, ticks>>

\* LastAnnounce is read without mu.
JobsDue ==
  /\ pc["jobs"] = "due"
  /\ pc' = [pc EXCEPT !["jobs"] = IF lastAnnounce = "old" THEN "announce" ELSE "wait"]
  /\ UNCHANGED <<lifeVars, stopVars, transfer, clockVars, late, runs, ticks>>

\* Node.Jobs: a pass may find the announce due.
NodeJobsCheck ==
  /\ pc["nodeJobs"] = "check"
  /\ \E next \in IF nodeStop THEN {"gone"} ELSE {"nodeSave", "wait"} :
       pc' = [pc EXCEPT !["nodeJobs"] = next]
  /\ UNCHANGED <<lifeVars, stopVars, transfer, clockVars, late, runs, ticks>>

\* Every interval elapses.
TimePasses ==
  /\ main # "off" /\ ticks < MaxTicks
  /\ lastSync' = "old" /\ lastAnnounce' = "old"
  /\ settings' = [sync |-> "old", announce |-> "old"]
  /\ aged' = {g \in Goroutines : pc[g] \in BetweenWrites}
  /\ apart' = {}
  /\ ticks' = ticks + 1
  /\ UNCHANGED <<lifeVars, stopVars, pc, transfer, late, runs>>

-----------------------------------------------------------------------------
(***************************************************************************)
(* Shutdown.                                                               *)
(***************************************************************************)

\* Quit runs it once: from the event loop, which then serves nothing else,
\* or from the goroutine that catches the signals, while the loop goes on.
Quit ==
  /\ main = "running"
  /\ main' = "waiting"
  /\ \/ pc["ui"] = "idle" /\ pc' = [pc EXCEPT !["ui"] = "quitting"]
     \/ UNCHANGED pc
  /\ UNCHANGED <<init, rns, router, node, stopVars, transfer, clockVars, late, runs, ticks>>

\* Mutant: initRNS is not waited for.
StopJobsAtOnce ==
  /\ main = "waiting"
  /\ runJobs' = FALSE /\ jobsStop' = TRUE
  /\ main' = "stopping"
  /\ UNCHANGED <<init, rns, router, node, nodeStop, pc, transfer, clockVars, late, runs, ticks>>

\* initWG.Wait, ShouldRunJobs, jobsStop.
StopJobs ==
  /\ main = "waiting" /\ init = "ended"
  /\ runJobs' = FALSE /\ jobsStop' = TRUE
  /\ main' = "stopping"
  /\ UNCHANGED <<init, rns, router, node, nodeStop, pc, transfer, clockVars, late, runs, ticks>>

\* jobsWG.Wait, then mu; the directory is saved; stopNode tells the node.
LockAndSave ==
  /\ main = "stopping" /\ pc["jobs"] \in {"none", "gone"}
  /\ nodeStop' = node
  /\ main' = "closing"
  /\ UNCHANGED <<init, rns, router, node, runJobs, jobsStop, pc, transfer, clockVars, late, runs, ticks>>

\* Mutant: the delayed announces are waited for as well, with mu held.
CloseAfterStarters ==
  /\ main = "closing" /\ \A g \in Goroutines \ {"ui", "jobs"} : pc[g] \in {"none", "gone"}
  /\ rns' = IF rns = "up" THEN "closed" ELSE rns
  /\ main' = "closed"
  /\ UNCHANGED <<init, router, node, stopVars, pc, transfer, clockVars, late, runs, ticks>>

\* The end of stopNode, the hubs, RNS.Close; mu is released.
Close ==
  /\ main = "closing" /\ pc["nodeJobs"] \in {"none", "gone"}
  /\ rns' = IF rns = "up" THEN "closed" ELSE rns
  /\ main' = "closed"
  /\ UNCHANGED <<init, router, node, stopVars, pc, transfer, clockVars, late, runs, ticks>>

\* The process ends, after Shutdown or in the middle of anything.
ProcessEnds ==
  /\ main # "off"
  /\ main' = "off" /\ init' = "none" /\ rns' = "none" /\ router' = "none" /\ node' = FALSE
  /\ runJobs' = TRUE /\ jobsStop' = FALSE /\ nodeStop' = FALSE
  /\ pc' = [g \in Goroutines |-> "none"]
  /\ transfer' = "idle" /\ late' = {} /\ aged' = {}
  /\ UNCHANGED <<lastSync, lastAnnounce, settings, apart, runs, ticks>>

-----------------------------------------------------------------------------
GoroutineStep(g) ==
  \/ CallStep(g) \/ Wake(g) \/ SeeStop(g)
  \/ g = "jobs" /\ (JobsCheck \/ JobsDue)
  \/ g = "nodeJobs" /\ NodeJobsCheck

ShutdownStep == StopJobs \/ LockAndSave \/ Close

Next ==
  \/ Start \/ InitFails \/ InitStep
  \/ \E g \in Goroutines : GoroutineStep(g)
  \/ \E call \in UICalls : UICall(call)
  \/ TransferEnds \/ CancelLXMFSync \/ TimePasses
  \/ Quit \/ ShutdownStep \/ ProcessEnds

Spec == Init /\ [][Next]_vars

\* Goroutines that can run do; a timer fires; nothing makes a user quit.
Fairness ==
  /\ WF_vars(InitStep) /\ WF_vars(ShutdownStep)
  /\ \A g \in Goroutines : WF_vars(GoroutineStep(g))

FairSpec == Spec /\ Fairness

-----------------------------------------------------------------------------
(***************************************************************************)
(* "The loop's RequestLXMFSync/AnnounceNow" and "n.Announce/RegisterPages  *)
(* do not race ahead of a.RNS.Close" (Shutdown, stopNode): once Reticulum  *)
(* is closed both loops have ended, and neither has used it since, however *)
(* far initRNS had come when the user quit.                                *)
(***************************************************************************)
LoopsEndBeforeClose ==
  rns = "closed" =>
    /\ \A g \in Loops : pc[g] \in {"none", "gone"}
    /\ late \cap Loops = {}

(***************************************************************************)
(* A synchronisation or an announce the settings know to be recent is one  *)
(* the job loop does not repeat, and the other way round, after a restart  *)
(* too (loadPeerSettings).  The copies differ only while a caller is       *)
(* between its two writes: RequestLXMFSync saves first, AnnounceNow stamps *)
(* first; after a synchronisation that found no router, which stamps the   *)
(* field alone; and where an interval elapsed between the two writes.      *)
(***************************************************************************)
ClocksAgree ==
  main # "off" =>
    /\ settings.sync = "recent" =>
         lastSync = "recent" \/ \E g \in Goroutines : pc[g] \in {"syncSend", "syncStamp"}
    /\ lastSync = "recent" => settings.sync = "recent" \/ "sync" \in apart
    /\ settings.announce = "recent" => lastAnnounce = "recent"
    /\ lastAnnounce = "recent" =>
         \/ settings.announce = "recent" \/ "announce" \in apart
         \/ \E g \in Goroutines : pc[g] = "announceSave"

(***************************************************************************)
(* Shutdown comes to its end: nobody it waits for waits for it.            *)
(***************************************************************************)
ShutdownReturns == main = "waiting" ~> main \in {"closed", "off"}

(***************************************************************************)
(* A periodic announce that is due is made, or the program is stopping.    *)
(***************************************************************************)
AnnouncesGoOn ==
  lastAnnounce = "old" /\ pc["jobs"] = "wait" ~> lastAnnounce = "recent" \/ main # "running"

(***************************************************************************)
(* "the sleep selects on jobsStop to exit on shutdown instead of firing    *)
(* AnnounceNow against a torn-down transport" (initRNS, startNode).        *)
(***************************************************************************)
StartersDoNotFireLate == late \cap Starters = {}
=============================================================================
