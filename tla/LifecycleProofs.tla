-------------------------- MODULE LifecycleProofs --------------------------
(***************************************************************************)
(* Theorems about Lifecycle, for every choice of its constants.            *)
(***************************************************************************)
EXTENDS Lifecycle, TLAPS

\* The places, listed.
LEMMA PlacesListed ==
  /\ "none" \in Places /\ "idle" \in Places /\ "quitting" \in Places /\ "wait" \in Places
  /\ "check" \in Places /\ "due" \in Places /\ "gone" \in Places
  /\ "announce" \in Places /\ "announceStamp" \in Places /\ "announceSave" \in Places
  /\ "sync" \in Places /\ "syncSave" \in Places /\ "syncSend" \in Places
  /\ "syncStamp" \in Places /\ "nodeSave" \in Places /\ "nodeSend" \in Places
BY DEF Places, AnnounceSteps, SyncSteps, NodeSteps

\* TypeOK in three parts: the switches, what is known of the clocks, the rest.
Switches ==
  /\ node \in BOOLEAN
  /\ runJobs \in BOOLEAN /\ jobsStop \in BOOLEAN /\ nodeStop \in BOOLEAN

Rest ==
  /\ main \in {"off", "running", "waiting", "stopping", "closing", "closed"}
  /\ init \in InitSteps \cup {"none", "ended"}
  /\ rns \in {"none", "up", "closed"}
  /\ router \in {"none", "router", "ready"}
  /\ pc \in [Goroutines -> Places]
  /\ transfer \in {"idle", "active", "complete"}
  /\ lastSync \in Ages /\ lastAnnounce \in Ages
  /\ settings \in [sync : Ages, announce : Ages]
  /\ late \subseteq Goroutines
  /\ runs \in Nat /\ ticks \in Nat

Marks == aged \subseteq Goroutines /\ apart \subseteq {"sync", "announce"}

LEMMA TypeParts == TypeOK <=> Switches /\ Marks /\ Rest
BY DEF TypeOK, Switches, Marks, Rest

LEMMA MarksStep == ASSUME Marks, [Next]_vars PROVE Marks'
<1> USE DEF Marks, vars, clockVars
<1>1. CASE Start \/ InitFails \/ InitStep
  BY <1>1 DEF Start, InitFails, InitStep, InitReticulum, InitRouter, InitDestination, InitNode,
     InitSpawn
<1>2. ASSUME NEW g \in Goroutines, GoroutineStep(g) PROVE Marks'
  BY <1>2 DEF GoroutineStep, CallStep, AnnounceSend, AnnounceStamp, AnnounceSave, SyncCheck,
     SyncSave, SyncSend, SyncStamp, NodeSave, NodeSend, Wake, SeeStop, JobsCheck, JobsDue,
     NodeJobsCheck
<1>3. ASSUME NEW call \in UICalls, UICall(call) PROVE Marks'
  BY <1>3 DEF UICall
<1>4. CASE TransferEnds \/ CancelLXMFSync \/ TimePasses \/ Quit
  BY <1>4 DEF TransferEnds, CancelLXMFSync, TimePasses, Quit
<1>5. CASE ShutdownStep BY <1>5 DEF ShutdownStep, StopJobs, LockAndSave, Close
<1>6. CASE ProcessEnds BY <1>6 DEF ProcessEnds
<1>7. CASE UNCHANGED vars BY <1>7
<1> QED BY <1>1, <1>2, <1>3, <1>4, <1>5, <1>6, <1>7 DEF Next

LEMMA SwitchesStep == ASSUME Switches, [Next]_vars PROVE Switches'
<1> USE DEF Switches, vars, lifeVars, stopVars
<1>1. CASE Start \/ InitFails \/ InitStep
  BY <1>1 DEF Start, InitFails, InitStep, InitReticulum, InitRouter, InitDestination, InitNode,
     InitSpawn
<1>2. ASSUME NEW g \in Goroutines, GoroutineStep(g) PROVE Switches'
  BY <1>2 DEF GoroutineStep, CallStep, AnnounceSend, AnnounceStamp, AnnounceSave, SyncCheck,
     SyncSave, SyncSend, SyncStamp, NodeSave, NodeSend, Wake, SeeStop, JobsCheck, JobsDue,
     NodeJobsCheck
<1>3. ASSUME NEW call \in UICalls, UICall(call) PROVE Switches'
  BY <1>3 DEF UICall
<1>4. CASE TransferEnds \/ CancelLXMFSync \/ TimePasses \/ Quit
  BY <1>4 DEF TransferEnds, CancelLXMFSync, TimePasses, Quit
<1>5. CASE ShutdownStep BY <1>5 DEF ShutdownStep, StopJobs, LockAndSave, Close
<1>6. CASE ProcessEnds BY <1>6 DEF ProcessEnds
<1>7. CASE UNCHANGED vars BY <1>7
<1> QED BY <1>1, <1>2, <1>3, <1>4, <1>5, <1>6, <1>7 DEF Next

LEMMA RestStep == ASSUME Rest, [Next]_vars PROVE Rest'
<1> USE PlacesListed DEF Rest, Ages, InitSteps, vars, lifeVars, clockVars
<1>1. CASE Start
  <2>1. pc' \in [Goroutines -> Places] BY <1>1 DEF Start
  <2>2. lastSync' \in Ages /\ lastAnnounce' \in Ages BY <1>1 DEF Start
  <2>3. runs' \in Nat BY <1>1 DEF Start
  <2> QED BY <1>1, <2>1, <2>2, <2>3 DEF Start
<1>2. CASE InitFails BY <1>2 DEF InitFails
<1>3. CASE InitStep
  BY <1>3 DEF InitStep, InitReticulum, InitRouter, InitDestination, InitNode, InitSpawn
<1>4. ASSUME NEW g \in Goroutines, GoroutineStep(g) PROVE Rest'
  <2>1. CASE AnnounceSend(g) \/ AnnounceStamp(g) \/ AnnounceSave(g)
    <3>1. CASE AnnounceSend(g) BY <1>4, <3>1 DEF AnnounceSend, Use
    <3>2. CASE AnnounceStamp(g) BY <1>4, <3>2 DEF AnnounceStamp
    <3>3. CASE AnnounceSave(g) BY <1>4, <3>3 DEF AnnounceSave, Returned
    <3> QED BY <2>1, <3>1, <3>2, <3>3
  <2>2. CASE SyncCheck(g) \/ SyncSave(g) \/ SyncSend(g) \/ SyncStamp(g)
    <3>1. CASE SyncCheck(g)
      <4>1. lastSync' \in Ages BY <3>1 DEF SyncCheck
      <4>2. late' \subseteq Goroutines BY <1>4, <3>1 DEF SyncCheck, Use
      <4>3. pc' \in [Goroutines -> Places] BY <1>4, <3>1 DEF SyncCheck, Returned
      <4> QED BY <3>1, <4>1, <4>2, <4>3 DEF SyncCheck
    <3>2. CASE SyncSave(g) BY <1>4, <3>2 DEF SyncSave
    <3>3. CASE SyncSend(g) BY <1>4, <3>3 DEF SyncSend, Use
    <3>4. CASE SyncStamp(g) BY <1>4, <3>4 DEF SyncStamp, Returned
    <3> QED BY <2>2, <3>1, <3>2, <3>3, <3>4
  <2>3. CASE NodeSave(g) \/ NodeSend(g)
    BY <1>4, <2>3 DEF NodeSave, NodeSend, Use, Returned
  <2>4. CASE Wake(g)
    <3>1. g \in Loops \/ g = "starter" \/ g = "nodeStarter"
      BY <2>4, StartersAssumption DEF Wake, Goroutines
    <3> QED BY <1>4, <2>4, <3>1 DEF Wake, Loops
  <2>5. CASE SeeStop(g) BY <1>4, <2>5 DEF SeeStop
  <2>6. CASE JobsCheck \/ JobsDue BY <2>6 DEF JobsCheck, JobsDue
  <2>7. CASE NodeJobsCheck
    <3>1. PICK next \in {"gone", "nodeSave", "wait"} : pc' = [pc EXCEPT !["nodeJobs"] = next]
      BY <2>7 DEF NodeJobsCheck
    <3>2. pc' \in [Goroutines -> Places] BY <3>1
    <3> QED BY <2>7, <3>2 DEF NodeJobsCheck
  <2> QED BY <1>4, <2>1, <2>2, <2>3, <2>4, <2>5, <2>6, <2>7 DEF GoroutineStep, CallStep
<1>5. ASSUME NEW call \in UICalls, UICall(call) PROVE Rest'
  <2>1. call \in Places BY UICallsAssumption
  <2>2. pc' \in [Goroutines -> Places] BY <1>5, <2>1 DEF UICall
  <2> QED BY <1>5, <2>2 DEF UICall
<1>6. CASE TransferEnds \/ CancelLXMFSync
  BY <1>6 DEF TransferEnds, CancelLXMFSync, Use, Goroutines
<1>7. CASE TimePasses
  <2>1. settings' \in [sync : Ages, announce : Ages] BY <1>7 DEF TimePasses
  <2>2. lastSync' \in Ages /\ lastAnnounce' \in Ages BY <1>7 DEF TimePasses
  <2>3. ticks' \in Nat BY <1>7 DEF TimePasses
  <2> QED BY <1>7, <2>1, <2>2, <2>3 DEF TimePasses
<1>8. CASE Quit
  <2>1. pc' \in [Goroutines -> Places] BY <1>8 DEF Quit
  <2> QED BY <1>8, <2>1 DEF Quit
<1>9. CASE ShutdownStep \/ ProcessEnds
  BY <1>9 DEF ShutdownStep, StopJobs, LockAndSave, Close, ProcessEnds
<1>10. CASE UNCHANGED vars BY <1>10
<1> QED BY <1>1, <1>2, <1>3, <1>4, <1>5, <1>6, <1>7, <1>8, <1>9, <1>10 DEF Next

LEMMA TypeStep == ASSUME TypeOK, [Next]_vars PROVE TypeOK'
<1>1. Switches' /\ Marks' /\ Rest' BY TypeParts, SwitchesStep, MarksStep, RestStep
<1>2. TypeOK' <=> Switches' /\ Marks' /\ Rest' BY DEF TypeOK, Switches, Marks, Rest
<1> QED BY <1>1, <1>2

\* The types of Lifecycle hold in every run of the program.
THEOREM TypesHold == Spec => []TypeOK
<1>1. Init => Switches BY DEF Init, Switches
<1>2. Init => Rest BY PlacesListed DEF Init, Rest, Ages, InitSteps
<1>3. Init => TypeOK BY <1>1, <1>2, TypeParts DEF Init, Marks
<1> QED BY <1>3, TypeStep, PTL DEF Spec

-----------------------------------------------------------------------------
(***************************************************************************)
(* LoopsEndBeforeClose is made inductive by where Shutdown is: initRNS,    *)
(* the only one that starts a loop, has ended before the loops are told to *)
(* stop, and each loop is waited for.                                      *)
(***************************************************************************)
ShutdownOrder ==
  /\ main = "off" => init = "none"
  /\ main \in {"stopping", "closing", "closed"} => init \in {"none", "ended"}
  /\ main \in {"closing", "closed"} => pc["jobs"] \in {"none", "gone"}
  /\ main = "closed" => pc["nodeJobs"] \in {"none", "gone"}
  /\ rns = "closed" => main = "closed"
  /\ late \cap Loops = {}
  /\ init # "ended" => \A g \in {"jobs", "starter"} \cap Goroutines : pc[g] = "none"
  /\ init \notin {"spawn", "ended"} =>
       \A g \in {"nodeJobs", "nodeStarter"} \cap Goroutines : pc[g] = "none"

\* A call of a goroutine that has not ended leaves the order as it is.
LEMMA OrderGoroutine ==
  ASSUME TypeOK, ShutdownOrder, NEW g \in Goroutines, GoroutineStep(g)
  PROVE  ShutdownOrder'
<1> USE DEF lifeVars, stopVars, clockVars
<1>1. pc[g] \notin {"none", "gone"}
  BY DEF GoroutineStep, CallStep, AnnounceSend, AnnounceStamp, AnnounceSave, SyncCheck, SyncSave,
     SyncSend, SyncStamp, NodeSave, NodeSend, Wake, SeeStop, JobsCheck, JobsDue, NodeJobsCheck
<1>2. UNCHANGED lifeVars
  BY DEF GoroutineStep, CallStep, AnnounceSend, AnnounceStamp, AnnounceSave, SyncCheck, SyncSave,
     SyncSend, SyncStamp, NodeSave, NodeSend, Wake, SeeStop, JobsCheck, JobsDue, NodeJobsCheck
<1>3. \A h \in Goroutines : h # g => pc'[h] = pc[h]
  BY DEF TypeOK, GoroutineStep, CallStep, AnnounceSend, AnnounceStamp, AnnounceSave, SyncCheck,
     SyncSave, SyncSend, SyncStamp, NodeSave, NodeSend, Wake, SeeStop, JobsCheck, JobsDue,
     NodeJobsCheck
<1>4. late' = late \/ Use(g)
  BY DEF GoroutineStep, CallStep, AnnounceSend, AnnounceStamp, AnnounceSave, SyncCheck, SyncSave,
     SyncSend, SyncStamp, NodeSave, NodeSend, Wake, SeeStop, JobsCheck, JobsDue, NodeJobsCheck
<1>5. "jobs" \in Goroutines /\ "nodeJobs" \in Goroutines BY DEF Goroutines, Loops
<1>6. main \in {"closing", "closed"} => g # "jobs"
  BY <1>1 DEF ShutdownOrder
<1>7. main = "closed" => g # "nodeJobs"
  BY <1>1 DEF ShutdownOrder
<1>8. late' \cap Loops = {}
  BY <1>4, <1>6, <1>7 DEF Use, ShutdownOrder, Loops
<1>9. /\ init # "ended" => g \notin {"jobs", "starter"}
      /\ init \notin {"spawn", "ended"} => g \notin {"nodeJobs", "nodeStarter"}
  BY <1>1 DEF ShutdownOrder
<1> QED BY <1>2, <1>3, <1>5, <1>6, <1>7, <1>8, <1>9 DEF ShutdownOrder

LEMMA OrderStep == ASSUME TypeOK, ShutdownOrder, [Next]_vars PROVE ShutdownOrder'
<1> USE DEF TypeOK, ShutdownOrder, InitSteps, vars, lifeVars, stopVars, clockVars
<1>0. "jobs" \in Goroutines /\ "nodeJobs" \in Goroutines /\ "ui" \in Goroutines
      /\ "ui" \notin Loops
  BY DEF Goroutines, Loops
<1>1. CASE Start BY <1>1, <1>0 DEF Start
<1>2. CASE InitFails BY <1>2 DEF InitFails
<1>3. CASE InitStep
  BY <1>3, <1>0 DEF InitStep, InitReticulum, InitRouter, InitDestination, InitNode, InitSpawn
<1>4. ASSUME NEW g \in Goroutines, GoroutineStep(g) PROVE ShutdownOrder'
  BY <1>4, OrderGoroutine
<1>5. ASSUME NEW call \in UICalls, UICall(call) PROVE ShutdownOrder'
  BY <1>5, <1>0 DEF UICall
<1>6. CASE TransferEnds \/ TimePasses
  BY <1>6 DEF TransferEnds, TimePasses
<1>7. CASE CancelLXMFSync
  <2>1. late' \cap Loops = {} BY <1>7, <1>0 DEF CancelLXMFSync, Use
  <2> QED BY <1>7, <2>1 DEF CancelLXMFSync
<1>8. CASE Quit BY <1>8, <1>0 DEF Quit
<1>9. CASE ShutdownStep BY <1>9 DEF ShutdownStep, StopJobs, LockAndSave, Close
<1>10. CASE ProcessEnds BY <1>10, <1>0 DEF ProcessEnds
<1>11. CASE UNCHANGED vars BY <1>11
<1> QED
  BY <1>1, <1>2, <1>3, <1>4, <1>5, <1>6, <1>7, <1>8, <1>9, <1>10, <1>11 DEF Next

(***************************************************************************)
(* Shutdown, jobs, Node.Jobs: when RNS.Close is called both loops are at   *)
(* their end, and they never use the router afterwards.                    *)
(***************************************************************************)
THEOREM LoopsEnd == Spec => []LoopsEndBeforeClose
<1>1. Init => ShutdownOrder
  BY DEF Init, ShutdownOrder
<1>2. TypeOK /\ ShutdownOrder => LoopsEndBeforeClose
  BY DEF LoopsEndBeforeClose, ShutdownOrder, Loops
<1> QED BY <1>1, <1>2, TypesHold, OrderStep, PTL DEF Spec

-----------------------------------------------------------------------------
(***************************************************************************)
(* The four directions of ClocksAgree.  They rest on what a goroutine      *)
(* between its two writes has written already, if no interval elapsed      *)
(* since (FirstWrites); and when the program starts nobody is there.       *)
(***************************************************************************)
SyncClock ==
  settings.sync = "recent" =>
    lastSync = "recent" \/ \E g \in Goroutines : pc[g] \in {"syncSend", "syncStamp"}

SyncField == lastSync = "recent" => settings.sync = "recent" \/ "sync" \in apart

AnnounceClock == settings.announce = "recent" => lastAnnounce = "recent"

AnnounceField ==
  lastAnnounce = "recent" =>
    \/ settings.announce = "recent" \/ "announce" \in apart
    \/ \E g \in Goroutines : pc[g] = "announceSave"

FirstWrites ==
  \A g \in Goroutines \ aged :
    /\ pc[g] \in {"syncSend", "syncStamp"} => settings.sync = "recent"
    /\ pc[g] = "announceSave" => lastAnnounce = "recent"

Clocks ==
  /\ main # "off" => SyncClock /\ SyncField /\ AnnounceClock /\ AnnounceField
  /\ FirstWrites
  /\ main = "off" => \A g \in Goroutines : pc[g] = "none"

LEMMA ClocksImply == Clocks => ClocksAgree
BY DEF Clocks, ClocksAgree, SyncClock, SyncField, AnnounceClock, AnnounceField

\* A goroutine writes one copy and then the other.
LEMMA ClockGoroutine ==
  ASSUME TypeOK, Clocks, main # "off", NEW g \in Goroutines, GoroutineStep(g)
  PROVE  Clocks'
<1> USE DEF TypeOK, Clocks, SyncClock, SyncField, AnnounceClock, AnnounceField, FirstWrites,
            lifeVars, stopVars, clockVars
<1>1. CASE AnnounceSend(g) BY <1>1 DEF AnnounceSend
<1>2. CASE AnnounceStamp(g) BY <1>2 DEF AnnounceStamp
<1>3. CASE AnnounceSave(g)
  <2>1. /\ main' = main /\ UNCHANGED <<lastSync, lastAnnounce>>
        /\ pc[g] = "announceSave" /\ pc'[g] \in {"idle", "wait", "gone"}
        /\ \A h \in Goroutines : h # g => pc'[h] = pc[h]
        /\ settings'.sync = settings.sync
        /\ aged' = aged \ {g}
        /\ settings'.announce = IF g \in aged THEN "old" ELSE "recent"
        /\ apart' = IF g \in aged THEN apart \cup {"announce"} ELSE apart \ {"announce"}
    BY <1>3 DEF AnnounceSave, Returned
  <2>2. FirstWrites' BY <2>1
  <2>3. SyncClock' /\ SyncField' BY <2>1
  <2>4. AnnounceClock' /\ AnnounceField' BY <2>1
  <2> QED BY <2>1, <2>2, <2>3, <2>4
<1>4. CASE SyncCheck(g) BY <1>4 DEF SyncCheck, Returned
<1>5. CASE SyncSave(g) BY <1>5 DEF SyncSave
<1>6. CASE SyncSend(g) BY <1>6 DEF SyncSend
<1>7. CASE SyncStamp(g)
  <2>1. /\ main' = main /\ UNCHANGED <<settings, lastAnnounce>>
        /\ pc[g] = "syncStamp" /\ pc'[g] \in {"idle", "due", "wait", "gone"}
        /\ \A h \in Goroutines : h # g => pc'[h] = pc[h]
        /\ lastSync' = "recent" /\ aged' = aged \ {g}
        /\ apart' = IF g \in aged THEN apart \cup {"sync"} ELSE apart
    BY <1>7 DEF SyncStamp, Returned
  <2>2. FirstWrites' BY <2>1
  <2>3. SyncClock' /\ SyncField' BY <2>1
  <2>4. AnnounceClock' /\ AnnounceField' BY <2>1
  <2> QED BY <2>1, <2>2, <2>3, <2>4
<1>8. CASE NodeSave(g) \/ NodeSend(g) BY <1>8 DEF NodeSave, NodeSend, Returned
<1>9. CASE Wake(g) \/ SeeStop(g)
  <2>1. /\ pc[g] = "wait" /\ pc'[g] \in {"check", "announce", "nodeSave", "gone"}
        /\ \A h \in Goroutines : h # g => pc'[h] = pc[h]
        /\ UNCHANGED <<main, clockVars>>
    <3>1. g = "ui" \/ g \in Loops \/ g = "starter" \/ g = "nodeStarter"
      BY StartersAssumption DEF Goroutines
    <3> QED BY <1>9, <3>1 DEF Wake, SeeStop, Loops
  <2>2. FirstWrites' BY <2>1
  <2> QED BY <2>1, <2>2
<1>10. CASE g = "jobs" /\ (JobsCheck \/ JobsDue) BY <1>10 DEF JobsCheck, JobsDue
<1>11. CASE g = "nodeJobs" /\ NodeJobsCheck BY <1>11 DEF NodeJobsCheck
<1> QED
  BY <1>1, <1>2, <1>3, <1>4, <1>5, <1>6, <1>7, <1>8, <1>9, <1>10, <1>11
  DEF GoroutineStep, CallStep

LEMMA ClockStep == ASSUME TypeOK, ShutdownOrder, Clocks, [Next]_vars PROVE Clocks'
<1> USE DEF TypeOK, Clocks, SyncClock, SyncField, AnnounceClock, AnnounceField, FirstWrites,
            vars, lifeVars, stopVars, clockVars
<1>1. CASE Start BY <1>1 DEF Start, Ages
<1>2. CASE InitFails BY <1>2 DEF InitFails, InitSteps, ShutdownOrder
<1>3. CASE InitStep
  <2>0. main # "off" BY <1>3 DEF InitStep, InitReticulum, InitRouter, InitDestination, InitNode,
                                 InitSpawn, ShutdownOrder
  <2>1. CASE InitReticulum \/ InitRouter \/ InitDestination
    BY <2>0, <2>1 DEF InitReticulum, InitRouter, InitDestination
  <2>2. CASE InitNode BY <2>0, <2>2 DEF InitNode, ShutdownOrder
  <2>3. CASE InitSpawn BY <2>0, <2>3 DEF InitSpawn, ShutdownOrder
  <2> QED BY <1>3, <2>1, <2>2, <2>3 DEF InitStep
<1>4. ASSUME NEW g \in Goroutines, GoroutineStep(g) PROVE Clocks'
  <2>1. pc[g] # "none"
    BY <1>4 DEF GoroutineStep, CallStep, AnnounceSend, AnnounceStamp, AnnounceSave, SyncCheck,
       SyncSave, SyncSend, SyncStamp, NodeSave, NodeSend, Wake, SeeStop, JobsCheck, JobsDue,
       NodeJobsCheck
  <2> QED BY <1>4, <2>1, ClockGoroutine
<1>5. ASSUME NEW call \in UICalls, UICall(call) PROVE Clocks'
  <2>1. call \in {"announce", "sync"} /\ "ui" \in Goroutines
    BY UICallsAssumption DEF Goroutines
  <2>2. /\ main # "off" /\ pc["ui"] = "idle" /\ pc'["ui"] = call
        /\ \A h \in Goroutines : h # "ui" => pc'[h] = pc[h]
        /\ UNCHANGED <<main, clockVars>>
    BY <1>5, <2>1 DEF UICall
  <2>3. FirstWrites' BY <2>1, <2>2
  <2> QED BY <2>1, <2>2, <2>3
<1>6. CASE TransferEnds \/ CancelLXMFSync BY <1>6 DEF TransferEnds, CancelLXMFSync
<1>7. CASE TimePasses BY <1>7 DEF TimePasses, BetweenWrites
<1>8. CASE Quit BY <1>8 DEF Quit
<1>9. CASE ShutdownStep BY <1>9 DEF ShutdownStep, StopJobs, LockAndSave, Close
<1>10. CASE ProcessEnds BY <1>10 DEF ProcessEnds
<1>11. CASE UNCHANGED vars BY <1>11
<1> QED
  BY <1>1, <1>2, <1>3, <1>4, <1>5, <1>6, <1>7, <1>8, <1>9, <1>10, <1>11 DEF Next

(***************************************************************************)
(* The fields of the job loop and the peer settings agree in both          *)
(* directions, across restarts and in every order of the writes of         *)
(* AnnounceNow and RequestLXMFSync, but for what ClocksAgree excepts.      *)
(***************************************************************************)
THEOREM ClocksStayTogether == Spec => []ClocksAgree
<1>1. Init => Clocks /\ ShutdownOrder
  BY DEF Init, Clocks, SyncClock, SyncField, AnnounceClock, AnnounceField, FirstWrites,
         ShutdownOrder
<1> QED BY <1>1, ClocksImply, TypesHold, ClockStep, OrderStep, PTL DEF Spec
=============================================================================
