----------------------- MODULE ConversationStoreProofs -----------------------
(***************************************************************************)
(* CacheCoherence and ViewIsCurrent of ConversationStore for any number of *)
(* messages, router goroutines and restarts, for file clocks of any        *)
(* resolution, and with the program used while it still comes up: the      *)
(* rescan by modification time leaves no wrong state cached except of the  *)
(* masked messages, and the refreshes leave no wrong row in the open       *)
(* conversation unless one is dropped.  With a fine clock and no use       *)
(* before the router is up nothing is masked.                              *)
(***************************************************************************)
EXTENDS ConversationStore, TLAPS

USE WorkersAssumption, MessagesAssumption, FlagsAssumption, RestartsAssumption,
    NoneAssumption

(***************************************************************************)
(* The inductive invariant.                                                *)
(***************************************************************************)

\* The router has seen every message that is ingested or has a callback due.
Handed ==
  /\ \A m \in due : lxm[m] # "new"
  /\ \A w \in Workers : job[w].pc # "idle" => lxm[job[w].msg] # "new"

\* Every message the UI thread has yet to handle, or is loading, is in memory,
\* and the UI thread ingests nothing meanwhile.
UIShape ==
  /\ ui.cur # None => ui.cur \in ui.todo /\ ui.pc \in {"sort", "show", "purge"}
  /\ ui.cur # None => stamped # "off"
  /\ ui.got # None => ui.cur # None
  /\ ui.todo \subseteq ui.listed
  /\ ui.pc = "scan" => \A m \in ui.listed \ ui.todo : mem[m] # None
  /\ ui.pc \in {"sort", "show", "purge"} => \A m \in ui.todo : mem[m] # None
  /\ ui.pc = "sort" => \A m \in ui.listed : mem[m] # None
  /\ job[UI] # NoJob => ui = Resting

TInv == TypeOK /\ Handed /\ UIShape

\* A sort timestamp is the modification time of the file or an earlier one.
SortsAreOld == \A m \in Messages :
  /\ mem[m] # None => mem[m].sort <= stamp[m]
  /\ index[m] # None => index[m].sort <= stamp[m]

\* Between the read and the check of an envelope that said "outbound", a file
\* with the timestamp that was read still says so, or is masked.
ReadIsFresh ==
  ui.got # None /\ ui.cur \notin masked /\ mem[ui.cur].sort = stamp[ui.cur] /\ file[ui.cur] \in States
    => file[ui.cur] = "outbound"

IInv == TInv /\ SortsAreOld /\ ReadIsFresh /\ CacheCoherence

-----------------------------------------------------------------------------
(***************************************************************************)
(* What the longer steps of the UI thread do to its own state.             *)
(***************************************************************************)

\* A sort that is followed by a display or a purge hands on all the messages.
LEMMA EndSortHandsOn ==
  ASSUME TInv, EndSort, ui.goal # "clear"
  PROVE  /\ ui' \in Activities
         /\ ui'.pc \in {"purge", "show"} /\ ui'.todo = ui.listed
         /\ ui'.listed = ui.listed /\ ui'.cur = None /\ ui'.got = None
         /\ mem' = mem /\ job' = job
<1>1. ui \in Activities /\ ui.cur = None /\ ui.got = None
  BY DEF TInv, TypeOK, UIShape, EndSort
<1>2. ui' = [ui EXCEPT !.pc = IF ui.goal = "purge" THEN "purge" ELSE "show",
                       !.todo = ui.listed]
  BY DEF EndSort
<1>3. mem' = mem /\ job' = job
  BY DEF EndSort
<1> QED
  BY <1>1, <1>2, <1>3 DEF Activities

\* A sort for ClearHistory ends with nothing in hand.
LEMMA EndSortClears ==
  ASSUME TInv, EndSort, ui.goal = "clear"
  PROVE  /\ ui' = [Resting EXCEPT !.pc = "reload"] /\ mem' = NoEntries
         /\ job[UI] = NoJob /\ job'[UI] = NoJob /\ RemoveFiles(ui.listed)
<1>1. job[UI] = NoJob
  BY DEF TInv, UIShape, EndSort, Resting
<1>2. ui' = [Resting EXCEPT !.pc = "reload"] /\ mem' = NoEntries /\ RemoveFiles(ui.listed)
  BY DEF EndSort
<1>3. job'[UI] = NoJob
  BY <1>1, <1>2 DEF RemoveFiles, Workers, NoJob
<1> QED
  BY <1>1, <1>2, <1>3

\* LoadStat touches one message, which is in memory, and keeps it there.
LEMMA LoadStatKeeps ==
  ASSUME TInv, NEW m \in Messages, LoadStat(m)
  PROVE  /\ mem' \in [Messages -> Cached \cup {None}]
         /\ mem[m] \in Cached /\ mem'[m] \in Cached /\ mem'[m].sort = stamp[m]
         /\ \A k \in Messages : k # m => mem'[k] = mem[k]
<1>1. mem \in [Messages -> Cached \cup {None}] /\ mem[m] \in Cached /\ stamp[m] \in Nat
  BY DEF TInv, TypeOK, UIShape, LoadStat
<1>2. CASE stamped = "off"
  <2> DEFINE c == [state |-> mem[m].state, sort |-> stamp[m], loaded |-> TRUE, timed |-> TRUE]
  <2>1. c \in Cached /\ c.sort = stamp[m]
    BY <1>1 DEF Cached
  <2>2. mem' = [mem EXCEPT ![m] = c]
    BY <1>2 DEF LoadStat
  <2> HIDE DEF c
  <2> QED
    BY <1>1, <2>1, <2>2
<1>3. CASE stamped # "off"
  <2> DEFINE c == [mem[m] EXCEPT !.sort = stamp[m]]
  <2>1. c \in Cached /\ c.sort = stamp[m]
    BY <1>1 DEF Cached
  <2>2. mem' = [mem EXCEPT ![m] = c]
    BY <1>3 DEF LoadStat
  <2> HIDE DEF c
  <2> QED
    BY <1>1, <2>1, <2>2
<1> QED
  BY <1>2, <1>3

\* LoadStat may take the message up and leaves the rest of the work alone.
LEMMA LoadStatUI ==
  ASSUME TInv, NEW m \in Messages, LoadStat(m)
  PROVE  /\ ui' \in Activities
         /\ ui'.pc = ui.pc /\ ui'.todo = ui.todo /\ ui'.listed = ui.listed
         /\ ui'.got = ui.got /\ ui.cur = None /\ ui'.cur \in {None, m}
         /\ ui'.cur # None => stamped # "off" /\ stamped' = stamped
         /\ ui.pc \in {"sort", "show", "purge"} /\ m \in ui.todo
<1>1. ui \in Activities /\ mem[m] \in Cached
  BY LoadStatKeeps DEF TInv, TypeOK
<1>2. BeforeLoad(m) \in [msg : Messages, state : States] \cup {None}
  BY <1>1 DEF BeforeLoad, Cached
<1>3. ui.cur = None /\ ui.pc \in {"sort", "show", "purge"} /\ m \in ui.todo
  BY DEF LoadStat
<1>4. /\ stamped' = stamped
      /\ \/ ui' = [ui EXCEPT !.pre = BeforeLoad(m)]
         \/ ui' = [ui EXCEPT !.cur = m, !.pre = BeforeLoad(m)] /\ stamped # "off"
  BY DEF LoadStat
<1>5. PICK p \in [msg : Messages, state : States] \cup {None} :
         \/ ui' = [ui EXCEPT !.pre = p]
         \/ ui' = [ui EXCEPT !.cur = m, !.pre = p] /\ stamped # "off"
  BY <1>2, <1>4
<1>6. CASE ui' = [ui EXCEPT !.pre = p]
  BY <1>1, <1>3, <1>4, <1>6 DEF Activities
<1>7. CASE ui' = [ui EXCEPT !.cur = m, !.pre = p] /\ stamped # "off"
  BY <1>1, <1>3, <1>4, <1>7 DEF Activities
<1> QED
  BY <1>5, <1>6, <1>7

\* What a loaded message becomes.
LEMMA LoadedChanges ==
  ASSUME NEW m \in Messages, mem[m] \in Cached, NEW state \in States \cup {None},
         mem' = Loaded(m, state)
  PROVE  \E c \in Cached : /\ c.state = state /\ c.sort = mem[m].sort
                           /\ mem' = [mem EXCEPT ![m] = c]
<1> DEFINE c == [state |-> state, sort |-> mem[m].sort, loaded |-> TRUE, timed |-> TRUE]
<1>1. c \in Cached /\ c.state = state /\ c.sort = mem[m].sort
  BY DEF Cached
<1>2. mem' = [mem EXCEPT ![m] = c]
  BY DEF Loaded
<1> HIDE DEF c
<1> QED
  BY <1>1, <1>2

\* The message being loaded is in memory and yet to be handled.
LEMMA CurrentIsLoading ==
  ASSUME TInv, ui.cur # None
  PROVE  /\ ui.cur \in ui.todo /\ ui.cur \in Messages /\ mem[ui.cur] \in Cached
         /\ ui.pc \in {"sort", "show", "purge"} /\ file[ui.cur] \in States \cup {"absent", "torn"}
         /\ mem \in [Messages -> Cached \cup {None}] /\ ui \in Activities
<1>1. ui.cur \in ui.todo /\ ui.pc \in {"sort", "show", "purge"} /\ mem[ui.cur] # None
  BY DEF TInv, UIShape
<1>2. ui \in Activities /\ mem \in [Messages -> Cached \cup {None}]
      /\ file \in [Messages -> States \cup {"absent", "torn"}]
  BY DEF TInv, TypeOK
<1>3. ui.cur \in Messages
  BY <1>2 DEF Activities
<1> QED
  BY <1>1, <1>2, <1>3

\* LoadRead ends the load, with the state of the file if it has one, or goes on
\* to the PendingChecker.
LEMMA LoadReadCases ==
  ASSUME TInv, LoadRead
  PROVE  /\ ui.got = None /\ ui.cur # None
         /\ \/ /\ mem' = mem /\ ui' = [ui EXCEPT !.got = "outbound"]
               /\ file[ui.cur] = "outbound"
            \/ /\ ui' = [ui EXCEPT !.cur = None]
               /\ \E c \in Cached :
                    /\ file[ui.cur] \in States => c.state = file[ui.cur]
                    /\ c.sort = mem[ui.cur].sort
                    /\ mem' = [mem EXCEPT ![ui.cur] = c]
<1>1. ui.got = None /\ ui.cur # None
  BY DEF LoadRead
<1>2. ui.cur \in Messages /\ mem[ui.cur] \in Cached
  BY <1>1, CurrentIsLoading
<1>3. mem[ui.cur].state \in States \cup {None} /\ "torn" \notin States
  BY <1>2 DEF Cached, States
<1>4. CASE mem' = mem /\ ui' = [ui EXCEPT !.got = "outbound"] /\ file[ui.cur] = "outbound"
  BY <1>1, <1>4
<1>5. CASE /\ ui' = [ui EXCEPT !.cur = None]
           /\ \E state \in States \cup {None} :
                /\ file[ui.cur] \in States => state = file[ui.cur]
                /\ mem' = Loaded(ui.cur, state)
  <2>1. PICK state \in States \cup {None} :
             /\ file[ui.cur] \in States => state = file[ui.cur]
             /\ mem' = Loaded(ui.cur, state)
    BY <1>5
  <2>2. PICK c \in Cached : /\ c.state = state /\ c.sort = mem[ui.cur].sort
                            /\ mem' = [mem EXCEPT ![ui.cur] = c]
    BY <1>2, <2>1, LoadedChanges
  <2> QED
    BY <1>1, <1>5, <2>1, <2>2
<1> QED
  BY <1>1, <1>3, <1>4, <1>5 DEF LoadRead

\* LoadCheck ends the load with the state the PendingChecker decides on.
LEMMA LoadCheckEnds ==
  ASSUME TInv, LoadCheck
  PROVE  /\ ui.got # None /\ ui.cur # None
         /\ ui' = [ui EXCEPT !.cur = None, !.got = None]
         /\ \E c \in Cached : /\ c.state \in {"outbound", "failed"}
                              /\ c.sort = mem[ui.cur].sort
                              /\ mem' = [mem EXCEPT ![ui.cur] = c]
<1>1. ui.got # None /\ ui.cur # None
  BY DEF TInv, UIShape, LoadCheck
<1>2. ui.cur \in Messages /\ mem[ui.cur] \in Cached
  BY <1>1, CurrentIsLoading
<1>3. PICK state \in {"outbound", "failed"} : mem' = Loaded(ui.cur, state)
  BY DEF LoadCheck
<1>4. state \in States \cup {None}
  BY DEF States
<1>5. PICK c \in Cached : /\ c.state = state /\ c.sort = mem[ui.cur].sort
                          /\ mem' = [mem EXCEPT ![ui.cur] = c]
  BY <1>2, <1>3, <1>4, LoadedChanges
<1>6. ui' = [ui EXCEPT !.cur = None, !.got = None]
  BY DEF LoadCheck
<1> QED
  BY <1>1, <1>3, <1>5, <1>6

\* A scanned file is in memory afterwards: restored from the index, known, or
\* blank.
LEMMA ScanOneMatches ==
  ASSUME TInv, NEW m \in Messages, ScanOne(m)
  PROVE  \E c \in Cached :
           /\ mem' = [mem EXCEPT ![m] = c]
           /\ \/ c = mem[m] /\ mem[m] # None
              \/ c.state = None /\ c.sort = stamp[m]
              \/ index[m] # None /\ c.state = index[m].state /\ c.sort = index[m].sort
<1>1. /\ mem[m] \in Cached \cup {None} /\ stamp[m] \in Nat
      /\ index[m] \in Entries \cup {None}
  BY DEF TInv, TypeOK
<1>2. CASE mem[m] = None /\ index[m] # None /\ ~EnvelopeNewerThanSnapshot(m)
  <2> DEFINE c == [state |-> index[m].state, sort |-> index[m].sort,
                 loaded |-> FALSE, timed |-> TRUE]
  <2>1. mem' = [mem EXCEPT ![m] = c]
    BY <1>2 DEF ScanOne, Discovered
  <2>2. c \in Cached /\ c.state = index[m].state /\ c.sort = index[m].sort
    BY <1>1, <1>2 DEF Cached, Entries
  <2> HIDE DEF c
  <2> QED
    BY <1>2, <2>1, <2>2
<1>3. CASE mem[m] = None /\ ~(index[m] # None /\ ~EnvelopeNewerThanSnapshot(m))
  <2> DEFINE c == [state |-> None, sort |-> stamp[m], loaded |-> FALSE, timed |-> FALSE]
  <2>1. mem' = [mem EXCEPT ![m] = c]
    BY <1>3 DEF ScanOne, Discovered, Blank
  <2>2. c \in Cached /\ c.state = None /\ c.sort = stamp[m]
    BY <1>1 DEF Cached
  <2> HIDE DEF c
  <2> QED
    BY  <2>1, <2>2
<1>4. CASE mem[m] # None /\ stamp[m] > mem[m].sort
  <2> DEFINE c == [state |-> None, sort |-> stamp[m], loaded |-> FALSE, timed |-> mem[m].timed]
  <2>1. mem' = [mem EXCEPT ![m] = c]
    BY <1>4 DEF ScanOne, Rescanned
  <2>2. c \in Cached /\ c.state = None /\ c.sort = stamp[m]
    BY <1>1, <1>4 DEF Cached
  <2> HIDE DEF c
  <2> QED
    BY  <2>1, <2>2
<1>5. CASE mem[m] # None /\ ~(stamp[m] > mem[m].sort)
  BY <1>1, <1>5 DEF ScanOne, Rescanned
<1> QED
  BY <1>2, <1>3, <1>4, <1>5

\* A scan goes on with one message less.
LEMMA ScanOneUI ==
  ASSUME TInv, NEW m \in Messages, ScanOne(m)
  PROVE  /\ ui.pc = "scan" /\ m \in ui.todo /\ ui' \in Activities
         /\ ui'.pc = ui.pc /\ ui'.todo = ui.todo \ {m} /\ ui'.listed = ui.listed
         /\ ui'.cur = ui.cur /\ ui'.got = ui.got
<1>1. ui \in Activities
  BY DEF TInv, TypeOK
<1>2. ui.pc = "scan" /\ m \in ui.todo /\ ui' = [ui EXCEPT !.todo = ui.todo \ {m}]
  BY DEF ScanOne
<1> QED
  BY <1>1, <1>2 DEF Activities

\* A scan keeps what is in memory and adds the file it looked at.
LEMMA ScanOneKeeps ==
  ASSUME TInv, NEW m \in Messages, ScanOne(m)
  PROVE  /\ mem' \in [Messages -> Cached \cup {None}] /\ mem'[m] \in Cached
         /\ \A k \in Messages : k # m => mem'[k] = mem[k]
<1>1. mem \in [Messages -> Cached \cup {None}]
  BY DEF TInv, TypeOK
<1>2. PICK c \in Cached : mem' = [mem EXCEPT ![m] = c]
  BY ScanOneMatches
<1> QED
  BY <1>1, <1>2

\* LoadRead keeps the message in memory ...
LEMMA LoadReadKeeps ==
  ASSUME TInv, LoadRead
  PROVE  /\ mem' \in [Messages -> Cached \cup {None}] /\ mem'[ui.cur] \in Cached
         /\ ui.cur \in Messages /\ mem[ui.cur] \in Cached
         /\ mem'[ui.cur].sort = mem[ui.cur].sort
         /\ \A k \in Messages : k # ui.cur => mem'[k] = mem[k]
<1>1. ui.cur \in Messages /\ mem[ui.cur] \in Cached /\ mem \in [Messages -> Cached \cup {None}]
  BY LoadReadCases, CurrentIsLoading
<1>2. CASE mem' = mem
  BY <1>1, <1>2
<1>3. CASE \E c \in Cached : c.sort = mem[ui.cur].sort /\ mem' = [mem EXCEPT ![ui.cur] = c]
  BY <1>1, <1>3
<1> QED
  BY <1>2, <1>3, LoadReadCases

\* ... and so does LoadCheck.
LEMMA LoadCheckKeeps ==
  ASSUME TInv, LoadCheck
  PROVE  /\ mem' \in [Messages -> Cached \cup {None}] /\ mem'[ui.cur] \in Cached
         /\ ui.cur \in Messages /\ mem[ui.cur] \in Cached
         /\ mem'[ui.cur].sort = mem[ui.cur].sort
         /\ \A k \in Messages : k # ui.cur => mem'[k] = mem[k]
<1>1. ui.cur \in Messages /\ mem[ui.cur] \in Cached /\ mem \in [Messages -> Cached \cup {None}]
  BY LoadCheckEnds, CurrentIsLoading
<1>2. PICK c \in Cached : c.sort = mem[ui.cur].sort /\ mem' = [mem EXCEPT ![ui.cur] = c]
  BY LoadCheckEnds
<1> QED
  BY <1>1, <1>2

\* LoadRead leaves the rest of the work of the UI thread alone.
LEMMA LoadReadUI ==
  ASSUME TInv, LoadRead
  PROVE  /\ ui' \in Activities /\ ui.pc \in {"sort", "show", "purge"}
         /\ ui'.pc = ui.pc /\ ui'.todo = ui.todo /\ ui'.listed = ui.listed
         /\ \/ ui'.cur = ui.cur /\ ui.cur # None /\ mem' = mem /\ file[ui.cur] = "outbound"
            \/ ui'.cur = None /\ ui'.got = None
BY LoadReadCases, CurrentIsLoading DEF Activities

\* LoadCheck has nothing in hand afterwards.
LEMMA LoadCheckUI ==
  ASSUME TInv, LoadCheck
  PROVE  /\ ui' \in Activities /\ ui.pc \in {"sort", "show", "purge"}
         /\ ui'.pc = ui.pc /\ ui'.todo = ui.todo /\ ui'.listed = ui.listed
         /\ ui'.cur = None /\ ui'.got = None
BY LoadCheckEnds, CurrentIsLoading DEF Activities

-----------------------------------------------------------------------------
(***************************************************************************)
(* Type correctness, which rests on Handed and UIShape.                    *)
(***************************************************************************)

\* Every variable keeps its type.
LEMMA TypeStep == TInv /\ [Next]_vars => TypeOK'
<1> SUFFICES ASSUME TInv, [Next]_vars PROVE TypeOK'
  OBVIOUS
<1> USE DEF TInv, TypeOK, Handed, UIShape, Messages, Workers, States, Jobs, NoJob, Resting, Activities,
         Entries, Cached, disk, router, view, history
<1>1. ASSUME InitRNS
      PROVE TypeOK'
  BY <1>1 DEF InitRNS
<1>2. ASSUME NEW m \in Messages, RouterSends(m)
      PROVE TypeOK'
  BY <1>2 DEF RouterSends
<1>3. ASSUME NEW m \in Messages, RouterEnds(m)
      PROVE TypeOK'
  BY <1>3 DEF RouterEnds
<1>4. ASSUME NEW m \in Messages, RouterForgets(m)
      PROVE TypeOK'
  BY <1>4 DEF RouterForgets
<1>5. ASSUME NEW d \in Deliverers, NEW m \in Messages, Deliver(d, m)
      PROVE TypeOK'
  BY <1>5 DEF Deliver, BeginIngest
<1>6. ASSUME NEW d \in Deliverers, NEW m \in Messages, RetryPropagated(d, m)
      PROVE TypeOK'
  BY <1>6 DEF RetryPropagated
<1>7. ASSUME NEW d \in Deliverers, NEW m \in Messages, IngestFinal(d, m)
      PROVE TypeOK'
  BY <1>7 DEF IngestFinal, BeginIngest
<1>8. ASSUME NEW m \in Messages, Send(m)
      PROVE TypeOK'
  BY <1>8 DEF Send, BeginIngest, UIFree
<1>9. ASSUME NEW w \in Workers, Pack(w)
      PROVE TypeOK'
  BY <1>9 DEF Pack
<1>10. ASSUME NEW w \in Workers, WriteEnvelope(w)
      PROVE TypeOK'
  BY <1>10 DEF WriteEnvelope, Touch
<1>11. ASSUME NEW w \in Workers, FillEnvelope(w)
      PROVE TypeOK'
  BY <1>11 DEF FillEnvelope, Touch
<1>12. ASSUME NEW w \in Workers, Notify(w)
      PROVE TypeOK'
  <2>1. job[w].msg \in Messages /\ stamp[job[w].msg] \in Nat
    BY <1>12 DEF Notify
  <2>2. Blank(job[w].msg) \in Cached
    BY <2>1 DEF Blank
  <2>3. mem' \in [Messages -> Cached \cup {None}]
    <3> HIDE DEF Cached
    <3> QED
      BY <2>1, <2>2, <1>12 DEF Notify
  <2>4. ui' \in Activities
    BY <1>12 DEF Notify
  <2>5. job' \in [Workers -> Jobs] /\ refresh' \in BOOLEAN /\ missed' \in BOOLEAN
    BY <1>12 DEF Notify
  <2> QED
    BY <2>3, <2>4, <2>5, <1>12 DEF Notify
<1>13. ASSUME Reload
      PROVE TypeOK'
  <2>1. ui' \in Activities
    BY <1>13 DEF Reload, StartScan, Stored
  <2>2. mem' \in [Messages -> Cached \cup {None}]
    BY <1>13 DEF Reload, StartScan, Stored
  <2>3. stamped' \in {"off", "transport", "router"} /\ missed' \in BOOLEAN
    BY <1>13 DEF Reload, StartScan
  <2> QED
    BY <2>1, <2>2, <2>3, <1>13 DEF Reload
<1>14. ASSUME EndScan
      PROVE TypeOK'
  BY <1>14 DEF EndScan
<1>15. ASSUME EndSort
      PROVE TypeOK'
  <2>1. CASE ui.goal = "clear"
    <3>1. job' \in [Workers -> Jobs]
      BY <2>1, <1>15 DEF EndSort, RemoveFiles
    <3>2. ui' \in Activities /\ mem' \in [Messages -> Cached \cup {None}]
      BY <2>1, <1>15 DEF EndSort, NoEntries
    <3> QED
      BY <2>1, <3>1, <3>2, <1>15 DEF EndSort, Indexed, RemoveFiles
  <2>2. CASE ui.goal # "clear"
    <3>1. ui' \in Activities
      <4> HIDE DEF TInv, Activities, TypeOK, UIShape, Handed
      <4> QED
        BY <2>2, <1>15, EndSortHandsOn
    <3> QED
      BY <2>2, <3>1, <1>15 DEF EndSort, Indexed
  <2> QED
    BY <2>1, <2>2
<1>16. ASSUME EndShow
      PROVE TypeOK'
  BY <1>16 DEF EndShow, Indexed
<1>17. ASSUME EndPurge
      PROVE TypeOK'
  BY <1>17 DEF EndPurge
<1>18. ASSUME NEW m \in Messages, LoadStat(m)
      PROVE TypeOK'
  <2>1. mem' \in [Messages -> Cached \cup {None}] /\ ui' \in Activities
    BY <1>18, LoadStatKeeps, LoadStatUI
  <2> QED
    BY <2>1, <1>18 DEF LoadStat
<1>19. ASSUME LoadRead
      PROVE TypeOK'
  <2>1. ui' \in Activities
    BY <1>19, LoadReadUI
  <2>2. mem' \in [Messages -> Cached \cup {None}]
    BY <1>19, LoadReadKeeps
  <2> QED
    BY <2>1, <2>2, <1>19 DEF LoadRead
<1>20. ASSUME LoadCheck
      PROVE TypeOK'
  <2>1. ui' \in Activities
    BY <1>20, LoadCheckUI
  <2>2. mem' \in [Messages -> Cached \cup {None}]
    BY <1>20, LoadCheckKeeps
  <2> QED
    BY <2>1, <2>2, <1>20 DEF LoadCheck
<1>21. ASSUME NEW m \in Messages, ScanOne(m)
      PROVE TypeOK'
  <2>1. ui' \in Activities
    BY <1>21, ScanOneUI
  <2>2. mem' \in [Messages -> Cached \cup {None}]
    BY <1>21, ScanOneKeeps
  <2> QED
    BY <2>1, <2>2, <1>21 DEF ScanOne
<1>22. ASSUME NEW m \in Messages, ShowOne(m)
      PROVE TypeOK'
  <2>1. mem' \in [Messages -> Cached \cup {None}]
    BY <1>22 DEF ShowOne
  <2>2. ui' \in Activities
    BY <1>22 DEF ShowOne
  <2>3. shown' \in [Messages -> States \cup {"unknown", None}]
    BY <1>22 DEF ShowOne
  <2> QED
    BY <2>1, <2>2, <2>3, <1>22 DEF ShowOne
<1>23. ASSUME NEW m \in Messages, PurgeOne(m)
      PROVE TypeOK'
  BY <1>23 DEF PurgeOne, RemoveFiles, NeedsLoad
<1>24. ASSUME OpenConversation
      PROVE TypeOK'
  BY <1>24 DEF OpenConversation, UIFree
<1>25. ASSUME CloseConversation
      PROVE TypeOK'
  <2>1. mem' \in [Messages -> Cached \cup {None}]
    BY <1>25 DEF CloseConversation, UIFree, NoEntries
  <2>2. ui' \in Activities
    BY <1>25 DEF CloseConversation, UIFree, NoEntries
  <2>3. shown' \in [Messages -> States \cup {"unknown", None}]
    BY <1>25 DEF CloseConversation, UIFree, NoEntries
  <2> QED
    BY <2>1, <2>2, <2>3, <1>25 DEF CloseConversation, UIFree, NoEntries
<1>26. ASSUME BeginPurge \/ BeginClear
      PROVE TypeOK'
  BY <1>26 DEF BeginPurge, BeginClear, StartScan, Stored, UIFree
<1>27. ASSUME DeleteConversation
      PROVE TypeOK'
  BY <1>27 DEF DeleteConversation, UIFree, NoEntries
<1>28. ASSUME RunRefresh
      PROVE TypeOK'
  BY <1>28 DEF RunRefresh, UIFree
<1>29. ASSUME Restart
      PROVE TypeOK'
  <2>1. mem' \in [Messages -> Cached \cup {None}]
    BY <1>29 DEF Restart, NoEntries
  <2>2. ui' \in Activities /\ job' \in [Workers -> Jobs]
    BY <1>29 DEF Restart
  <2>3. index' \in [Messages -> Entries \cup {None}]
    BY <1>29 DEF Restart, NoEntries
  <2>4. restarts' \in 0..MaxRestarts
    BY <1>29 DEF Restart
  <2>5. queued' \in SUBSET Outbound /\ due' \in SUBSET Outbound
    BY <1>29 DEF Restart
  <2>6. shown' \in [Messages -> States \cup {"unknown", None}]
    BY <1>29 DEF Restart, NoEntries
  <2> QED
    BY <2>1, <2>2, <2>3, <2>4, <2>5, <2>6, <1>29 DEF Restart
<1>30. ASSUME UNCHANGED vars
      PROVE TypeOK'
  BY <1>30 DEF vars, disk, router, view, history
<1>31. ASSUME NEW m \in Messages, RouterRetries(m)
      PROVE TypeOK'
  BY <1>31 DEF RouterRetries
<1>32. ASSUME DropRefresh
      PROVE TypeOK'
  <2>1. missed' \in BOOLEAN /\ refresh' \in BOOLEAN
    BY <1>32, Zenon DEF DropRefresh
  <2> QED
    BY <2>1, <1>32 DEF DropRefresh
<1> QED
  BY <1>1, <1>2, <1>3, <1>4, <1>5, <1>6, <1>7, <1>8, <1>9, <1>10, <1>11, <1>12,
     <1>13, <1>14, <1>15, <1>16, <1>17, <1>18, <1>19, <1>20, <1>21, <1>22, <1>23, <1>24,
     <1>25, <1>26, <1>27, <1>28, <1>29, <1>30, <1>31, <1>32
  DEF Next, RouterStep, Callback, MessageNotification, IngestStep, UIStep,
      LoadStep, UserAction

\* Handed is inductive.
LEMMA HandedStep == TInv /\ [Next]_vars => Handed'
<1> SUFFICES ASSUME TInv, [Next]_vars PROVE Handed'
  OBVIOUS
<1> USE DEF TInv, TypeOK, Handed, Messages, Workers, Jobs, NoJob, disk, router, view, history
<1>1. ASSUME InitRNS
      PROVE Handed'
  BY <1>1 DEF InitRNS
<1>2. ASSUME NEW m \in Messages, RouterSends(m)
      PROVE Handed'
  BY <1>2 DEF RouterSends
<1>3. ASSUME NEW m \in Messages, RouterEnds(m)
      PROVE Handed'
  BY <1>3 DEF RouterEnds
<1>4. ASSUME NEW m \in Messages, RouterForgets(m)
      PROVE Handed'
  BY <1>4 DEF RouterForgets
<1>5. ASSUME NEW d \in Deliverers, NEW m \in Messages, Deliver(d, m)
      PROVE Handed'
  BY <1>5 DEF Deliver, BeginIngest
<1>6. ASSUME NEW d \in Deliverers, NEW m \in Messages, RetryPropagated(d, m)
      PROVE Handed'
  BY <1>6 DEF RetryPropagated
<1>7. ASSUME NEW d \in Deliverers, NEW m \in Messages, IngestFinal(d, m)
      PROVE Handed'
  BY <1>7 DEF IngestFinal, BeginIngest
<1>8. ASSUME NEW m \in Messages, Send(m)
      PROVE Handed'
  BY <1>8 DEF Send, BeginIngest, UIFree
<1>9. ASSUME NEW w \in Workers, Pack(w)
      PROVE Handed'
  BY <1>9 DEF Pack
<1>10. ASSUME NEW w \in Workers, WriteEnvelope(w)
      PROVE Handed'
  BY <1>10 DEF WriteEnvelope, Touch
<1>11. ASSUME NEW w \in Workers, FillEnvelope(w)
      PROVE Handed'
  BY <1>11 DEF FillEnvelope, Touch
<1>12. ASSUME NEW w \in Workers, Notify(w)
      PROVE Handed'
  BY <1>12 DEF Notify, Blank
<1>13. ASSUME Reload
      PROVE Handed'
  BY <1>13 DEF Reload, StartScan, Stored
<1>14. ASSUME EndScan
      PROVE Handed'
  BY <1>14 DEF EndScan
<1>15. ASSUME EndSort
      PROVE Handed'
  BY <1>15 DEF EndSort, Indexed, RemoveFiles, NoEntries, Todo, NeedsLoad
<1>16. ASSUME EndShow
      PROVE Handed'
  BY <1>16 DEF EndShow, Indexed
<1>17. ASSUME EndPurge
      PROVE Handed'
  BY <1>17 DEF EndPurge
<1>18. ASSUME NEW m \in Messages, LoadStat(m)
      PROVE Handed'
  BY <1>18 DEF LoadStat, BeforeLoad
<1>19. ASSUME LoadRead
      PROVE Handed'
  BY <1>19 DEF LoadRead, Loaded
<1>20. ASSUME LoadCheck
      PROVE Handed'
  BY <1>20 DEF LoadCheck, Loaded
<1>21. ASSUME NEW m \in Messages, ScanOne(m)
      PROVE Handed'
  BY <1>21 DEF ScanOne, Discovered, Rescanned, Blank, EnvelopeNewerThanSnapshot
<1>22. ASSUME NEW m \in Messages, ShowOne(m)
      PROVE Handed'
  BY <1>22 DEF ShowOne
<1>23. ASSUME NEW m \in Messages, PurgeOne(m)
      PROVE Handed'
  BY <1>23 DEF PurgeOne, RemoveFiles, NeedsLoad
<1>24. ASSUME OpenConversation
      PROVE Handed'
  BY <1>24 DEF OpenConversation, UIFree
<1>25. ASSUME CloseConversation
      PROVE Handed'
  BY <1>25 DEF CloseConversation, UIFree, NoEntries
<1>26. ASSUME BeginPurge \/ BeginClear
      PROVE Handed'
  BY <1>26 DEF BeginPurge, BeginClear, StartScan, Stored, UIFree
<1>27. ASSUME DeleteConversation
      PROVE Handed'
  BY <1>27 DEF DeleteConversation, UIFree, NoEntries
<1>28. ASSUME RunRefresh
      PROVE Handed'
  BY <1>28 DEF RunRefresh, UIFree
<1>29. ASSUME Restart
      PROVE Handed'
  BY <1>29 DEF Restart, NoEntries
<1>30. ASSUME UNCHANGED vars
      PROVE Handed'
  BY <1>30 DEF vars, disk, router, view, history
<1>31. ASSUME NEW m \in Messages, RouterRetries(m)
      PROVE Handed'
  BY <1>31 DEF RouterRetries
<1>32. ASSUME DropRefresh
      PROVE Handed'
  BY <1>32 DEF DropRefresh
<1> QED
  BY <1>1, <1>2, <1>3, <1>4, <1>5, <1>6, <1>7, <1>8, <1>9, <1>10, <1>11, <1>12,
     <1>13, <1>14, <1>15, <1>16, <1>17, <1>18, <1>19, <1>20, <1>21, <1>22, <1>23, <1>24,
     <1>25, <1>26, <1>27, <1>28, <1>29, <1>30, <1>31, <1>32
  DEF Next, RouterStep, Callback, MessageNotification, IngestStep, UIStep,
      LoadStep, UserAction

\* UIShape is inductive.
LEMMA ShapeStep == TInv /\ [Next]_vars => UIShape'
<1> SUFFICES ASSUME TInv, [Next]_vars PROVE UIShape'
  OBVIOUS
<1> USE DEF TInv, TypeOK, UIShape, Messages, Workers, Jobs, NoJob, Resting, Activities,
         Cached, disk, router, view, history
<1>1. ASSUME InitRNS
      PROVE UIShape'
  BY <1>1 DEF InitRNS
<1>2. ASSUME NEW m \in Messages, RouterSends(m)
      PROVE UIShape'
  BY <1>2 DEF RouterSends
<1>3. ASSUME NEW m \in Messages, RouterEnds(m)
      PROVE UIShape'
  BY <1>3 DEF RouterEnds
<1>4. ASSUME NEW m \in Messages, RouterForgets(m)
      PROVE UIShape'
  BY <1>4 DEF RouterForgets
<1>5. ASSUME NEW d \in Deliverers, NEW m \in Messages, Deliver(d, m)
      PROVE UIShape'
  BY <1>5 DEF Deliver, BeginIngest
<1>6. ASSUME NEW d \in Deliverers, NEW m \in Messages, RetryPropagated(d, m)
      PROVE UIShape'
  BY <1>6 DEF RetryPropagated
<1>7. ASSUME NEW d \in Deliverers, NEW m \in Messages, IngestFinal(d, m)
      PROVE UIShape'
  BY <1>7 DEF IngestFinal, BeginIngest
<1>8. ASSUME NEW m \in Messages, Send(m)
      PROVE UIShape'
  BY <1>8 DEF Send, BeginIngest, UIFree
<1>9. ASSUME NEW w \in Workers, Pack(w)
      PROVE UIShape'
  BY <1>9 DEF Pack
<1>10. ASSUME NEW w \in Workers, WriteEnvelope(w)
      PROVE UIShape'
  BY <1>10 DEF WriteEnvelope, Touch
<1>11. ASSUME NEW w \in Workers, FillEnvelope(w)
      PROVE UIShape'
  BY <1>11 DEF FillEnvelope, Touch
<1>12. ASSUME NEW w \in Workers, Notify(w)
      PROVE UIShape'
  BY <1>12 DEF Notify, Blank
<1>13. ASSUME Reload
      PROVE UIShape'
  BY <1>13 DEF Reload, StartScan, Stored
<1>14. ASSUME EndScan
      PROVE UIShape'
  BY <1>14 DEF EndScan
<1>15. ASSUME EndSort
      PROVE UIShape'
  <2>1. CASE ui.goal = "clear"
    BY <2>1, <1>15, EndSortClears DEF Resting
  <2>2. CASE ui.goal # "clear"
    <3>1. ui.pc = "sort"
      BY <1>15 DEF EndSort
    <3> QED
      BY <2>2, <3>1, <1>15, EndSortHandsOn
  <2> QED
    BY <2>1, <2>2
<1>16. ASSUME EndShow
      PROVE UIShape'
  BY <1>16 DEF EndShow, Indexed
<1>17. ASSUME EndPurge
      PROVE UIShape'
  BY <1>17 DEF EndPurge
<1>18. ASSUME NEW m \in Messages, LoadStat(m)
      PROVE UIShape'
  <2>1. \A k \in Messages : mem[k] # None => mem'[k] # None
    BY <1>18, LoadStatKeeps
  <2>2. job' = job
    BY <1>18 DEF LoadStat
  <2> QED
    BY <2>1, <2>2, <1>18, LoadStatUI
<1>19. ASSUME LoadRead
      PROVE UIShape'
  <2>1. \A k \in Messages : mem[k] # None => mem'[k] # None
    BY <1>19, LoadReadKeeps
  <2>2. job' = job /\ stamped' = stamped
    BY <1>19 DEF LoadRead
  <2> QED
    BY <2>1, <2>2, <1>19, LoadReadUI
<1>20. ASSUME LoadCheck
      PROVE UIShape'
  <2>1. \A k \in Messages : mem[k] # None => mem'[k] # None
    BY <1>20, LoadCheckKeeps
  <2>2. job' = job /\ stamped' = stamped
    BY <1>20 DEF LoadCheck
  <2> QED
    BY <2>1, <2>2, <1>20, LoadCheckUI
<1>21. ASSUME NEW m \in Messages, ScanOne(m)
      PROVE UIShape'
  <2>1. mem'[m] # None /\ \A k \in Messages : mem[k] # None => mem'[k] # None
    BY <1>21, ScanOneKeeps
  <2>2. job' = job
    BY <1>21 DEF ScanOne
  <2> QED
    BY <2>1, <2>2, <1>21, ScanOneUI
<1>22. ASSUME NEW m \in Messages, ShowOne(m)
      PROVE UIShape'
  BY <1>22 DEF ShowOne
<1>23. ASSUME NEW m \in Messages, PurgeOne(m)
      PROVE UIShape'
  BY <1>23 DEF PurgeOne, RemoveFiles, NeedsLoad
<1>24. ASSUME OpenConversation
      PROVE UIShape'
  BY <1>24 DEF OpenConversation, UIFree
<1>25. ASSUME CloseConversation
      PROVE UIShape'
  BY <1>25 DEF CloseConversation, UIFree, NoEntries
<1>26. ASSUME BeginPurge \/ BeginClear
      PROVE UIShape'
  BY <1>26 DEF BeginPurge, BeginClear, StartScan, Stored, UIFree
<1>27. ASSUME DeleteConversation
      PROVE UIShape'
  BY <1>27 DEF DeleteConversation, UIFree, NoEntries
<1>28. ASSUME RunRefresh
      PROVE UIShape'
  BY <1>28 DEF RunRefresh, UIFree
<1>29. ASSUME Restart
      PROVE UIShape'
  BY <1>29 DEF Restart, NoEntries
<1>30. ASSUME UNCHANGED vars
      PROVE UIShape'
  BY <1>30 DEF vars, disk, router, view, history
<1>31. ASSUME NEW m \in Messages, RouterRetries(m)
      PROVE UIShape'
  BY <1>31 DEF RouterRetries
<1>32. ASSUME DropRefresh
      PROVE UIShape'
  BY <1>32 DEF DropRefresh
<1> QED
  BY <1>1, <1>2, <1>3, <1>4, <1>5, <1>6, <1>7, <1>8, <1>9, <1>10, <1>11, <1>12,
     <1>13, <1>14, <1>15, <1>16, <1>17, <1>18, <1>19, <1>20, <1>21, <1>22, <1>23, <1>24,
     <1>25, <1>26, <1>27, <1>28, <1>29, <1>30, <1>31, <1>32
  DEF Next, RouterStep, Callback, MessageNotification, IngestStep, UIStep,
      LoadStep, UserAction

-----------------------------------------------------------------------------
(***************************************************************************)
(* The coherence of the caches.                                            *)
(***************************************************************************)

\* SortsAreOld is inductive.
LEMMA SortsStep == TInv /\ SortsAreOld /\ [Next]_vars => SortsAreOld'
<1> SUFFICES ASSUME TInv, SortsAreOld, [Next]_vars PROVE SortsAreOld'
  OBVIOUS
<1> USE DEF SortsAreOld, Cached, Entries, disk, router, view, history
<1> /\ mem \in [Messages -> Cached \cup {None}] /\ stamp \in [Messages -> Nat]
    /\ index \in [Messages -> Entries \cup {None}] /\ job \in [Workers -> Jobs]
  BY DEF TInv, TypeOK
<1> /\ mem' \in [Messages -> Cached \cup {None}] /\ stamp' \in [Messages -> Nat]
    /\ index' \in [Messages -> Entries \cup {None}]
  BY TypeStep DEF TypeOK
<1>1. ASSUME InitRNS
      PROVE SortsAreOld'
  BY <1>1 DEF InitRNS
<1>2. ASSUME NEW m \in Messages, RouterSends(m)
      PROVE SortsAreOld'
  BY <1>2 DEF RouterSends
<1>3. ASSUME NEW m \in Messages, RouterEnds(m)
      PROVE SortsAreOld'
  BY <1>3 DEF RouterEnds
<1>4. ASSUME NEW m \in Messages, RouterForgets(m)
      PROVE SortsAreOld'
  BY <1>4 DEF RouterForgets
<1>5. ASSUME NEW d \in Deliverers, NEW m \in Messages, Deliver(d, m)
      PROVE SortsAreOld'
  BY <1>5 DEF Deliver, BeginIngest
<1>6. ASSUME NEW d \in Deliverers, NEW m \in Messages, RetryPropagated(d, m)
      PROVE SortsAreOld'
  BY <1>6 DEF RetryPropagated
<1>7. ASSUME NEW d \in Deliverers, NEW m \in Messages, IngestFinal(d, m)
      PROVE SortsAreOld'
  BY <1>7 DEF IngestFinal, BeginIngest
<1>8. ASSUME NEW m \in Messages, Send(m)
      PROVE SortsAreOld'
  BY <1>8 DEF Send, BeginIngest, UIFree
<1>9. ASSUME NEW w \in Workers, Pack(w)
      PROVE SortsAreOld'
  BY <1>9 DEF Pack
<1>10. ASSUME NEW w \in Workers, WriteEnvelope(w)
      PROVE SortsAreOld'
  BY <1>10 DEF WriteEnvelope, Touch
<1>11. ASSUME NEW w \in Workers, FillEnvelope(w)
      PROVE SortsAreOld'
  BY <1>11 DEF FillEnvelope, Touch
<1>12. ASSUME NEW w \in Workers, Notify(w)
      PROVE SortsAreOld'
  BY <1>12 DEF Notify, Blank
<1>13. ASSUME Reload
      PROVE SortsAreOld'
  BY <1>13 DEF Reload, StartScan, Stored
<1>14. ASSUME EndScan
      PROVE SortsAreOld'
  BY <1>14 DEF EndScan
<1>15. ASSUME EndSort
      PROVE SortsAreOld'
  <2>1. \A k \in Messages : index'[k] # None =>
           (index'[k].sort = mem[k].sort /\ mem[k] # None) \/ index'[k] = index[k]
    BY <1>15 DEF EndSort, Indexed
  <2>2. stamp' = stamp /\ \A k \in Messages : mem'[k] \in {mem[k], None}
    BY <1>15 DEF EndSort, NoEntries
  <2> QED
    BY <2>1, <2>2
<1>16. ASSUME EndShow
      PROVE SortsAreOld'
  <2>1. \A k \in Messages : index'[k] # None =>
           (index'[k].sort = mem[k].sort /\ mem[k] # None) \/ index'[k] = index[k]
    BY <1>16 DEF EndShow, Indexed
  <2>2. stamp' = stamp /\ \A k \in Messages : mem'[k] \in {mem[k], None}
    BY <1>16 DEF EndShow, NoEntries
  <2> QED
    BY <2>1, <2>2
<1>17. ASSUME EndPurge
      PROVE SortsAreOld'
  BY <1>17 DEF EndPurge
<1>18. ASSUME NEW m \in Messages, LoadStat(m)
      PROVE SortsAreOld'
  <2>1. stamp' = stamp /\ index' = index
    BY <1>18 DEF LoadStat, disk
  <2> QED
    BY <2>1, <1>18, LoadStatKeeps
<1>19. ASSUME LoadRead
      PROVE SortsAreOld'
  <2>1. stamp' = stamp /\ index' = index
    BY <1>19 DEF LoadRead, disk
  <2> QED
    BY <2>1, <1>19, LoadReadKeeps
<1>20. ASSUME LoadCheck
      PROVE SortsAreOld'
  <2>1. stamp' = stamp /\ index' = index
    BY <1>20 DEF LoadCheck, disk
  <2> QED
    BY <2>1, <1>20, LoadCheckKeeps
<1>21. ASSUME NEW m \in Messages, ScanOne(m)
      PROVE SortsAreOld'
  <2>1. stamp' = stamp /\ index' = index
    BY <1>21 DEF ScanOne, disk
  <2> QED
    BY <2>1, <1>21, ScanOneMatches
<1>22. ASSUME NEW m \in Messages, ShowOne(m)
      PROVE SortsAreOld'
  BY <1>22 DEF ShowOne
<1>23. ASSUME NEW m \in Messages, PurgeOne(m)
      PROVE SortsAreOld'
  BY <1>23 DEF PurgeOne, RemoveFiles, NeedsLoad
<1>24. ASSUME OpenConversation
      PROVE SortsAreOld'
  BY <1>24 DEF OpenConversation, UIFree
<1>25. ASSUME CloseConversation
      PROVE SortsAreOld'
  BY <1>25 DEF CloseConversation, UIFree, NoEntries
<1>26. ASSUME BeginPurge \/ BeginClear
      PROVE SortsAreOld'
  BY <1>26 DEF BeginPurge, BeginClear, StartScan, Stored, UIFree
<1>27. ASSUME DeleteConversation
      PROVE SortsAreOld'
  BY <1>27 DEF DeleteConversation, UIFree, NoEntries
<1>28. ASSUME RunRefresh
      PROVE SortsAreOld'
  BY <1>28 DEF RunRefresh, UIFree
<1>29. ASSUME Restart
      PROVE SortsAreOld'
  BY <1>29 DEF Restart, NoEntries
<1>30. ASSUME UNCHANGED vars
      PROVE SortsAreOld'
  BY <1>30 DEF vars, disk, router, view, history
<1>31. ASSUME NEW m \in Messages, RouterRetries(m)
      PROVE SortsAreOld'
  BY <1>31 DEF RouterRetries
<1>32. ASSUME DropRefresh
      PROVE SortsAreOld'
  BY <1>32 DEF DropRefresh
<1> QED
  BY <1>1, <1>2, <1>3, <1>4, <1>5, <1>6, <1>7, <1>8, <1>9, <1>10, <1>11, <1>12,
     <1>13, <1>14, <1>15, <1>16, <1>17, <1>18, <1>19, <1>20, <1>21, <1>22, <1>23, <1>24,
     <1>25, <1>26, <1>27, <1>28, <1>29, <1>30, <1>31, <1>32
  DEF Next, RouterStep, Callback, MessageNotification, IngestStep, UIStep,
      LoadStep, UserAction

\* None is no message, no state and no record of a message.
LEMMA NoneApart == None \notin States /\ None \notin Messages /\ None \notin Cached
BY Zenon, NoneAssumption

\* After a write of m no cache carries the time of its file, or m is masked.
LEMMA TouchIsSeen ==
  ASSUME TypeOK, SortsAreOld, NEW m \in Messages, Touch(m)
  PROVE  /\ mem[m] # None => mem[m].sort # stamp'[m] \/ m \in masked'
         /\ index[m] # None => index[m].sort # stamp'[m] \/ m \in masked'
<1>1. stamp \in [Messages -> Nat] /\ stamp[m] \in Nat
  BY DEF TypeOK
<1>2. /\ mem[m] # None => mem[m].sort \in Nat /\ mem[m].sort <= stamp[m]
      /\ index[m] # None => index[m].sort \in Nat /\ index[m].sort <= stamp[m]
  BY DEF TypeOK, SortsAreOld, Cached, Entries
<1>3. CASE stamp' = [stamp EXCEPT ![m] = stamp[m] + 1]
  <2>1. stamp'[m] = stamp[m] + 1
    BY <1>1, <1>3
  <2> QED
    BY <1>1, <1>2, <2>1
<1>4. CASE stamp' = stamp /\ (m \notin masked' => ~TimeIsCached(m))
  BY <1>4 DEF TimeIsCached
<1> QED
  BY <1>3, <1>4 DEF Touch

\* ReadIsFresh is inductive: a write that leaves the time of a file that is being
\* loaded alone masks it.
LEMMA FreshStep == TInv /\ SortsAreOld /\ ReadIsFresh /\ [Next]_vars => ReadIsFresh'
<1> SUFFICES ASSUME TInv, SortsAreOld, ReadIsFresh, [Next]_vars PROVE ReadIsFresh'
  OBVIOUS
<1> USE DEF ReadIsFresh, SortsAreOld, Cached, Entries, Workers, disk, router, view, history
<1> /\ mem \in [Messages -> Cached \cup {None}] /\ stamp \in [Messages -> Nat]
    /\ index \in [Messages -> Entries \cup {None}] /\ job \in [Workers -> Jobs]
  BY DEF TInv, TypeOK
<1> /\ mem' \in [Messages -> Cached \cup {None}] /\ stamp' \in [Messages -> Nat]
    /\ index' \in [Messages -> Entries \cup {None}]
  BY TypeStep DEF TypeOK
<1> ui \in Activities /\ file \in [Messages -> States \cup {"absent", "torn"}]
  BY DEF TInv, TypeOK
<1> ui.cur # None => ui.cur \in Messages /\ mem[ui.cur] \in Cached
  BY CurrentIsLoading
<1> ui.got # None => ui.cur # None
  BY DEF TInv, UIShape
<1> None \notin Cached
  BY NoneApart
<1> "torn" \notin States /\ "absent" \notin States
  BY DEF States
<1>1. ASSUME InitRNS
      PROVE ReadIsFresh'
  BY <1>1 DEF InitRNS
<1>2. ASSUME NEW m \in Messages, RouterSends(m)
      PROVE ReadIsFresh'
  BY <1>2 DEF RouterSends
<1>3. ASSUME NEW m \in Messages, RouterEnds(m)
      PROVE ReadIsFresh'
  BY <1>3 DEF RouterEnds
<1>4. ASSUME NEW m \in Messages, RouterForgets(m)
      PROVE ReadIsFresh'
  BY <1>4 DEF RouterForgets
<1>5. ASSUME NEW d \in Deliverers, NEW m \in Messages, Deliver(d, m)
      PROVE ReadIsFresh'
  BY <1>5 DEF Deliver, BeginIngest
<1>6. ASSUME NEW d \in Deliverers, NEW m \in Messages, RetryPropagated(d, m)
      PROVE ReadIsFresh'
  BY <1>6 DEF RetryPropagated
<1>7. ASSUME NEW d \in Deliverers, NEW m \in Messages, IngestFinal(d, m)
      PROVE ReadIsFresh'
  BY <1>7 DEF IngestFinal, BeginIngest
<1>8. ASSUME NEW m \in Messages, Send(m)
      PROVE ReadIsFresh'
  BY <1>8 DEF Send, BeginIngest, UIFree
<1>9. ASSUME NEW w \in Workers, Pack(w)
      PROVE ReadIsFresh'
  BY <1>9 DEF Pack
<1>10. ASSUME NEW w \in Workers, WriteEnvelope(w)
      PROVE ReadIsFresh'
  <2>1. mem' = mem /\ ui' = ui /\ file' = [file EXCEPT ![job[w].msg] = "torn"]
    BY <1>10 DEF WriteEnvelope
  <2>2. \A k \in Messages : \/ stamp'[k] = stamp[k] /\ (k \in masked => k \in masked')
                            \/ file'[k] = "torn"
    BY <2>1, <1>10 DEF WriteEnvelope, Touch
  <2> QED
    BY <2>1, <2>2
<1>11. ASSUME NEW w \in Workers, FillEnvelope(w)
      PROVE ReadIsFresh'
  <2> DEFINE m == job[w].msg
  <2>1. mem' = mem /\ ui' = ui
    BY <1>11 DEF FillEnvelope
  <2>2. CASE file' = file /\ stamp' = stamp /\ masked' = masked
    BY <2>1, <2>2
  <2>3. CASE job[w].pc = "fill" /\ file' = [file EXCEPT ![m] = job[w].val] /\ Touch(m)
    <3>1. m \in Messages
      BY <2>3 DEF Jobs, NoJob
    <3>2. \A k \in Messages : k # m =>
             file'[k] = file[k] /\ stamp'[k] = stamp[k] /\ (k \in masked => k \in masked')
      BY <2>3 DEF Touch
    <3>3. TypeOK
      BY DEF TInv
    <3>4. mem[m] # None => mem[m].sort # stamp'[m] \/ m \in masked'
      BY <2>3, <3>1, <3>3, TouchIsSeen
    <3> HIDE DEF m
    <3> QED
      BY <2>1, <3>1, <3>2, <3>4
  <2> QED
    BY <2>2, <2>3, <1>11 DEF FillEnvelope
<1>12. ASSUME NEW w \in Workers, Notify(w)
      PROVE ReadIsFresh'
  <2>1. w = UI => ui.got = None
    BY <1>12 DEF Notify, TInv, UIShape, NoJob, Resting
  <2>2. /\ file' = file /\ stamp' = stamp /\ masked' = masked /\ ui'.got = ui.got
        /\ w # UI => ui' = ui /\ mem' = mem
    BY <1>12 DEF Notify, Activities
  <2> QED
    BY <2>1, <2>2
<1>13. ASSUME Reload
      PROVE ReadIsFresh'
  <2>1. ui'.got = None
    BY <1>13 DEF Reload, StartScan, Resting
  <2> QED
    BY <2>1
<1>14. ASSUME EndScan
      PROVE ReadIsFresh'
  BY <1>14 DEF EndScan
<1>15. ASSUME EndSort
      PROVE ReadIsFresh'
  <2>1. ui'.got = None
    BY <1>15, EndSortHandsOn, EndSortClears DEF Resting
  <2> QED
    BY <2>1
<1>16. ASSUME EndShow
      PROVE ReadIsFresh'
  <2>1. ui'.got = None
    BY <1>16 DEF EndShow, Resting
  <2> QED
    BY <2>1
<1>17. ASSUME EndPurge
      PROVE ReadIsFresh'
  <2>1. ui'.got = None
    BY <1>17 DEF EndPurge, Resting
  <2> QED
    BY <2>1
<1>18. ASSUME NEW m \in Messages, LoadStat(m)
      PROVE ReadIsFresh'
  <2>1. ui'.got = None
    BY <1>18, LoadStatUI
  <2> QED
    BY <2>1
<1>19. ASSUME LoadRead
      PROVE ReadIsFresh'
  <2>1. file' = file /\ stamp' = stamp
    BY <1>19 DEF LoadRead
  <2> QED
    BY <2>1, <1>19, LoadReadUI
<1>20. ASSUME LoadCheck
      PROVE ReadIsFresh'
  <2>1. ui'.got = None
    BY <1>20, LoadCheckEnds DEF Activities
  <2> QED
    BY <2>1
<1>21. ASSUME NEW m \in Messages, ScanOne(m)
      PROVE ReadIsFresh'
  <2>1. ui'.got = None
    BY <1>21, ScanOneUI DEF TInv, UIShape
  <2> QED
    BY <2>1
<1>22. ASSUME NEW m \in Messages, ShowOne(m)
      PROVE ReadIsFresh'
  BY <1>22 DEF ShowOne
<1>23. ASSUME NEW m \in Messages, PurgeOne(m)
      PROVE ReadIsFresh'
  BY <1>23 DEF PurgeOne, RemoveFiles, NeedsLoad
<1>24. ASSUME OpenConversation
      PROVE ReadIsFresh'
  BY <1>24 DEF OpenConversation, UIFree
<1>25. ASSUME CloseConversation
      PROVE ReadIsFresh'
  BY <1>25 DEF CloseConversation, UIFree, NoEntries
<1>26. ASSUME BeginPurge \/ BeginClear
      PROVE ReadIsFresh'
  BY <1>26 DEF BeginPurge, BeginClear, StartScan, Stored, UIFree
<1>27. ASSUME DeleteConversation
      PROVE ReadIsFresh'
  BY <1>27 DEF DeleteConversation, UIFree, NoEntries
<1>28. ASSUME RunRefresh
      PROVE ReadIsFresh'
  BY <1>28 DEF RunRefresh, UIFree
<1>29. ASSUME Restart
      PROVE ReadIsFresh'
  <2>1. ui'.got = None
    BY <1>29 DEF Restart, Resting
  <2> QED
    BY <2>1
<1>30. ASSUME UNCHANGED vars
      PROVE ReadIsFresh'
  BY <1>30 DEF vars, disk, router, view, history
<1>31. ASSUME NEW m \in Messages, RouterRetries(m)
      PROVE ReadIsFresh'
  BY <1>31 DEF RouterRetries
<1>32. ASSUME DropRefresh
      PROVE ReadIsFresh'
  BY <1>32 DEF DropRefresh
<1> QED
  BY <1>1, <1>2, <1>3, <1>4, <1>5, <1>6, <1>7, <1>8, <1>9, <1>10, <1>11, <1>12,
     <1>13, <1>14, <1>15, <1>16, <1>17, <1>18, <1>19, <1>20, <1>21, <1>22, <1>23, <1>24,
     <1>25, <1>26, <1>27, <1>28, <1>29, <1>30, <1>31, <1>32
  DEF Next, RouterStep, Callback, MessageNotification, IngestStep, UIStep,
      LoadStep, UserAction

\* A step that writes no file keeps the caches coherent if what it caches was
\* cached before, and the masked messages stay masked.
LEMMA CoherenceIsCopied ==
  ASSUME CacheCoherence,
         \A k \in Messages :
           \/ file'[k] = file[k] /\ stamp'[k] = stamp[k] /\ (k \in masked => k \in masked')
           \/ file'[k] \notin States,
         \A k \in Messages : mem'[k] # None /\ k # ui'.cur =>
           \/ mem'[k].state = None
           \/ k \in masked'
           \/ /\ mem[k] # None /\ k # ui.cur
              /\ mem'[k].state = mem[k].state /\ mem'[k].sort = mem[k].sort
           \/ /\ index[k] # None
              /\ mem'[k].state = index[k].state /\ mem'[k].sort = index[k].sort,
         \A k \in Messages : index'[k] # None =>
           \/ index'[k] = index[k]
           \/ /\ mem[k] # None /\ k # ui.cur /\ mem[k].state # None
              /\ index'[k].state = mem[k].state /\ index'[k].sort = mem[k].sort
  PROVE  CacheCoherence'
BY DEF CacheCoherence, Coherent

\* CacheCoherence is inductive, given the rest.
LEMMA CoherenceStep == IInv /\ [Next]_vars => CacheCoherence'
<1> SUFFICES ASSUME IInv, [Next]_vars PROVE CacheCoherence'
  OBVIOUS
<1> "absent" \notin States
  BY DEF States
<1> CacheCoherence /\ TInv
  BY DEF IInv
<1> ui \in Activities /\ (ui.got # None => ui.cur # None)
  BY DEF TInv, TypeOK, UIShape
<1> mem \in [Messages -> Cached \cup {None}] /\ index \in [Messages -> Entries \cup {None}]
  BY DEF TInv, TypeOK
<1>1. ASSUME InitRNS
      PROVE CacheCoherence'
  <2>1. /\ file' = file /\ stamp' = stamp /\ index' = index /\ mem' = mem /\ ui'.cur = ui.cur
        /\ masked' = masked
    BY <1>1 DEF InitRNS, disk, view, history, Activities
  <2> QED
    BY <2>1, CoherenceIsCopied
<1>2. ASSUME NEW m \in Messages, RouterSends(m)
      PROVE CacheCoherence'
  <2>1. /\ file' = file /\ stamp' = stamp /\ index' = index /\ mem' = mem /\ ui'.cur = ui.cur
        /\ masked' = masked
    BY <1>2 DEF RouterSends, disk, view, history, Activities
  <2> QED
    BY <2>1, CoherenceIsCopied
<1>3. ASSUME NEW m \in Messages, RouterEnds(m)
      PROVE CacheCoherence'
  <2>1. /\ file' = file /\ stamp' = stamp /\ index' = index /\ mem' = mem /\ ui'.cur = ui.cur
        /\ masked' = masked
    BY <1>3 DEF RouterEnds, disk, view, history, Activities
  <2> QED
    BY <2>1, CoherenceIsCopied
<1>4. ASSUME NEW m \in Messages, RouterForgets(m)
      PROVE CacheCoherence'
  <2>1. /\ file' = file /\ stamp' = stamp /\ index' = index /\ mem' = mem /\ ui'.cur = ui.cur
        /\ masked' = masked
    BY <1>4 DEF RouterForgets, disk, view, history, Activities
  <2> QED
    BY <2>1, CoherenceIsCopied
<1>5. ASSUME NEW d \in Deliverers, NEW m \in Messages, Deliver(d, m)
      PROVE CacheCoherence'
  <2>1. /\ file' = file /\ stamp' = stamp /\ index' = index /\ mem' = mem /\ ui'.cur = ui.cur
        /\ masked' = masked
    BY <1>5 DEF Deliver, disk, view, history, Activities
  <2> QED
    BY <2>1, CoherenceIsCopied
<1>6. ASSUME NEW d \in Deliverers, NEW m \in Messages, RetryPropagated(d, m)
      PROVE CacheCoherence'
  <2>1. /\ file' = file /\ stamp' = stamp /\ index' = index /\ mem' = mem /\ ui'.cur = ui.cur
        /\ masked' = masked
    BY <1>6 DEF RetryPropagated, disk, view, history, Activities
  <2> QED
    BY <2>1, CoherenceIsCopied
<1>7. ASSUME NEW d \in Deliverers, NEW m \in Messages, IngestFinal(d, m)
      PROVE CacheCoherence'
  <2>1. /\ file' = file /\ stamp' = stamp /\ index' = index /\ mem' = mem /\ ui'.cur = ui.cur
        /\ masked' = masked
    BY <1>7 DEF IngestFinal, disk, view, history, Activities
  <2> QED
    BY <2>1, CoherenceIsCopied
<1>8. ASSUME NEW m \in Messages, Send(m)
      PROVE CacheCoherence'
  <2>1. /\ file' = file /\ stamp' = stamp /\ index' = index /\ mem' = mem /\ ui'.cur = ui.cur
        /\ masked' = masked
    BY <1>8 DEF Send, disk, view, history, Activities
  <2> QED
    BY <2>1, CoherenceIsCopied
<1>9. ASSUME NEW w \in Workers, Pack(w)
      PROVE CacheCoherence'
  <2>1. /\ file' = file /\ stamp' = stamp /\ index' = index /\ mem' = mem /\ ui'.cur = ui.cur
        /\ masked' = masked
    BY <1>9 DEF Pack, disk, view, history, Activities
  <2> QED
    BY <2>1, CoherenceIsCopied
<1>10. ASSUME NEW w \in Workers, WriteEnvelope(w)
      PROVE CacheCoherence'
  <2>1. mem' = mem /\ index' = index /\ ui' = ui
    BY <1>10 DEF WriteEnvelope
  <2>2. \A k \in Messages :
           \/ file'[k] = file[k] /\ stamp'[k] = stamp[k] /\ (k \in masked => k \in masked')
           \/ file'[k] = "torn"
    BY <1>10 DEF WriteEnvelope, Touch, TInv, TypeOK
  <2> QED
    BY <2>1, <2>2, CoherenceIsCopied DEF States
<1>11. ASSUME NEW w \in Workers, FillEnvelope(w)
      PROVE CacheCoherence'
  <2> DEFINE m == job[w].msg
  <2>1. job[w].pc = "fill" => m \in Messages /\ stamp[m] \in Nat
    BY DEF TInv, TypeOK, Jobs, NoJob
  <2> /\ stamp \in [Messages -> Nat] /\ file \in [Messages -> States \cup {"absent", "torn"}]
      /\ TypeOK /\ SortsAreOld
    BY DEF IInv, TInv, TypeOK
  <2>2. mem' = mem /\ index' = index /\ ui' = ui
    BY <1>11 DEF FillEnvelope
  <2>3. CASE file' = file /\ stamp' = stamp /\ masked' = masked
    BY <2>2, <2>3, CoherenceIsCopied
  <2>4. CASE job[w].pc = "fill" /\ file' = [file EXCEPT ![m] = job[w].val] /\ Touch(m)
    <3>1. \A k \in Messages : k # m =>
             file'[k] = file[k] /\ stamp'[k] = stamp[k] /\ (k \in masked => k \in masked')
      BY <2>4 DEF Touch
    <3>2. mem[m] # None => mem[m].sort # stamp'[m] \/ m \in masked'
      BY <2>1, <2>4, TouchIsSeen
    <3>3. index[m] # None => index[m].sort # stamp'[m] \/ m \in masked'
      BY <2>1, <2>4, TouchIsSeen
    <3> HIDE DEF m
    <3> QED
      BY <2>2, <3>1, <3>2, <3>3 DEF CacheCoherence, Coherent
  <2> QED
    BY <2>3, <2>4, <1>11 DEF FillEnvelope
<1>12. ASSUME NEW w \in Workers, Notify(w)
      PROVE CacheCoherence'
  <2>1. w = UI => ui = Resting
    BY <1>12 DEF Notify, TInv, UIShape, NoJob
  <2>2. file' = file /\ stamp' = stamp /\ index' = index /\ masked' = masked
    BY <1>12 DEF Notify, disk
  <2>3. ui'.cur = ui.cur
    BY <1>12 DEF Notify, Activities
  <2>4. \A k \in Messages : mem'[k] = mem[k] \/ mem'[k].state = None
    BY <1>12 DEF Notify, Blank
  <2> QED
    BY <2>1, <2>2, <2>3, <2>4, CoherenceIsCopied
<1>13. ASSUME Reload
      PROVE CacheCoherence'
  <2>1. ui.cur = None
    BY <1>13 DEF Reload, StartScan, TInv, UIShape, Resting, NoJob
  <2>2. file' = file /\ stamp' = stamp /\ masked' = masked
    BY <1>13 DEF Reload, StartScan, disk, history, NoEntries
  <2>3. \A k \in Messages : mem'[k] \in {mem[k], None}
    BY <1>13 DEF Reload, StartScan, NoEntries
  <2>4. index' = index
    BY <1>13 DEF Reload, StartScan, disk, NoEntries, Indexed
  <2> QED
    BY <2>1, <2>2, <2>3, <2>4, CoherenceIsCopied
<1>14. ASSUME EndScan
      PROVE CacheCoherence'
  <2>1. ui.cur = None
    BY <1>14 DEF EndScan, TInv, UIShape, Resting, NoJob
  <2>2. file' = file /\ stamp' = stamp /\ masked' = masked
    BY <1>14 DEF EndScan, disk, history, NoEntries
  <2>3. mem' = mem
    BY <1>14 DEF EndScan, NoEntries
  <2>4. index' = index
    BY <1>14 DEF EndScan, disk, NoEntries, Indexed
  <2> QED
    BY <2>1, <2>2, <2>3, <2>4, CoherenceIsCopied
<1>15. ASSUME EndSort
      PROVE CacheCoherence'
  <2>1. ui.cur = None
    BY <1>15 DEF EndSort, RemoveFiles, TInv, UIShape, Resting, NoJob
  <2>2. \A k \in Messages :
           \/ file'[k] = file[k] /\ stamp'[k] = stamp[k] /\ (k \in masked => k \in masked')
           \/ file'[k] = "absent"
    BY <1>15 DEF EndSort, RemoveFiles, disk, history, NoEntries
  <2>3. \A k \in Messages : mem'[k] \in {mem[k], None}
    BY <1>15 DEF EndSort, RemoveFiles, NoEntries
  <2>4. \A k \in Messages : index'[k] # None =>
           \/ index'[k] = index[k]
           \/ /\ mem[k] # None /\ mem[k].state # None
              /\ index'[k].state = mem[k].state /\ index'[k].sort = mem[k].sort
    BY <1>15 DEF EndSort, RemoveFiles, disk, NoEntries, Indexed
  <2> QED
    BY <2>1, <2>2, <2>3, <2>4, CoherenceIsCopied
<1>16. ASSUME EndShow
      PROVE CacheCoherence'
  <2>1. ui.cur = None
    BY <1>16 DEF EndShow, TInv, UIShape, Resting, NoJob
  <2>2. file' = file /\ stamp' = stamp /\ masked' = masked
    BY <1>16 DEF EndShow, disk, history, NoEntries
  <2>3. mem' = mem
    BY <1>16 DEF EndShow, NoEntries
  <2>4. \A k \in Messages : index'[k] # None =>
           \/ index'[k] = index[k]
           \/ /\ mem[k] # None /\ mem[k].state # None
              /\ index'[k].state = mem[k].state /\ index'[k].sort = mem[k].sort
    BY <1>16 DEF EndShow, disk, NoEntries, Indexed
  <2> QED
    BY <2>1, <2>2, <2>3, <2>4, CoherenceIsCopied
<1>17. ASSUME EndPurge
      PROVE CacheCoherence'
  <2>1. ui.cur = None
    BY <1>17 DEF EndPurge, TInv, UIShape, Resting, NoJob
  <2>2. file' = file /\ stamp' = stamp /\ masked' = masked
    BY <1>17 DEF EndPurge, disk, history, NoEntries
  <2>3. mem' = mem
    BY <1>17 DEF EndPurge, NoEntries
  <2>4. index' = index
    BY <1>17 DEF EndPurge, disk, NoEntries, Indexed
  <2> QED
    BY <2>1, <2>2, <2>3, <2>4, CoherenceIsCopied
<1>18. ASSUME NEW m \in Messages, LoadStat(m)
      PROVE CacheCoherence'
  <2>1. ui.cur = None /\ file' = file /\ stamp' = stamp /\ index' = index /\ masked \subseteq masked'
    BY <1>18 DEF LoadStat, disk
  <2>2. \A k \in Messages : k # m => mem'[k] = mem[k]
    BY <1>18, LoadStatKeeps
  <2>3. mem[m] \in Cached /\ mem'[m].sort = stamp[m]
    BY <1>18, LoadStatKeeps
  <2>4. CASE stamped = "off"
    <3>1. mem'[m].state = mem[m].state
      BY <2>4, <1>18 DEF LoadStat
    <3>2. m \in masked' \/ (mem[m].state # None /\ mem[m].sort = stamp[m])
      BY <2>4, <1>18 DEF LoadStat
    <3> QED
      BY <2>1, <2>2, <2>3, <3>1, <3>2, NoneApart, CoherenceIsCopied
  <2>5. CASE stamped # "off"
    <3>1. ui'.cur = m
      BY <2>5, <1>18 DEF LoadStat, Activities
    <3> QED
      BY <2>1, <2>2, <3>1, CoherenceIsCopied
  <2> QED
    BY <2>4, <2>5
<1>19. ASSUME LoadRead
      PROVE CacheCoherence'
  <2>1. /\ file' = file /\ stamp' = stamp /\ index' = index /\ ui.cur \in Messages
        /\ masked' = masked
    BY <1>19, LoadReadKeeps DEF LoadRead, disk, history
  <2>2. CASE mem' = mem /\ ui'.cur = ui.cur
    BY <2>1, <2>2, CoherenceIsCopied
  <2>3. CASE \E c \in Cached : /\ file[ui.cur] \in States => c.state = file[ui.cur]
                               /\ mem' = [mem EXCEPT ![ui.cur] = c]
    BY <2>1, <2>3 DEF CacheCoherence, Coherent, Readings
  <2>4. ui' = [ui EXCEPT !.got = "outbound"] => ui'.cur = ui.cur
    BY DEF Activities
  <2> QED
    BY <2>2, <2>4, <2>3, <1>19, LoadReadCases
<1>20. ASSUME LoadCheck
      PROVE CacheCoherence'
  <2>1. /\ file' = file /\ stamp' = stamp /\ index' = index /\ ui.cur \in Messages
        /\ masked' = masked
    BY <1>20, LoadCheckKeeps DEF LoadCheck, disk, history
  <2>2. PICK c \in Cached : /\ c.state \in {"outbound", "failed"} /\ c.sort = mem[ui.cur].sort
                            /\ mem' = [mem EXCEPT ![ui.cur] = c]
    BY <1>20, LoadCheckEnds
  <2>3. file[ui.cur] \in States /\ c.sort = stamp[ui.cur] /\ ui.cur \notin masked
           => file[ui.cur] = "outbound"
    BY <2>2, <1>20, LoadCheckEnds DEF IInv, ReadIsFresh
  <2> QED
    BY <2>1, <2>2, <2>3 DEF CacheCoherence, Coherent, Readings
<1>21. ASSUME NEW m \in Messages, ScanOne(m)
      PROVE CacheCoherence'
  <2>1. file' = file /\ stamp' = stamp /\ index' = index /\ masked' = masked
    BY <1>21 DEF ScanOne, disk, history
  <2>2. ui.cur = None
    BY <1>21, ScanOneUI DEF TInv, UIShape
  <2>3. PICK c \in Cached :
           /\ mem' = [mem EXCEPT ![m] = c]
           /\ \/ c = mem[m] /\ mem[m] # None
              \/ c.state = None /\ c.sort = stamp[m]
              \/ index[m] # None /\ c.state = index[m].state /\ c.sort = index[m].sort
    BY <1>21, ScanOneMatches
  <2>4. mem'[m] = c /\ \A k \in Messages : k # m => mem'[k] = mem[k]
    BY <2>3
  <2> QED
    BY <2>1, <2>2, <2>3, <2>4, CoherenceIsCopied
<1>22. ASSUME NEW m \in Messages, ShowOne(m)
      PROVE CacheCoherence'
  <2>1. /\ file' = file /\ stamp' = stamp /\ index' = index /\ mem' = mem /\ ui'.cur = ui.cur
        /\ masked' = masked
    BY <1>22 DEF ShowOne, disk, view, history, Activities
  <2> QED
    BY <2>1, CoherenceIsCopied
<1>23. ASSUME NEW m \in Messages, PurgeOne(m)
      PROVE CacheCoherence'
  <2>1. ui.cur = None
    BY <1>23 DEF PurgeOne, RemoveFiles, TInv, UIShape, Resting, NoJob
  <2>2. \A k \in Messages :
           \/ file'[k] = file[k] /\ stamp'[k] = stamp[k] /\ (k \in masked => k \in masked')
           \/ file'[k] = "absent"
    BY <1>23 DEF PurgeOne, RemoveFiles, disk, history, NoEntries
  <2>3. \A k \in Messages : mem'[k] \in {mem[k], None}
    BY <1>23 DEF PurgeOne, RemoveFiles, NoEntries
  <2>4. index' = index
    BY <1>23 DEF PurgeOne, RemoveFiles, disk, NoEntries, Indexed
  <2> QED
    BY <2>1, <2>2, <2>3, <2>4, CoherenceIsCopied
<1>24. ASSUME OpenConversation
      PROVE CacheCoherence'
  <2>1. ui.cur = None
    BY <1>24 DEF OpenConversation, UIFree, TInv, UIShape, Resting, NoJob
  <2>2. file' = file /\ stamp' = stamp /\ masked' = masked
    BY <1>24 DEF OpenConversation, UIFree, disk, history, NoEntries
  <2>3. mem' = mem
    BY <1>24 DEF OpenConversation, UIFree, NoEntries
  <2>4. index' = index
    BY <1>24 DEF OpenConversation, UIFree, disk, NoEntries, Indexed
  <2> QED
    BY <2>1, <2>2, <2>3, <2>4, CoherenceIsCopied
<1>25. ASSUME CloseConversation
      PROVE CacheCoherence'
  <2>1. /\ file' = file /\ stamp' = stamp /\ index' = index /\ mem' = mem /\ ui'.cur = ui.cur
        /\ masked' = masked
    BY <1>25 DEF CloseConversation, disk, view, history, Activities
  <2> QED
    BY <2>1, CoherenceIsCopied
<1>26. ASSUME BeginPurge \/ BeginClear
      PROVE CacheCoherence'
  <2>1. ui.cur = None
    BY <1>26 DEF BeginPurge, BeginClear, StartScan, UIFree, TInv, UIShape, Resting, NoJob
  <2>2. file' = file /\ stamp' = stamp /\ masked' = masked
    BY <1>26 DEF BeginPurge, BeginClear, StartScan, UIFree, disk, history, NoEntries
  <2>3. \A k \in Messages : mem'[k] \in {mem[k], None}
    BY <1>26 DEF BeginPurge, BeginClear, StartScan, UIFree, NoEntries
  <2>4. index' = index
    BY <1>26 DEF BeginPurge, BeginClear, StartScan, UIFree, disk, NoEntries, Indexed
  <2> QED
    BY <2>1, <2>2, <2>3, <2>4, CoherenceIsCopied
<1>27. ASSUME DeleteConversation
      PROVE CacheCoherence'
  <2>1. ui.cur = None
    BY <1>27 DEF DeleteConversation, UIFree, TInv, UIShape, Resting, NoJob
  <2>2. \A k \in Messages :
           \/ file'[k] = file[k] /\ stamp'[k] = stamp[k] /\ (k \in masked => k \in masked')
           \/ file'[k] = "absent"
    BY <1>27 DEF DeleteConversation, UIFree, disk, history, NoEntries
  <2>3. \A k \in Messages : mem'[k] \in {mem[k], None}
    BY <1>27 DEF DeleteConversation, UIFree, NoEntries
  <2>4. \A k \in Messages : index'[k] = None
    BY <1>27 DEF DeleteConversation, UIFree, disk, NoEntries, Indexed
  <2> QED
    BY <2>1, <2>2, <2>3, <2>4, CoherenceIsCopied
<1>28. ASSUME RunRefresh
      PROVE CacheCoherence'
  <2>1. ui.cur = None
    BY <1>28 DEF RunRefresh, UIFree, TInv, UIShape, Resting, NoJob
  <2>2. file' = file /\ stamp' = stamp /\ masked' = masked
    BY <1>28 DEF RunRefresh, UIFree, disk, history, NoEntries
  <2>3. mem' = mem
    BY <1>28 DEF RunRefresh, UIFree, NoEntries
  <2>4. index' = index
    BY <1>28 DEF RunRefresh, UIFree, disk, NoEntries, Indexed
  <2> QED
    BY <2>1, <2>2, <2>3, <2>4, CoherenceIsCopied
<1>29. ASSUME Restart
      PROVE CacheCoherence'
  <2>1. file' = file /\ stamp' = stamp /\ \A k \in Messages : mem'[k] = None
    BY <1>29 DEF Restart, NoEntries
  <2>2. \A k \in Messages : index'[k] \in {index[k], None}
    BY <1>29 DEF Restart, NoEntries
  <2>3. \A k \in Messages \ masked' :
           k \notin masked \/ index'[k] = None \/ index'[k].sort # stamp[k]
    BY <1>29 DEF Restart
  <2> QED
    BY <2>1, <2>2, <2>3 DEF CacheCoherence, Coherent
<1>30. ASSUME UNCHANGED vars
      PROVE CacheCoherence'
  <2>1. /\ file' = file /\ stamp' = stamp /\ index' = index /\ mem' = mem /\ ui'.cur = ui.cur
        /\ masked' = masked
    BY <1>30 DEF vars, disk, view, history, Activities
  <2> QED
    BY <2>1, CoherenceIsCopied
<1>31. ASSUME NEW m \in Messages, RouterRetries(m)
      PROVE CacheCoherence'
  <2>1. /\ file' = file /\ stamp' = stamp /\ index' = index /\ mem' = mem /\ ui'.cur = ui.cur
        /\ masked' = masked
    BY <1>31 DEF RouterRetries, disk, view, history, Activities
  <2> QED
    BY <2>1, CoherenceIsCopied
<1>32. ASSUME DropRefresh
      PROVE CacheCoherence'
  <2>1. /\ file' = file /\ stamp' = stamp /\ index' = index /\ mem' = mem /\ ui'.cur = ui.cur
        /\ masked' = masked
    BY <1>32 DEF DropRefresh, disk, view, history, Activities
  <2> QED
    BY <2>1, CoherenceIsCopied
<1> QED
  BY <1>1, <1>2, <1>3, <1>4, <1>5, <1>6, <1>7, <1>8, <1>9, <1>10, <1>11, <1>12,
     <1>13, <1>14, <1>15, <1>16, <1>17, <1>18, <1>19, <1>20, <1>21, <1>22, <1>23, <1>24,
     <1>25, <1>26, <1>27, <1>28, <1>29, <1>30, <1>31, <1>32
  DEF Next, RouterStep, Callback, MessageNotification, IngestStep, UIStep,
      LoadStep, UserAction

-----------------------------------------------------------------------------
\* The initial state is well typed.
LEMMA InitTypeOK == Init => TypeOK
<1> SUFFICES ASSUME Init PROVE TypeOK
  OBVIOUS
<1> USE DEF Init
<1>1. job \in [Workers -> Jobs]
  BY DEF Jobs
<1>2. ui \in Activities
  BY DEF Resting, Activities
<1>3. mem \in [Messages -> Cached \cup {None}] /\ index \in [Messages -> Entries \cup {None}]
  BY DEF NoEntries
<1>4. shown \in [Messages -> States \cup {"unknown", None}]
  BY DEF NoEntries
<1>5. /\ file \in [Messages -> States \cup {"absent", "torn"}]
      /\ stamp \in [Messages -> Nat]
      /\ lxm \in [Messages -> States \cup {"new"}]
  OBVIOUS
<1>6. queued \in SUBSET Outbound /\ due \in SUBSET Outbound /\ retry \in SUBSET Outbound
  OBVIOUS
<1>7. /\ online \in {"off", "transport", "router"} /\ stamped \in {"off", "transport", "router"}
      /\ open \in BOOLEAN /\ refresh \in BOOLEAN
  OBVIOUS
<1>8. restarts \in 0..MaxRestarts
  OBVIOUS
<1> QED
  BY <1>1, <1>2, <1>3, <1>4, <1>5, <1>6, <1>7, <1>8 DEF TypeOK

\* Nothing is in hand at the start.
LEMMA InitTInv == Init => TInv
<1> SUFFICES ASSUME Init PROVE TInv
  OBVIOUS
<1>1. Handed /\ UIShape
  BY DEF Init, Handed, UIShape, Resting, NoJob, Workers
<1> QED
  BY <1>1, InitTypeOK DEF TInv

\* TypeOK, with what it rests on, holds in every reachable state.
THEOREM TypeCorrect == Spec => []TypeOK
<1>1. TInv /\ [Next]_vars => TInv'
  BY TypeStep, HandedStep, ShapeStep DEF TInv
<1>2. TInv => TypeOK
  BY DEF TInv
<1> QED
  BY <1>1, <1>2, InitTInv, PTL DEF Spec

\* The invariant holds at the start and every step keeps it.
THEOREM Inductive == Spec => []IInv
<1>1. Init => IInv
  <2> SUFFICES ASSUME Init PROVE IInv
    OBVIOUS
  <2>1. SortsAreOld /\ CacheCoherence
    BY DEF Init, NoEntries, SortsAreOld, CacheCoherence
  <2>2. ReadIsFresh
    BY DEF Init, Resting, ReadIsFresh
  <2> QED
    BY <2>1, <2>2, InitTInv DEF IInv
<1>2. IInv /\ [Next]_vars => IInv'
  BY TypeStep, HandedStep, ShapeStep, SortsStep, FreshStep, CoherenceStep DEF IInv, TInv
<1> QED
  BY <1>1, <1>2, PTL DEF Spec

\* Whatever the callbacks of the router write, whatever the user removes, however
\* coarse the clock of the file system is and whenever the program is restarted, a
\* state cached in memory or in the index with the timestamp of the file is a state
\* the file allows, unless the message is masked: ScanStorage rereads every message
\* it can know that it has to.
THEOREM CachesAreCoherent == Spec => []CacheCoherence
<1>1. IInv => CacheCoherence
  BY DEF IInv
<1> QED
  BY <1>1, Inductive, PTL
-----------------------------------------------------------------------------
(***************************************************************************)
(* ViewIsCurrent.  That the caches are coherent is not enough for it: the   *)
(* view must also be rebuilt after every change of a file, although a      *)
(* callback may write while the UI thread lists, scans, sorts, loads and    *)
(* displays.                                                                *)
(***************************************************************************)

\* A change of the file of m will have the open view reloaded: the refresh is
\* queued or about to run, the UI thread is in an operation that ends with a
\* reload, or a worker in the middle of an Ingest of m has yet to notify.
Announced(m) ==
  \/ refresh
  \/ ui.pc = "reload"
  \/ ui.goal \in {"purge", "clear"} /\ ui.pc \notin {"idle", "show"}
  \/ \E w \in Workers : job[w].msg = m /\ job[w].pc \in {"fill", "lost", "notify"}

\* The row of m is right, and memory has the timestamp of its file.  What the index
\* restored before there was a transport may be older, but it is yet to be loaded,
\* which masks the message.
Rowed(m) == shown[m] \in Readings(file[m])
Fresh(m) == mem[m] # None /\ (mem[m].sort = stamp[m] \/ (stamped = "off" /\ ~mem[m].loaded))

\* A refresh has dealt with m or is going to: it is listed, scanned with the
\* timestamp the file still has, and displayed from what memory says then.
Handled(m) ==
  \/ ui.pc = "idle" /\ Rowed(m)
  \/ ui.pc = "scan" /\ m \in ui.listed /\ ui.pre = None /\ (m \in ui.todo \/ Fresh(m))
  \/ ui.pc = "sort" /\ m \in ui.listed /\ ui.pre = None /\ Fresh(m)
  \/ ui.pc = "show" /\ m \in ui.todo /\ Fresh(m)
     /\ (ui.pre # None /\ ui.pre.msg = m => ui.pre.state \in Readings(file[m]))
  \/ ui.pc = "show" /\ m \in ui.listed \ ui.todo /\ Rowed(m)

\* No change of a file goes unnoticed while the conversation is open, unless a
\* refresh was dropped or the change is masked.
Noticed(m) == open /\ ~missed /\ m \notin masked /\ file[m] \in States
                => Announced(m) \/ Handled(m)

\* A message that counts as loaded with the timestamp of its file has a state:
\* ScanStorage forgets that it was loaded when it forgets the state.
LoadedIsKnown == \A m \in Messages \ masked :
  file[m] \in States /\ mem[m] # None /\ mem[m].loaded /\ mem[m].sort = stamp[m]
    => mem[m].state # None

VInv == IInv /\ LoadedIsKnown /\ \A m \in Messages : Noticed(m)

-----------------------------------------------------------------------------
\* LoadedIsKnown survives a step that rewrites no file and loads no message
\* without a state.
LEMMA KnownIsCopied ==
  ASSUME LoadedIsKnown,
         \A k \in Messages :
           \/ file'[k] = file[k] /\ stamp'[k] = stamp[k] /\ (k \in masked => k \in masked')
           \/ file'[k] \notin States,
         \A k \in Messages : \/ mem'[k] \in {mem[k], None} \/ ~mem'[k].loaded
                             \/ mem'[k].state # None \/ k \in masked'
  PROVE  LoadedIsKnown'
BY DEF LoadedIsKnown

\* LoadedIsKnown is inductive, given IInv.
LEMMA KnownStep == IInv /\ LoadedIsKnown /\ [Next]_vars => LoadedIsKnown'
<1> SUFFICES ASSUME IInv, LoadedIsKnown, [Next]_vars PROVE LoadedIsKnown'
  OBVIOUS
<1> TInv /\ mem \in [Messages -> Cached \cup {None}]
  BY DEF IInv, TInv, TypeOK
<1> "absent" \notin States /\ "torn" \notin States
  BY DEF States
<1> None \notin States /\ None \notin Messages /\ None \notin Cached
  BY NoneApart
<1> USE DEF disk, view, history
<1>1. ASSUME InitRNS
      PROVE LoadedIsKnown'
  <2>1. \A k \in Messages :
           \/ file'[k] = file[k] /\ stamp'[k] = stamp[k] /\ (k \in masked => k \in masked')
           \/ file'[k] \notin States
    BY <1>1 DEF InitRNS
  <2>2. \A k \in Messages : mem'[k] \in {mem[k], None} \/ ~mem'[k].loaded
    BY <1>1 DEF InitRNS
  <2> QED
    BY <2>1, <2>2, KnownIsCopied
<1>2. ASSUME NEW m \in Messages, RouterSends(m)
      PROVE LoadedIsKnown'
  <2>1. \A k \in Messages :
           \/ file'[k] = file[k] /\ stamp'[k] = stamp[k] /\ (k \in masked => k \in masked')
           \/ file'[k] \notin States
    BY <1>2 DEF RouterSends
  <2>2. \A k \in Messages : mem'[k] \in {mem[k], None} \/ ~mem'[k].loaded
    BY <1>2 DEF RouterSends
  <2> QED
    BY <2>1, <2>2, KnownIsCopied
<1>3. ASSUME NEW m \in Messages, RouterEnds(m)
      PROVE LoadedIsKnown'
  <2>1. \A k \in Messages :
           \/ file'[k] = file[k] /\ stamp'[k] = stamp[k] /\ (k \in masked => k \in masked')
           \/ file'[k] \notin States
    BY <1>3 DEF RouterEnds
  <2>2. \A k \in Messages : mem'[k] \in {mem[k], None} \/ ~mem'[k].loaded
    BY <1>3 DEF RouterEnds
  <2> QED
    BY <2>1, <2>2, KnownIsCopied
<1>4. ASSUME NEW m \in Messages, RouterForgets(m)
      PROVE LoadedIsKnown'
  <2>1. \A k \in Messages :
           \/ file'[k] = file[k] /\ stamp'[k] = stamp[k] /\ (k \in masked => k \in masked')
           \/ file'[k] \notin States
    BY <1>4 DEF RouterForgets
  <2>2. \A k \in Messages : mem'[k] \in {mem[k], None} \/ ~mem'[k].loaded
    BY <1>4 DEF RouterForgets
  <2> QED
    BY <2>1, <2>2, KnownIsCopied
<1>5. ASSUME NEW d \in Deliverers, NEW m \in Messages, Deliver(d, m)
      PROVE LoadedIsKnown'
  <2>1. \A k \in Messages :
           \/ file'[k] = file[k] /\ stamp'[k] = stamp[k] /\ (k \in masked => k \in masked')
           \/ file'[k] \notin States
    BY <1>5 DEF Deliver
  <2>2. \A k \in Messages : mem'[k] \in {mem[k], None} \/ ~mem'[k].loaded
    BY <1>5 DEF Deliver
  <2> QED
    BY <2>1, <2>2, KnownIsCopied
<1>6. ASSUME NEW d \in Deliverers, NEW m \in Messages, RetryPropagated(d, m)
      PROVE LoadedIsKnown'
  <2>1. \A k \in Messages :
           \/ file'[k] = file[k] /\ stamp'[k] = stamp[k] /\ (k \in masked => k \in masked')
           \/ file'[k] \notin States
    BY <1>6 DEF RetryPropagated
  <2>2. \A k \in Messages : mem'[k] \in {mem[k], None} \/ ~mem'[k].loaded
    BY <1>6 DEF RetryPropagated
  <2> QED
    BY <2>1, <2>2, KnownIsCopied
<1>7. ASSUME NEW d \in Deliverers, NEW m \in Messages, IngestFinal(d, m)
      PROVE LoadedIsKnown'
  <2>1. \A k \in Messages :
           \/ file'[k] = file[k] /\ stamp'[k] = stamp[k] /\ (k \in masked => k \in masked')
           \/ file'[k] \notin States
    BY <1>7 DEF IngestFinal
  <2>2. \A k \in Messages : mem'[k] \in {mem[k], None} \/ ~mem'[k].loaded
    BY <1>7 DEF IngestFinal
  <2> QED
    BY <2>1, <2>2, KnownIsCopied
<1>8. ASSUME NEW m \in Messages, Send(m)
      PROVE LoadedIsKnown'
  <2>1. \A k \in Messages :
           \/ file'[k] = file[k] /\ stamp'[k] = stamp[k] /\ (k \in masked => k \in masked')
           \/ file'[k] \notin States
    BY <1>8 DEF Send
  <2>2. \A k \in Messages : mem'[k] \in {mem[k], None} \/ ~mem'[k].loaded
    BY <1>8 DEF Send
  <2> QED
    BY <2>1, <2>2, KnownIsCopied
<1>9. ASSUME NEW w \in Workers, Pack(w)
      PROVE LoadedIsKnown'
  <2>1. \A k \in Messages :
           \/ file'[k] = file[k] /\ stamp'[k] = stamp[k] /\ (k \in masked => k \in masked')
           \/ file'[k] \notin States
    BY <1>9 DEF Pack
  <2>2. \A k \in Messages : mem'[k] \in {mem[k], None} \/ ~mem'[k].loaded
    BY <1>9 DEF Pack
  <2> QED
    BY <2>1, <2>2, KnownIsCopied
<1>10. ASSUME NEW w \in Workers, WriteEnvelope(w)
      PROVE LoadedIsKnown'
  <2>1. mem' = mem
    BY <1>10 DEF WriteEnvelope
  <2>2. \A k \in Messages :
           \/ file'[k] = file[k] /\ stamp'[k] = stamp[k] /\ (k \in masked => k \in masked')
           \/ file'[k] \notin States
    BY <1>10 DEF WriteEnvelope, Touch, TInv, TypeOK
  <2> QED
    BY <2>1, <2>2, KnownIsCopied
<1>11. ASSUME NEW w \in Workers, FillEnvelope(w)
      PROVE LoadedIsKnown'
  <2> DEFINE m == job[w].msg
  <2>1. job[w].pc = "fill" => m \in Messages /\ stamp[m] \in Nat
    BY DEF TInv, TypeOK, Jobs, NoJob
  <2> stamp \in [Messages -> Nat] /\ file \in [Messages -> States \cup {"absent", "torn"}]
    BY DEF TInv, TypeOK
  <2>2. mem' = mem
    BY <1>11 DEF FillEnvelope
  <2>3. CASE file' = file /\ stamp' = stamp /\ masked' = masked
    BY <2>2, <2>3, KnownIsCopied
  <2>4. CASE job[w].pc = "fill" /\ file' = [file EXCEPT ![m] = job[w].val] /\ Touch(m)
    <3>1. \A k \in Messages : k # m =>
             file'[k] = file[k] /\ stamp'[k] = stamp[k] /\ (k \in masked => k \in masked')
      BY <2>4 DEF Touch
    <3>2. TypeOK /\ SortsAreOld
      BY DEF IInv, TInv
    <3>3. mem[m] # None => mem[m].sort # stamp'[m] \/ m \in masked'
      BY <2>1, <2>4, <3>2, TouchIsSeen
    <3> HIDE DEF m
    <3> QED
      BY <2>2, <3>1, <3>3 DEF LoadedIsKnown
  <2> QED
    BY <2>3, <2>4, <1>11 DEF FillEnvelope
<1>12. ASSUME NEW w \in Workers, Notify(w)
      PROVE LoadedIsKnown'
  <2>1. \A k \in Messages :
           \/ file'[k] = file[k] /\ stamp'[k] = stamp[k] /\ (k \in masked => k \in masked')
           \/ file'[k] \notin States
    BY <1>12 DEF Notify, Blank
  <2>2. \A k \in Messages : mem'[k] \in {mem[k], None} \/ ~mem'[k].loaded
    BY <1>12 DEF Notify, Blank
  <2> QED
    BY <2>1, <2>2, KnownIsCopied
<1>13. ASSUME Reload
      PROVE LoadedIsKnown'
  <2>1. \A k \in Messages :
           \/ file'[k] = file[k] /\ stamp'[k] = stamp[k] /\ (k \in masked => k \in masked')
           \/ file'[k] \notin States
    BY <1>13 DEF Reload, StartScan, NoEntries
  <2>2. \A k \in Messages : mem'[k] \in {mem[k], None} \/ ~mem'[k].loaded
    BY <1>13 DEF Reload, StartScan, NoEntries
  <2> QED
    BY <2>1, <2>2, KnownIsCopied
<1>14. ASSUME EndScan
      PROVE LoadedIsKnown'
  <2>1. \A k \in Messages :
           \/ file'[k] = file[k] /\ stamp'[k] = stamp[k] /\ (k \in masked => k \in masked')
           \/ file'[k] \notin States
    BY <1>14 DEF EndScan
  <2>2. \A k \in Messages : mem'[k] \in {mem[k], None} \/ ~mem'[k].loaded
    BY <1>14 DEF EndScan
  <2> QED
    BY <2>1, <2>2, KnownIsCopied
<1>15. ASSUME EndSort
      PROVE LoadedIsKnown'
  <2>1. \A k \in Messages :
           \/ file'[k] = file[k] /\ stamp'[k] = stamp[k] /\ (k \in masked => k \in masked')
           \/ file'[k] \notin States
    BY <1>15 DEF EndSort, RemoveFiles, NoEntries
  <2>2. \A k \in Messages : mem'[k] \in {mem[k], None} \/ ~mem'[k].loaded
    BY <1>15 DEF EndSort, RemoveFiles, NoEntries
  <2> QED
    BY <2>1, <2>2, KnownIsCopied
<1>16. ASSUME EndShow
      PROVE LoadedIsKnown'
  <2>1. \A k \in Messages :
           \/ file'[k] = file[k] /\ stamp'[k] = stamp[k] /\ (k \in masked => k \in masked')
           \/ file'[k] \notin States
    BY <1>16 DEF EndShow
  <2>2. \A k \in Messages : mem'[k] \in {mem[k], None} \/ ~mem'[k].loaded
    BY <1>16 DEF EndShow
  <2> QED
    BY <2>1, <2>2, KnownIsCopied
<1>17. ASSUME EndPurge
      PROVE LoadedIsKnown'
  <2>1. \A k \in Messages :
           \/ file'[k] = file[k] /\ stamp'[k] = stamp[k] /\ (k \in masked => k \in masked')
           \/ file'[k] \notin States
    BY <1>17 DEF EndPurge
  <2>2. \A k \in Messages : mem'[k] \in {mem[k], None} \/ ~mem'[k].loaded
    BY <1>17 DEF EndPurge
  <2> QED
    BY <2>1, <2>2, KnownIsCopied
<1>18. ASSUME NEW m \in Messages, LoadStat(m)
      PROVE LoadedIsKnown'
  <2>1. file' = file /\ stamp' = stamp /\ masked \subseteq masked'
    BY <1>18 DEF LoadStat
  <2>2. mem[m] \in Cached /\ ~mem[m].loaded /\ \A k \in Messages : k # m => mem'[k] = mem[k]
    BY <1>18, LoadStatKeeps DEF LoadStat, NeedsLoad
  <2>3. CASE stamped = "off"
    <3>1. m \in masked' \/ mem'[m].state # None
      BY <2>3, <1>18 DEF LoadStat
    <3> QED
      BY <2>1, <2>2, <3>1, KnownIsCopied
  <2>4. CASE stamped # "off"
    <3>1. ~mem'[m].loaded
      BY <2>2, <2>4, <1>18 DEF LoadStat, Cached
    <3> QED
      BY <2>1, <2>2, <3>1, KnownIsCopied
  <2> QED
    BY <2>3, <2>4
<1>19. ASSUME LoadRead
      PROVE LoadedIsKnown'
  <2>1. file' = file /\ stamp' = stamp /\ masked' = masked /\ ui.cur \in Messages
    BY <1>19, LoadReadKeeps DEF LoadRead
  <2>2. CASE mem' = mem
    BY <2>1, <2>2, KnownIsCopied
  <2>3. CASE \E c \in Cached : /\ file[ui.cur] \in States => c.state = file[ui.cur]
                               /\ mem' = [mem EXCEPT ![ui.cur] = c]
    BY <2>1, <2>3 DEF LoadedIsKnown
  <2> QED
    BY <2>2, <2>3, <1>19, LoadReadCases
<1>20. ASSUME LoadCheck
      PROVE LoadedIsKnown'
  <2>1. file' = file /\ stamp' = stamp /\ masked' = masked /\ ui.cur \in Messages
    BY <1>20, LoadCheckKeeps DEF LoadCheck
  <2>2. PICK c \in Cached : c.state \in {"outbound", "failed"} /\ mem' = [mem EXCEPT ![ui.cur] = c]
    BY <1>20, LoadCheckEnds
  <2> QED
    BY <2>1, <2>2 DEF LoadedIsKnown, States
<1>21. ASSUME NEW m \in Messages, ScanOne(m)
      PROVE LoadedIsKnown'
  <2>1. file' = file /\ stamp' = stamp /\ masked' = masked
    BY <1>21 DEF ScanOne
  <2>2. mem' = [mem EXCEPT ![m] = IF mem[m] = None THEN Discovered(m) ELSE Rescanned(m)]
    BY <1>21 DEF ScanOne
  <2>3. ~Discovered(m).loaded /\ (Rescanned(m) = mem[m] \/ ~Rescanned(m).loaded)
    BY DEF Discovered, Blank, Rescanned
  <2>4. \A k \in Messages : mem'[k] = mem[k] \/ ~mem'[k].loaded
    BY <2>2, <2>3
  <2> QED
    BY <2>1, <2>4, KnownIsCopied
<1>22. ASSUME NEW m \in Messages, ShowOne(m)
      PROVE LoadedIsKnown'
  <2>1. \A k \in Messages :
           \/ file'[k] = file[k] /\ stamp'[k] = stamp[k] /\ (k \in masked => k \in masked')
           \/ file'[k] \notin States
    BY <1>22 DEF ShowOne
  <2>2. \A k \in Messages : mem'[k] \in {mem[k], None} \/ ~mem'[k].loaded
    BY <1>22 DEF ShowOne
  <2> QED
    BY <2>1, <2>2, KnownIsCopied
<1>23. ASSUME NEW m \in Messages, PurgeOne(m)
      PROVE LoadedIsKnown'
  <2>1. \A k \in Messages :
           \/ file'[k] = file[k] /\ stamp'[k] = stamp[k] /\ (k \in masked => k \in masked')
           \/ file'[k] \notin States
    BY <1>23 DEF PurgeOne, RemoveFiles
  <2>2. \A k \in Messages : mem'[k] \in {mem[k], None} \/ ~mem'[k].loaded
    BY <1>23 DEF PurgeOne, RemoveFiles
  <2> QED
    BY <2>1, <2>2, KnownIsCopied
<1>24. ASSUME OpenConversation
      PROVE LoadedIsKnown'
  <2>1. \A k \in Messages :
           \/ file'[k] = file[k] /\ stamp'[k] = stamp[k] /\ (k \in masked => k \in masked')
           \/ file'[k] \notin States
    BY <1>24 DEF OpenConversation
  <2>2. \A k \in Messages : mem'[k] \in {mem[k], None} \/ ~mem'[k].loaded
    BY <1>24 DEF OpenConversation
  <2> QED
    BY <2>1, <2>2, KnownIsCopied
<1>25. ASSUME CloseConversation
      PROVE LoadedIsKnown'
  <2>1. \A k \in Messages :
           \/ file'[k] = file[k] /\ stamp'[k] = stamp[k] /\ (k \in masked => k \in masked')
           \/ file'[k] \notin States
    BY <1>25 DEF CloseConversation, NoEntries
  <2>2. \A k \in Messages : mem'[k] \in {mem[k], None} \/ ~mem'[k].loaded
    BY <1>25 DEF CloseConversation, NoEntries
  <2> QED
    BY <2>1, <2>2, KnownIsCopied
<1>26. ASSUME BeginPurge \/ BeginClear
      PROVE LoadedIsKnown'
  <2>1. \A k \in Messages :
           \/ file'[k] = file[k] /\ stamp'[k] = stamp[k] /\ (k \in masked => k \in masked')
           \/ file'[k] \notin States
    BY <1>26 DEF BeginPurge, BeginClear, StartScan
  <2>2. \A k \in Messages : mem'[k] \in {mem[k], None} \/ ~mem'[k].loaded
    BY <1>26 DEF BeginPurge, BeginClear, StartScan
  <2> QED
    BY <2>1, <2>2, KnownIsCopied
<1>27. ASSUME DeleteConversation
      PROVE LoadedIsKnown'
  <2>1. \A k \in Messages :
           \/ file'[k] = file[k] /\ stamp'[k] = stamp[k] /\ (k \in masked => k \in masked')
           \/ file'[k] \notin States
    BY <1>27 DEF DeleteConversation, NoEntries
  <2>2. \A k \in Messages : mem'[k] \in {mem[k], None} \/ ~mem'[k].loaded
    BY <1>27 DEF DeleteConversation, NoEntries
  <2> QED
    BY <2>1, <2>2, KnownIsCopied
<1>28. ASSUME RunRefresh
      PROVE LoadedIsKnown'
  <2>1. \A k \in Messages :
           \/ file'[k] = file[k] /\ stamp'[k] = stamp[k] /\ (k \in masked => k \in masked')
           \/ file'[k] \notin States
    BY <1>28 DEF RunRefresh
  <2>2. \A k \in Messages : mem'[k] \in {mem[k], None} \/ ~mem'[k].loaded
    BY <1>28 DEF RunRefresh
  <2> QED
    BY <2>1, <2>2, KnownIsCopied
<1>29. ASSUME Restart
      PROVE LoadedIsKnown'
  BY <1>29 DEF Restart, NoEntries, LoadedIsKnown
<1>30. ASSUME UNCHANGED vars
      PROVE LoadedIsKnown'
  <2>1. \A k \in Messages :
           \/ file'[k] = file[k] /\ stamp'[k] = stamp[k] /\ (k \in masked => k \in masked')
           \/ file'[k] \notin States
    BY <1>30 DEF vars
  <2>2. \A k \in Messages : mem'[k] \in {mem[k], None} \/ ~mem'[k].loaded
    BY <1>30 DEF vars
  <2> QED
    BY <2>1, <2>2, KnownIsCopied
<1>31. ASSUME NEW m \in Messages, RouterRetries(m)
      PROVE LoadedIsKnown'
  <2>1. \A k \in Messages :
           \/ file'[k] = file[k] /\ stamp'[k] = stamp[k] /\ (k \in masked => k \in masked')
           \/ file'[k] \notin States
    BY <1>31 DEF RouterRetries
  <2>2. \A k \in Messages : mem'[k] \in {mem[k], None} \/ ~mem'[k].loaded
    BY <1>31 DEF RouterRetries
  <2> QED
    BY <2>1, <2>2, KnownIsCopied
<1>32. ASSUME DropRefresh
      PROVE LoadedIsKnown'
  <2>1. \A k \in Messages :
           \/ file'[k] = file[k] /\ stamp'[k] = stamp[k] /\ (k \in masked => k \in masked')
           \/ file'[k] \notin States
    BY <1>32 DEF DropRefresh
  <2>2. \A k \in Messages : mem'[k] \in {mem[k], None} \/ ~mem'[k].loaded
    BY <1>32 DEF DropRefresh
  <2> QED
    BY <2>1, <2>2, KnownIsCopied
<1> QED
  BY <1>1, <1>2, <1>3, <1>4, <1>5, <1>6, <1>7, <1>8, <1>9, <1>10, <1>11, <1>12,
     <1>13, <1>14, <1>15, <1>16, <1>17, <1>18, <1>19, <1>20, <1>21, <1>22, <1>23, <1>24,
     <1>25, <1>26, <1>27, <1>28, <1>29, <1>30, <1>31, <1>32
  DEF Next, RouterStep, Callback, MessageNotification, IngestStep, UIStep,
      LoadStep, UserAction

\* The jobs that announce a change of the file of k go on doing so.
JobsStay(k) == \A w \in Workers :
  job[w].msg = k /\ job[w].pc \in {"fill", "lost", "notify"} =>
    job'[w].msg = k /\ job'[w].pc \in {"fill", "lost", "notify"}

\* An announcement outlives the steps in which the UI thread goes on with, or
\* ends, what it was doing.
LEMMA AnnouncedStays ==
  ASSUME NEW k \in Messages, Announced(k), JobsStay(k), refresh => refresh',
         ui'.pc = "reload" \/ (ui.pc \notin {"reload", "sort"} /\ ui'.goal = ui.goal /\ ui'.pc = ui.pc)
  PROVE  Announced(k)'
BY DEF Announced, JobsStay

\* What happens to other messages does not matter to k.
LEMMA NoticedIsCopied ==
  ASSUME NEW k \in Messages, Noticed(k), JobsStay(k), refresh => refresh',
         ui' = ui, open' = open, shown' = shown, mem'[k] = mem[k],
         stamped' = stamped, missed' = missed,
         \/ file'[k] = file[k] /\ stamp'[k] = stamp[k] /\ (k \in masked => k \in masked')
         \/ file'[k] \notin States
  PROVE  Noticed(k)'
<1>1. CASE Announced(k)
  BY <1>1 DEF Announced, Noticed, JobsStay
<1>2. CASE Handled(k)
  BY <1>2 DEF Handled, Noticed, Rowed, Fresh
<1> QED
  BY <1>1, <1>2 DEF Noticed

\* A scanned file is in memory with the timestamp it has, or is yet to be loaded
\* without a transport.
LEMMA ScanOneIsFresh ==
  ASSUME TInv, SortsAreOld, NEW m \in Messages, ScanOne(m)
  PROVE  mem'[m].sort = stamp[m] \/ (stamped = "off" /\ ~mem'[m].loaded)
<1>1. /\ mem \in [Messages -> Cached \cup {None}] /\ stamp[m] \in Nat
      /\ index[m] \in Entries \cup {None}
  BY DEF TInv, TypeOK
<1>2. mem'[m] = IF mem[m] = None THEN Discovered(m) ELSE Rescanned(m)
  BY <1>1 DEF ScanOne
<1>3. CASE mem[m] = None
  <2>1. stamped # "off" /\ index[m] # None /\ ~EnvelopeNewerThanSnapshot(m)
           => index[m].sort = stamp[m]
    BY <1>1 DEF EnvelopeNewerThanSnapshot, SortsAreOld, Entries
  <2> QED
    BY <1>2, <1>3, <2>1 DEF Discovered, Blank
<1>4. CASE mem[m] # None
  <2>1. mem[m].sort \in Nat /\ mem[m].sort <= stamp[m]
    BY <1>1, <1>4 DEF SortsAreOld, Cached
  <2> QED
    BY <1>1, <1>2, <1>4, <2>1 DEF Rescanned
<1> QED
  BY <1>3, <1>4

\* Noticed is inductive, given the rest.
LEMMA NoticedStep ==
  ASSUME NEW k \in Messages
  PROVE  VInv /\ [Next]_vars => Noticed(k)'
<1> SUFFICES ASSUME VInv, [Next]_vars PROVE Noticed(k)'
  OBVIOUS
<1> /\ TInv /\ SortsAreOld /\ IInv /\ LoadedIsKnown /\ Noticed(k)
  BY DEF VInv, IInv
<1> /\ ui \in Activities /\ mem \in [Messages -> Cached \cup {None}] /\ job \in [Workers -> Jobs]
    /\ file \in [Messages -> States \cup {"absent", "torn"}]
    /\ shown \in [Messages -> States \cup {"unknown", None}]
    /\ stamp \in [Messages -> Nat]
  BY DEF TInv, TypeOK
<1> "absent" \notin States /\ "torn" \notin States
  BY DEF States
<1> None \notin States /\ None \notin Messages /\ None \notin Cached
  BY NoneApart
<1> USE DEF disk, view, router, history, vars
<1>1. ASSUME InitRNS
      PROVE Noticed(k)'
  <2>1. JobsStay(k)
    BY <1>1 DEF InitRNS, JobsStay, NoJob
  <2>2. /\ ui' = ui /\ open' = open /\ shown' = shown /\ mem' = mem
        /\ file' = file /\ stamp' = stamp /\ refresh' = refresh
        /\ stamped' = stamped /\ history' = history
    BY <1>1 DEF InitRNS
  <2> QED
    BY <2>1, <2>2, NoticedIsCopied
<1>2. ASSUME NEW m \in Messages, RouterSends(m)
      PROVE Noticed(k)'
  <2>1. JobsStay(k)
    BY <1>2 DEF RouterSends, JobsStay, NoJob
  <2>2. /\ ui' = ui /\ open' = open /\ shown' = shown /\ mem' = mem
        /\ file' = file /\ stamp' = stamp /\ refresh' = refresh
        /\ stamped' = stamped /\ history' = history
    BY <1>2 DEF RouterSends
  <2> QED
    BY <2>1, <2>2, NoticedIsCopied
<1>3. ASSUME NEW m \in Messages, RouterEnds(m)
      PROVE Noticed(k)'
  <2>1. JobsStay(k)
    BY <1>3 DEF RouterEnds, JobsStay, NoJob
  <2>2. /\ ui' = ui /\ open' = open /\ shown' = shown /\ mem' = mem
        /\ file' = file /\ stamp' = stamp /\ refresh' = refresh
        /\ stamped' = stamped /\ history' = history
    BY <1>3 DEF RouterEnds
  <2> QED
    BY <2>1, <2>2, NoticedIsCopied
<1>4. ASSUME NEW m \in Messages, RouterForgets(m)
      PROVE Noticed(k)'
  <2>1. JobsStay(k)
    BY <1>4 DEF RouterForgets, JobsStay, NoJob
  <2>2. /\ ui' = ui /\ open' = open /\ shown' = shown /\ mem' = mem
        /\ file' = file /\ stamp' = stamp /\ refresh' = refresh
        /\ stamped' = stamped /\ history' = history
    BY <1>4 DEF RouterForgets
  <2> QED
    BY <2>1, <2>2, NoticedIsCopied
<1>5. ASSUME NEW d \in Deliverers, NEW m \in Messages, Deliver(d, m)
      PROVE Noticed(k)'
  <2>1. JobsStay(k)
    BY <1>5 DEF Deliver, BeginIngest, JobsStay, NoJob
  <2>2. /\ ui' = ui /\ open' = open /\ shown' = shown /\ mem' = mem
        /\ file' = file /\ stamp' = stamp /\ refresh' = refresh
        /\ stamped' = stamped /\ history' = history
    BY <1>5 DEF Deliver, BeginIngest
  <2> QED
    BY <2>1, <2>2, NoticedIsCopied
<1>6. ASSUME NEW d \in Deliverers, NEW m \in Messages, RetryPropagated(d, m)
      PROVE Noticed(k)'
  <2>1. JobsStay(k)
    BY <1>6 DEF RetryPropagated, JobsStay, NoJob
  <2>2. /\ ui' = ui /\ open' = open /\ shown' = shown /\ mem' = mem
        /\ file' = file /\ stamp' = stamp /\ refresh' = refresh
        /\ stamped' = stamped /\ history' = history
    BY <1>6 DEF RetryPropagated
  <2> QED
    BY <2>1, <2>2, NoticedIsCopied
<1>7. ASSUME NEW d \in Deliverers, NEW m \in Messages, IngestFinal(d, m)
      PROVE Noticed(k)'
  <2>1. JobsStay(k)
    BY <1>7 DEF IngestFinal, BeginIngest, JobsStay, NoJob
  <2>2. /\ ui' = ui /\ open' = open /\ shown' = shown /\ mem' = mem
        /\ file' = file /\ stamp' = stamp /\ refresh' = refresh
        /\ stamped' = stamped /\ history' = history
    BY <1>7 DEF IngestFinal, BeginIngest
  <2> QED
    BY <2>1, <2>2, NoticedIsCopied
<1>8. ASSUME NEW m \in Messages, Send(m)
      PROVE Noticed(k)'
  <2>1. JobsStay(k)
    BY <1>8 DEF Send, BeginIngest, JobsStay, NoJob
  <2>2. /\ ui' = ui /\ open' = open /\ shown' = shown /\ mem' = mem
        /\ file' = file /\ stamp' = stamp /\ refresh' = refresh
        /\ stamped' = stamped /\ history' = history
    BY <1>8 DEF Send, BeginIngest
  <2> QED
    BY <2>1, <2>2, NoticedIsCopied
<1>9. ASSUME NEW w \in Workers, Pack(w)
      PROVE Noticed(k)'
  <2>1. JobsStay(k)
    BY <1>9 DEF Pack, JobsStay, NoJob
  <2>2. /\ ui' = ui /\ open' = open /\ shown' = shown /\ mem' = mem
        /\ file' = file /\ stamp' = stamp /\ refresh' = refresh
        /\ stamped' = stamped /\ history' = history
    BY <1>9 DEF Pack
  <2> QED
    BY <2>1, <2>2, NoticedIsCopied
<1>10. ASSUME NEW w \in Workers, WriteEnvelope(w)
      PROVE Noticed(k)'
  <2> DEFINE m == job[w].msg
  <2>1. /\ ui' = ui /\ open' = open /\ shown' = shown /\ mem' = mem /\ refresh' = refresh
        /\ stamped' = stamped /\ missed' = missed
    BY <1>10 DEF WriteEnvelope
  <2>2. /\ file' = [file EXCEPT ![m] = "torn"]
        /\ k # m => stamp'[k] = stamp[k] /\ (k \in masked => k \in masked')
    BY <1>10 DEF WriteEnvelope, Touch
  <2>3. JobsStay(k)
    BY <1>10 DEF WriteEnvelope, JobsStay
  <2> HIDE DEF m
  <2> QED
    BY <2>1, <2>2, <2>3, NoticedIsCopied
<1>11. ASSUME NEW w \in Workers, FillEnvelope(w)
      PROVE Noticed(k)'
  <2> DEFINE m == job[w].msg
  <2>1. /\ ui' = ui /\ open' = open /\ shown' = shown /\ mem' = mem /\ refresh' = refresh
        /\ stamped' = stamped /\ missed' = missed
    BY <1>11 DEF FillEnvelope
  <2>2. job' = [job EXCEPT ![w].pc = "notify"]
    BY <1>11 DEF FillEnvelope
  <2>3. CASE k = m
    BY <2>2, <2>3 DEF Noticed, Announced
  <2>4. CASE k # m
    <3>1. file'[k] = file[k] /\ stamp'[k] = stamp[k] /\ (k \in masked => k \in masked')
      BY <1>11, <2>4 DEF FillEnvelope, Touch
    <3>2. JobsStay(k)
      BY <2>2, <2>4 DEF JobsStay
    <3> QED
      BY <2>1, <3>1, <3>2, NoticedIsCopied
  <2> QED
    BY <2>3, <2>4
<1>12. ASSUME NEW w \in Workers, Notify(w)
      PROVE Noticed(k)'
  BY <1>12 DEF Notify, Noticed, Announced
<1>13. ASSUME Reload
      PROVE Noticed(k)'
  <2>1. file' = file /\ open' = open /\ shown' = shown /\ masked' = masked
    BY <1>13 DEF Reload
  <2>2. CASE open
    <3>1. /\ ui'.pc = "scan" /\ ui'.listed = Stored /\ ui'.todo = Stored /\ ui'.pre = None
      BY <1>13, <2>2 DEF Reload, StartScan
    <3> QED
      BY <2>1, <3>1 DEF Noticed, Handled, Stored
  <2> QED
    BY <2>1, <2>2 DEF Noticed
<1>14. ASSUME EndScan
      PROVE Noticed(k)'
  <2>1. /\ file' = file /\ stamp' = stamp /\ mem' = mem /\ open' = open /\ shown' = shown
        /\ refresh' = refresh /\ job' = job
        /\ stamped' = stamped /\ history' = history
    BY <1>14 DEF EndScan
  <2>2. /\ ui.pc = "scan" /\ ui.todo = {} /\ ui'.pc = "sort" /\ ui'.goal = ui.goal
        /\ ui'.listed = ui.listed /\ ui'.pre = ui.pre
    BY <1>14 DEF EndScan, Activities
  <2>3. Announced(k) => Announced(k)'
    BY <2>1, <2>2 DEF Announced
  <2>4. Handled(k) => Handled(k)'
    BY <2>1, <2>2 DEF Handled, Fresh
  <2> QED
    BY <2>1, <2>3, <2>4 DEF Noticed
<1>15. ASSUME EndSort
      PROVE Noticed(k)'
  <2>1. /\ stamp' = stamp /\ open' = open /\ shown' = shown /\ refresh' = refresh /\ ui.pc = "sort"
        /\ stamped' = stamped /\ missed' = missed
    BY <1>15 DEF EndSort
  <2>2. CASE ui.goal = "clear"
    BY <1>15, <2>2 DEF EndSort, Resting, Noticed, Announced
  <2>3. CASE ui.goal # "clear"
    <3>1. /\ file' = file /\ mem' = mem /\ job' = job /\ masked' = masked
          /\ ui' = [ui EXCEPT !.pc = IF ui.goal = "purge" THEN "purge" ELSE "show",
                              !.todo = ui.listed]
      BY <1>15, <2>3 DEF EndSort
    <3>2. /\ ui'.goal = ui.goal /\ ui'.todo = ui.listed /\ ui'.pre = ui.pre
          /\ ui'.pc = IF ui.goal = "purge" THEN "purge" ELSE "show"
      BY <3>1 DEF Activities
    <3>3. Announced(k) => Announced(k)'
      BY <2>1, <2>3, <3>1, <3>2 DEF Announced
    <3>4. Handled(k) /\ ui.goal # "purge" => Handled(k)'
      BY <2>1, <3>1, <3>2 DEF Handled, Fresh
    <3> QED
      BY <2>1, <3>1, <3>2, <3>3, <3>4 DEF Noticed, Announced
  <2> QED
    BY <2>2, <2>3
<1>16. ASSUME EndShow
      PROVE Noticed(k)'
  <2>1. /\ file' = file /\ open' = open /\ refresh' = refresh /\ job' = job /\ ui.pc = "show"
        /\ history' = history
        /\ ui.todo = {} /\ ui' = Resting
        /\ shown' = [m \in Messages |-> IF m \in ui.listed THEN shown[m] ELSE None]
    BY <1>16 DEF EndShow
  <2>3. Announced(k) => Announced(k)'
    BY <2>1 DEF Announced
  <2>4. Handled(k) => Handled(k)'
    BY <2>1 DEF Handled, Rowed, Resting
  <2> QED
    BY <2>1, <2>3, <2>4 DEF Noticed
<1>17. ASSUME EndPurge
      PROVE Noticed(k)'
  BY <1>17 DEF EndPurge, Resting, Noticed, Announced
<1>18. ASSUME NEW m \in Messages, LoadStat(m)
      PROVE Noticed(k)'
  <2>1. /\ file' = file /\ stamp' = stamp /\ open' = open /\ shown' = shown
        /\ refresh' = refresh /\ job' = job
        /\ stamped' = stamped /\ missed' = missed /\ masked \subseteq masked'
    BY <1>18 DEF LoadStat
  <2>2. ui'.pc = ui.pc /\ ui'.todo = ui.todo /\ ui'.listed = ui.listed
    BY <1>18, LoadStatUI
  <2>3. ui'.goal = ui.goal /\ ui'.pre = BeforeLoad(m) /\ ui.cur = None
    BY <1>18 DEF LoadStat, Activities
  <2>4. mem'[m].sort = stamp[m] /\ mem'[m] # None /\ \A j \in Messages : j # m => mem'[j] = mem[j]
    BY <1>18, LoadStatKeeps DEF Cached
  <2>5. Announced(k) => Announced(k)'
    BY <2>1, <2>2, <2>3 DEF Announced
  <2>6. Fresh(k) => Fresh(k)'
    BY <2>1, <2>4 DEF Fresh
  <2>7. Rowed(k)' <=> Rowed(k)
    BY <2>1 DEF Rowed
  <2>8. ui.pc # "show" => ui'.pre = None
    BY <2>3 DEF BeforeLoad
  <2>9. ui'.pre # None /\ ui'.pre.msg = k /\ Fresh(k) /\ file[k] \in States /\ k \notin masked'
           => ui'.pre.state \in Readings(file[k])
    <3> SUFFICES ASSUME ui'.pre # None, ui'.pre.msg = k, Fresh(k), file[k] \in States,
                        k \notin masked'
                 PROVE  ui'.pre.state \in Readings(file[k])
      OBVIOUS
    <3>1. m = k /\ mem[k].state # None /\ ui'.pre.state = mem[k].state
      BY <2>3 DEF BeforeLoad
    <3>2. k # ui.cur /\ k \notin masked
      BY <2>1, <2>3
    <3>3. stamped = "off" => mem[k].sort = stamp[k]
      BY <3>1, <1>18 DEF LoadStat
    <3>4. mem[k] # None /\ mem[k].sort = stamp[k]
      BY <3>3 DEF Fresh
    <3> QED
      BY <3>1, <3>2, <3>4 DEF IInv, CacheCoherence, Coherent
  <2>10. Handled(k) /\ file[k] \in States /\ k \notin masked' => Handled(k)'
    BY <2>1, <2>2, <2>6, <2>7, <2>8, <2>9 DEF Handled
  <2> QED
    BY <2>1, <2>5, <2>10 DEF Noticed
<1>19. ASSUME LoadRead
      PROVE Noticed(k)'
  <2>1. /\ file' = file /\ stamp' = stamp /\ open' = open /\ shown' = shown
        /\ refresh' = refresh /\ job' = job
        /\ stamped' = stamped /\ history' = history
    BY <1>19 DEF LoadRead
  <2>2. ui'.pc = ui.pc /\ ui'.todo = ui.todo /\ ui'.listed = ui.listed
    BY <1>19, LoadReadUI
  <2>3. ui'.goal = ui.goal /\ ui'.pre = ui.pre
    BY <1>19, LoadReadCases DEF Activities
  <2>4. /\ mem'[k] = mem[k] \/ (mem[k] # None /\ mem'[k] # None /\ mem'[k].sort = mem[k].sort)
        /\ stamped # "off"
    BY <1>19, LoadReadKeeps, LoadReadCases DEF TInv, UIShape
  <2>5. Announced(k) => Announced(k)'
    BY <2>1, <2>2, <2>3 DEF Announced
  <2>6. Handled(k) => Handled(k)'
    BY <2>1, <2>2, <2>3, <2>4 DEF Handled, Fresh, Rowed
  <2> QED
    BY <2>1, <2>5, <2>6 DEF Noticed
<1>20. ASSUME LoadCheck
      PROVE Noticed(k)'
  <2>1. /\ file' = file /\ stamp' = stamp /\ open' = open /\ shown' = shown
        /\ refresh' = refresh /\ job' = job
        /\ stamped' = stamped /\ history' = history
    BY <1>20 DEF LoadCheck
  <2>2. ui'.pc = ui.pc /\ ui'.todo = ui.todo /\ ui'.listed = ui.listed
    BY <1>20, LoadCheckUI
  <2>3. ui'.goal = ui.goal /\ ui'.pre = ui.pre
    BY <1>20, LoadCheckEnds DEF Activities
  <2>4. /\ mem'[k] = mem[k] \/ (mem[k] # None /\ mem'[k] # None /\ mem'[k].sort = mem[k].sort)
        /\ stamped # "off"
    BY <1>20, LoadCheckKeeps, LoadCheckEnds DEF TInv, UIShape
  <2>5. Announced(k) => Announced(k)'
    BY <2>1, <2>2, <2>3 DEF Announced
  <2>6. Handled(k) => Handled(k)'
    BY <2>1, <2>2, <2>3, <2>4 DEF Handled, Fresh, Rowed
  <2> QED
    BY <2>1, <2>5, <2>6 DEF Noticed
<1>21. ASSUME NEW m \in Messages, ScanOne(m)
      PROVE Noticed(k)'
  <2>1. /\ file' = file /\ stamp' = stamp /\ open' = open /\ shown' = shown
        /\ refresh' = refresh /\ job' = job
        /\ stamped' = stamped /\ history' = history
    BY <1>21 DEF ScanOne
  <2>2. ui.pc = "scan" /\ ui'.pc = ui.pc /\ ui'.todo = ui.todo \ {m} /\ ui'.listed = ui.listed
    BY <1>21, ScanOneUI
  <2>3. ui'.goal = ui.goal /\ ui'.pre = ui.pre
    BY <1>21 DEF ScanOne, Activities
  <2>4. Announced(k) => Announced(k)'
    BY <2>1, <2>2, <2>3 DEF Announced
  <2>5. mem' \in [Messages -> Cached \cup {None}] /\ mem'[m] \in Cached
        /\ \A j \in Messages : j # m => mem'[j] = mem[j]
    BY <1>21, ScanOneKeeps
  <2>6. mem'[m] # None /\ (mem'[m].sort = stamp[m] \/ (stamped = "off" /\ ~mem'[m].loaded))
    BY <1>21, <2>5, ScanOneIsFresh DEF Cached
  <2>7. Handled(k) => Handled(k)'
    <3>1. CASE k = m
      BY <2>1, <2>2, <2>3, <2>6, <3>1 DEF Handled, Fresh
    <3>2. CASE k # m
      BY <2>1, <2>2, <2>3, <2>5, <3>2 DEF Handled, Fresh
    <3> QED
      BY <3>1, <3>2
  <2> QED
    BY <2>1, <2>4, <2>7 DEF Noticed
<1>22. ASSUME NEW m \in Messages, ShowOne(m)
      PROVE Noticed(k)'
  <2>1. /\ file' = file /\ stamp' = stamp /\ open' = open /\ mem' = mem
        /\ refresh' = refresh /\ job' = job
        /\ stamped' = stamped /\ history' = history
    BY <1>22 DEF ShowOne
  <2>2. /\ ui.pc = "show" /\ ui.cur = None /\ m \in ui.todo
        /\ ui'.pc = ui.pc /\ ui'.todo = ui.todo \ {m} /\ ui'.listed = ui.listed
        /\ ui'.goal = ui.goal /\ ui'.pre = None
    BY <1>22 DEF ShowOne, Activities
  <2>3. m \in ui.listed
    BY <2>2 DEF TInv, UIShape
  <2>4. Announced(k) => Announced(k)'
    BY <2>1, <2>2 DEF Announced
  <2>5. CASE k # m
    <3>1. shown'[k] = shown[k]
      BY <1>22, <2>5 DEF ShowOne
    <3>2. Handled(k) => Handled(k)'
      BY <2>1, <2>2, <2>5, <3>1 DEF Handled, Fresh, Rowed
    <3> QED
      BY <2>1, <2>4, <3>2 DEF Noticed
  <2>6. CASE k = m
    <3> SUFFICES ASSUME Handled(k), file[k] \in States, k \notin masked PROVE Handled(k)'
      BY <2>1, <2>4 DEF Noticed
    <3>1. Fresh(k) /\ (ui.pre # None /\ ui.pre.msg = k => ui.pre.state \in Readings(file[k]))
      BY <2>2, <2>6 DEF Handled
    <3>2. mem[k].loaded
      BY <1>22, <2>2, <2>6 DEF ShowOne, NeedsLoad
    <3>3. mem[k] # None /\ mem[k].sort = stamp[k] /\ mem[k].state # None
      BY <3>1, <3>2 DEF Fresh, LoadedIsKnown
    <3>4. mem[k].state \in Readings(file[k])
      BY <2>2, <3>3 DEF IInv, CacheCoherence, Coherent
    <3>5. /\ ui.pre # None => ui.pre.msg = k
          /\ \/ shown' = [shown EXCEPT ![k] = mem[k].state]
             \/ ui.pre # None /\ shown' = [shown EXCEPT ![k] = ui.pre.state]
      BY <1>22, <2>6, <3>3 DEF ShowOne
    <3>6. shown'[k] \in Readings(file[k])
      BY <3>1, <3>4, <3>5
    <3> QED
      BY <2>1, <2>2, <2>3, <2>6, <3>6 DEF Handled, Rowed
  <2> QED
    BY <2>5, <2>6
<1>23. ASSUME NEW m \in Messages, PurgeOne(m)
      PROVE Noticed(k)'
  <2>1. /\ ui.pc = "purge" /\ ui'.goal = ui.goal /\ open' = open /\ refresh' = refresh
    BY <1>23 DEF PurgeOne, Activities
  <2>2. JobsStay(k)
    <3>1. job' = job \/ RemoveFiles({m})
      BY <1>23 DEF PurgeOne
    <3> QED
      BY <3>1 DEF RemoveFiles, JobsStay, Jobs, NoJob
  <2>3. /\ missed' = missed
        /\ file'[k] = "absent" \/ (file'[k] = file[k] /\ (k \in masked => k \in masked'))
    BY <1>23 DEF PurgeOne, RemoveFiles
  <2>4. ui'.pc = ui.pc
    BY <1>23 DEF PurgeOne, Activities
  <2>5. ~Handled(k)
    BY <2>1 DEF Handled
  <2> QED
    BY <2>1, <2>2, <2>3, <2>4, <2>5, AnnouncedStays DEF Noticed
<1>24. ASSUME OpenConversation
      PROVE Noticed(k)'
  BY <1>24 DEF OpenConversation, Noticed, Announced, Activities
<1>25. ASSUME CloseConversation
      PROVE Noticed(k)'
  BY <1>25 DEF CloseConversation, Noticed
<1>26. ASSUME BeginPurge \/ BeginClear
      PROVE Noticed(k)'
  <2>1. ui'.goal \in {"purge", "clear"} /\ ui'.pc = "scan"
    BY <1>26 DEF BeginPurge, BeginClear, StartScan
  <2> QED
    BY <2>1 DEF Noticed, Announced
<1>27. ASSUME DeleteConversation
      PROVE Noticed(k)'
  BY <1>27 DEF DeleteConversation, Noticed
<1>28. ASSUME RunRefresh
      PROVE Noticed(k)'
  BY <1>28 DEF RunRefresh, Noticed, Announced, Activities
<1>29. ASSUME Restart
      PROVE Noticed(k)'
  BY <1>29 DEF Restart, Noticed
<1>30. ASSUME UNCHANGED vars
      PROVE Noticed(k)'
  <2>1. JobsStay(k)
    BY <1>30 DEF vars, JobsStay, NoJob
  <2>2. /\ ui' = ui /\ open' = open /\ shown' = shown /\ mem' = mem
        /\ file' = file /\ stamp' = stamp /\ refresh' = refresh
        /\ stamped' = stamped /\ history' = history
    BY <1>30 DEF vars
  <2> QED
    BY <2>1, <2>2, NoticedIsCopied
<1>31. ASSUME NEW m \in Messages, RouterRetries(m)
      PROVE Noticed(k)'
  <2>1. JobsStay(k)
    BY <1>31 DEF RouterRetries, JobsStay, NoJob
  <2>2. /\ ui' = ui /\ open' = open /\ shown' = shown /\ mem' = mem
        /\ file' = file /\ stamp' = stamp /\ refresh' = refresh
        /\ stamped' = stamped /\ history' = history
    BY <1>31 DEF RouterRetries
  <2> QED
    BY <2>1, <2>2, NoticedIsCopied
<1>32. ASSUME DropRefresh
      PROVE Noticed(k)'
  BY <1>32 DEF DropRefresh, Noticed
<1> QED
  BY <1>1, <1>2, <1>3, <1>4, <1>5, <1>6, <1>7, <1>8, <1>9, <1>10, <1>11, <1>12,
     <1>13, <1>14, <1>15, <1>16, <1>17, <1>18, <1>19, <1>20, <1>21, <1>22, <1>23, <1>24,
     <1>25, <1>26, <1>27, <1>28, <1>29, <1>30, <1>31, <1>32
  DEF Next, RouterStep, Callback, MessageNotification, IngestStep, UIStep,
      LoadStep, UserAction

\* The invariant behind ViewIsCurrent holds in every reachable state: the
\* callbacks of the router write an envelope at any step of a refresh of the UI
\* thread, and each change is either in the refresh under way or announced, unless
\* the announcement was dropped or the change is masked.
THEOREM NoChangeIsMissed == Spec => []VInv
<1>1. Init => LoadedIsKnown /\ \A m \in Messages : Noticed(m)
  BY DEF Init, NoEntries, LoadedIsKnown, Noticed
<1>2. VInv /\ [Next]_vars => (LoadedIsKnown /\ \A m \in Messages : Noticed(m))'
  BY KnownStep, NoticedStep DEF VInv
<1>3. IInv /\ IInv' /\ VInv /\ [Next]_vars => VInv'
  BY <1>2 DEF VInv
<1>4. Init /\ IInv => VInv
  BY <1>1 DEF VInv
<1> QED
  BY <1>3, <1>4, Inductive, PTL DEF Spec

\* When the UI thread is free, no refresh is queued or was dropped and no Ingest is
\* under way, the open conversation shows every stored message that is not masked in
\* the state its envelope is in, for any number of messages and of callbacks that
\* wrote meanwhile.
THEOREM ViewStaysCurrent == Spec => []ViewIsCurrent
<1>1. VInv => ViewIsCurrent
  BY DEF VInv, Noticed, Announced, Handled, Rowed, ViewIsCurrent, UIFree, Resting, NoJob
<1> QED
  BY <1>1, NoChangeIsMissed, PTL

-----------------------------------------------------------------------------
(***************************************************************************)
(* When nothing is masked, and the exceptions of the theorems above are    *)
(* void: every write advances the time of its file, and no conversation is *)
(* opened before the router is up.                                         *)
(***************************************************************************)

\* The messages being handled carry the transport and the PendingChecker.
Stamps ==
  /\ ui.pc \in {"scan", "sort", "show", "purge"} => stamped = "router"
  /\ open => online = "router"

\* Stamps is inductive when no conversation is opened early.
LEMMA StampsStep ==
  ASSUME ~EarlyUse
  PROVE  TInv /\ Stamps /\ [Next]_vars => Stamps'
<1> SUFFICES ASSUME TInv, Stamps, [Next]_vars PROVE Stamps'
  OBVIOUS
<1> USE DEF TInv, TypeOK, UIShape, Stamps, Activities, Resting, disk, router, view, history
<1>1. ASSUME InitRNS
      PROVE Stamps'
  BY <1>1 DEF InitRNS
<1>2. ASSUME NEW m \in Messages, RouterSends(m)
      PROVE Stamps'
  BY <1>2 DEF RouterSends
<1>3. ASSUME NEW m \in Messages, RouterEnds(m)
      PROVE Stamps'
  BY <1>3 DEF RouterEnds
<1>4. ASSUME NEW m \in Messages, RouterForgets(m)
      PROVE Stamps'
  BY <1>4 DEF RouterForgets
<1>5. ASSUME NEW d \in Deliverers, NEW m \in Messages, Deliver(d, m)
      PROVE Stamps'
  BY <1>5 DEF Deliver, BeginIngest
<1>6. ASSUME NEW d \in Deliverers, NEW m \in Messages, RetryPropagated(d, m)
      PROVE Stamps'
  BY <1>6 DEF RetryPropagated
<1>7. ASSUME NEW d \in Deliverers, NEW m \in Messages, IngestFinal(d, m)
      PROVE Stamps'
  BY <1>7 DEF IngestFinal, BeginIngest
<1>8. ASSUME NEW m \in Messages, Send(m)
      PROVE Stamps'
  BY <1>8 DEF Send, BeginIngest, UIFree
<1>9. ASSUME NEW w \in Workers, Pack(w)
      PROVE Stamps'
  BY <1>9 DEF Pack
<1>10. ASSUME NEW w \in Workers, WriteEnvelope(w)
      PROVE Stamps'
  BY <1>10 DEF WriteEnvelope, Touch
<1>11. ASSUME NEW w \in Workers, FillEnvelope(w)
      PROVE Stamps'
  BY <1>11 DEF FillEnvelope, Touch
<1>12. ASSUME NEW w \in Workers, Notify(w)
      PROVE Stamps'
  BY <1>12 DEF Notify, Blank
<1>13. ASSUME Reload
      PROVE Stamps'
  BY <1>13 DEF Reload, StartScan, Stored
<1>14. ASSUME EndScan
      PROVE Stamps'
  BY <1>14 DEF EndScan
<1>15. ASSUME EndSort
      PROVE Stamps'
  BY <1>15 DEF EndSort, Indexed, RemoveFiles, NoEntries, Todo, NeedsLoad
<1>16. ASSUME EndShow
      PROVE Stamps'
  BY <1>16 DEF EndShow, Indexed
<1>17. ASSUME EndPurge
      PROVE Stamps'
  BY <1>17 DEF EndPurge
<1>18. ASSUME NEW m \in Messages, LoadStat(m)
      PROVE Stamps'
  BY <1>18 DEF LoadStat, BeforeLoad
<1>19. ASSUME LoadRead
      PROVE Stamps'
  BY <1>19 DEF LoadRead, Loaded
<1>20. ASSUME LoadCheck
      PROVE Stamps'
  BY <1>20 DEF LoadCheck, Loaded
<1>21. ASSUME NEW m \in Messages, ScanOne(m)
      PROVE Stamps'
  BY <1>21 DEF ScanOne, Discovered, Rescanned, Blank, EnvelopeNewerThanSnapshot
<1>22. ASSUME NEW m \in Messages, ShowOne(m)
      PROVE Stamps'
  BY <1>22 DEF ShowOne
<1>23. ASSUME NEW m \in Messages, PurgeOne(m)
      PROVE Stamps'
  BY <1>23 DEF PurgeOne, RemoveFiles, NeedsLoad
<1>24. ASSUME OpenConversation
      PROVE Stamps'
  BY <1>24 DEF OpenConversation, UIFree
<1>25. ASSUME CloseConversation
      PROVE Stamps'
  BY <1>25 DEF CloseConversation, UIFree, NoEntries
<1>26. ASSUME BeginPurge \/ BeginClear
      PROVE Stamps'
  BY <1>26 DEF BeginPurge, BeginClear, StartScan, Stored, UIFree
<1>27. ASSUME DeleteConversation
      PROVE Stamps'
  BY <1>27 DEF DeleteConversation, UIFree, NoEntries
<1>28. ASSUME RunRefresh
      PROVE Stamps'
  BY <1>28 DEF RunRefresh, UIFree
<1>29. ASSUME Restart
      PROVE Stamps'
  BY <1>29 DEF Restart, NoEntries
<1>30. ASSUME UNCHANGED vars
      PROVE Stamps'
  BY <1>30 DEF vars, disk, router, view, history
<1>31. ASSUME NEW m \in Messages, RouterRetries(m)
      PROVE Stamps'
  BY <1>31 DEF RouterRetries
<1>32. ASSUME DropRefresh
      PROVE Stamps'
  BY <1>32 DEF DropRefresh
<1> QED
  BY <1>1, <1>2, <1>3, <1>4, <1>5, <1>6, <1>7, <1>8, <1>9, <1>10, <1>11, <1>12,
     <1>13, <1>14, <1>15, <1>16, <1>17, <1>18, <1>19, <1>20, <1>21, <1>22, <1>23, <1>24,
     <1>25, <1>26, <1>27, <1>28, <1>29, <1>30, <1>31, <1>32
  DEF Next, RouterStep, Callback, MessageNotification, IngestStep, UIStep,
      LoadStep, UserAction

\* With a fine clock and a program that is not used while it comes up, no write
\* escapes the rescan by modification time.
THEOREM NothingIsMasked ==
  ASSUME FineClock, ~EarlyUse
  PROVE  Spec => [](masked = {})
<1> DEFINE Inv == TInv /\ Stamps /\ masked = {}
<1>1. Init => Inv
  BY InitTInv DEF Init, Stamps, Resting
<1>2. Inv /\ [Next]_vars => Inv'
  <2> SUFFICES ASSUME TInv, Stamps, masked = {}, [Next]_vars PROVE masked' = {}
    BY TypeStep, HandedStep, ShapeStep, StampsStep DEF TInv
  <2> USE DEF history, vars
  <2>1. ASSUME NEW w \in Workers, WriteEnvelope(w) \/ FillEnvelope(w)
        PROVE  masked' = {}
    BY <2>1 DEF WriteEnvelope, FillEnvelope, Touch
  <2>2. ASSUME NEW m \in Messages, LoadStat(m)
        PROVE  masked' = {}
    <3>1. stamped # "off"
      BY <2>2 DEF LoadStat, Stamps
    <3> QED
      BY <2>2, <3>1 DEF LoadStat
  <2>3. ASSUME EndSort \/ \E m \in Messages : PurgeOne(m)
        PROVE  masked' = {}
    BY <2>3 DEF EndSort, PurgeOne, RemoveFiles
  <2>4. ASSUME InitRNS \/ RouterStep \/ Callback \/ \E w \in Workers : Pack(w) \/ Notify(w)
        PROVE  masked' = {}
    BY <2>4 DEF InitRNS, RouterStep, RouterSends, RouterEnds, RouterRetries, RouterForgets,
      Callback, Deliver, MessageNotification, RetryPropagated, IngestFinal, Pack, Notify
  <2>5. ASSUME Reload \/ EndScan \/ EndShow \/ EndPurge \/ LoadRead \/ LoadCheck
        PROVE  masked' = {}
    BY <2>5 DEF Reload, EndScan, EndShow, EndPurge, LoadRead, LoadCheck
  <2>6. ASSUME NEW m \in Messages, ScanOne(m) \/ ShowOne(m)
        PROVE  masked' = {}
    BY <2>6 DEF ScanOne, ShowOne
  <2>7. ASSUME UserAction \/ RunRefresh \/ DropRefresh
        PROVE  masked' = {}
    BY <2>7 DEF UserAction, OpenConversation, CloseConversation, BeginPurge, BeginClear,
      DeleteConversation, Send, RunRefresh, DropRefresh
  <2>8. ASSUME Restart \/ UNCHANGED vars
        PROVE  masked' = {}
    BY <2>8 DEF Restart
  <2> QED
    BY <2>1, <2>2, <2>3, <2>4, <2>5, <2>6, <2>7, <2>8 DEF Next, IngestStep, UIStep, LoadStep
<1>3. Inv => masked = {}
  OBVIOUS
<1> QED
  BY <1>1, <1>2, <1>3, PTL DEF Spec
=============================================================================
