-------------------------- MODULE ConversationStore --------------------------
(***************************************************************************)
(* One conversation: the envelope files its messages are stored in, the    *)
(* .index that caches what the files say, the messages in memory that      *)
(* cache both, and the list the terminal interface shows.                  *)
(*                                                                         *)
(* nomadnet/conversation (conversation.go, message.go, display.go,         *)
(* send.go, cache.go) with their callers in nomadnet/app (actions.go,      *)
(* messages.go, senddeps.go) and cmd/gonomadnet/textui.go.                 *)
(*                                                                         *)
(* The UI thread is the only one that scans, loads, indexes, shows and     *)
(* removes; the goroutines of the LXMF router write envelopes at any time. *)
(* What tells the UI that a file changed is its modification time, compared *)
(* with the sort timestamp kept in memory and in the index.  Times are     *)
(* compared for one message at a time, so each message has its own clock.  *)
(* The tallies of the conversation are in ConversationFlags, attachments   *)
(* in Attachments.                                                         *)
(***************************************************************************)
EXTENDS Naturals, FiniteSets

CONSTANTS
  Deliverers,    \* router goroutines that run delivery and failure callbacks
  UI,            \* the thread of the terminal interface
  Inbound,       \* messages the peer sends
  Outbound,      \* messages the user sends
  CanRetry,      \* the outbound messages with TryPropagationOnFail
  FineClock,     \* every write of a file advances its modification time
  EarlyUse,      \* the user may open the conversation before initRNS is over
  MaxRestarts,   \* bound on the number of restarts of the program
  None           \* no message, no record, no state

Messages == Inbound \cup Outbound
Workers  == Deliverers \cup {UI}

\* What LXMF says of a message, in its file, in the index and in memory.
States == {"received", "outbound", "sent", "delivered", "failed"}

ASSUME WorkersAssumption == UI \notin Deliverers
ASSUME MessagesAssumption == Inbound \cap Outbound = {} /\ CanRetry \subseteq Outbound
ASSUME MessagesAreFinite == IsFiniteSet(Messages)
ASSUME FlagsAssumption == FineClock \in BOOLEAN /\ EarlyUse \in BOOLEAN
ASSUME RestartsAssumption == MaxRestarts \in Nat

VARIABLES
  file,      \* file[m]: the state in the envelope of m, "torn" while or after
             \* half of it was written, "absent" without a file
  stamp,     \* stamp[m]: modification time of the file (of the last one)
  index,     \* index[m]: the entry of m in .index, None without one
  lxm,       \* lxm[m]: the state of the message in the router's hands
  queued,    \* outbound messages the router answers GetOutboundProgress for
  due,       \* outbound messages whose final callback has not begun
  retry,     \* outbound messages with TryPropagationOnFail still set
  online,    \* how far initRNS is: "off", "transport", "router"
  mem,       \* mem[m]: the Message of c.Messages, None when not listed
  stamped,   \* which of Transport and PendingChecker the messages carry
  job,       \* job[w]: the Ingest worker w is running
  ui,        \* what the UI thread is doing
  open,      \* the conversation is the open one
  shown,     \* shown[m]: the state the open view shows, None for no row
  refresh,   \* an OnChanged refresh waits in the queue of the UI thread
  restarts,  \* restarts so far
  missed,    \* the last refresh of the open conversation was dropped, and no
             \* reload has run since
  masked     \* messages whose cached states may carry the time of a file that
             \* they were not read from

vars == <<file, stamp, index, lxm, queued, due, retry, online, mem, stamped,
          job, ui, open, shown, refresh, restarts, missed, masked>>

disk   == <<file, stamp, index>>
router == <<lxm, queued, due, retry>>
view   == <<open, shown>>

\* History, which nothing in the program reads.
history == <<missed, masked>>

NoJob == [pc |-> "idle", msg |-> None, val |-> None]

Jobs == {NoJob}
  \cup [pc : {"pack"}, msg : Messages, val : {None}]
  \cup [pc : {"write", "fill", "lost", "notify"}, msg : Messages, val : States]

Resting == [pc |-> "idle", goal |-> None, listed |-> {}, todo |-> {},
            cur |-> None, got |-> None, pre |-> None]

Activities ==
  [pc : {"idle", "reload", "scan", "sort", "show", "purge"},
   goal : {"refresh", "purge", "clear", None},
   listed : SUBSET Messages, todo : SUBSET Messages, cur : Messages \cup {None},
   got : {"outbound", None}, pre : [msg : Messages, state : States] \cup {None}]

Entries == [state : States, sort : Nat]
Cached  == [state : States \cup {None}, sort : Nat, loaded : BOOLEAN, timed : BOOLEAN]

ASSUME NoneAssumption == None \notin Messages \cup States \cup Nat \cup Entries \cup Cached

TypeOK ==
  /\ file \in [Messages -> States \cup {"absent", "torn"}]
  /\ stamp \in [Messages -> Nat]
  /\ index \in [Messages -> Entries \cup {None}]
  /\ lxm \in [Messages -> States \cup {"new"}]
  /\ queued \in SUBSET Outbound
  /\ due \in SUBSET Outbound
  /\ retry \in SUBSET Outbound
  /\ online \in {"off", "transport", "router"}
  /\ mem \in [Messages -> Cached \cup {None}]
  /\ stamped \in {"off", "transport", "router"}
  /\ job \in [Workers -> Jobs]
  /\ ui \in Activities
  /\ open \in BOOLEAN
  /\ shown \in [Messages -> States \cup {"unknown", None}]
  /\ refresh \in BOOLEAN
  /\ restarts \in 0..MaxRestarts
  /\ missed \in BOOLEAN
  /\ masked \in SUBSET Messages

NoEntries == [m \in Messages |-> None]

Init ==
  /\ file = [m \in Messages |-> "absent"]
  /\ stamp = [m \in Messages |-> 0]
  /\ index = NoEntries
  /\ lxm = [m \in Messages |-> "new"]
  /\ queued = {} /\ due = {} /\ retry = CanRetry
  /\ online = "off"
  /\ mem = NoEntries
  /\ stamped = "off"
  /\ job = [w \in Workers |-> NoJob]
  /\ ui = Resting
  /\ open = FALSE
  /\ shown = NoEntries
  /\ refresh = FALSE
  /\ restarts = 0
  /\ missed = FALSE /\ masked = {}

Stored == {m \in Messages : file[m] # "absent"}
UIFree == ui = Resting /\ job[UI] = NoJob

\* Removing the files of ms: a write in progress loses its file.  Nothing is masked
\* by the time of a file that is not there.
RemoveFiles(ms) ==
  /\ file' = [m \in Messages |-> IF m \in ms THEN "absent" ELSE file[m]]
  /\ job' = [w \in Workers |->
       IF job[w].pc = "fill" /\ job[w].msg \in ms
       THEN [job[w] EXCEPT !.pc = "lost"] ELSE job[w]]
  /\ masked' = masked \ ms

-----------------------------------------------------------------------------
(***************************************************************************)
(* The LXMF router, and initRNS bringing it up.                            *)
(***************************************************************************)

\* initRNS publishes the transport, and much later the router.
InitRNS ==
  /\ online' = CASE online = "off" -> "transport" [] online = "transport" -> "router"
                 [] OTHER -> online
  /\ online # "router"
  /\ UNCHANGED <<disk, router, mem, stamped, job, ui, view, refresh, restarts, history>>

\* A message leaves for the network; its proof may follow.
RouterSends(m) ==
  /\ m \in queued /\ lxm[m] = "outbound"
  /\ lxm' = [lxm EXCEPT ![m] = "sent"]
  /\ UNCHANGED <<disk, queued, due, retry, online, mem, stamped, job, ui, view,
                 refresh, restarts, history>>

\* The final state.  A failed message leaves the queue at once, a delivered one
\* when the router next looks.
RouterEnds(m) ==
  /\ m \in queued /\ lxm[m] \in {"outbound", "sent"}
  /\ \/ lxm' = [lxm EXCEPT ![m] = "delivered"] /\ queued' = queued
     \/ lxm' = [lxm EXCEPT ![m] = "failed"] /\ queued' = queued \ {m}
  /\ due' = due \cup {m}
  /\ UNCHANGED <<disk, retry, online, mem, stamped, job, ui, view, refresh, restarts, history>>

\* A router that retries by itself resets the flag before it calls back.
RouterRetries(m) ==
  /\ m \in due \cap retry /\ lxm[m] = "failed"
  /\ retry' = retry \ {m}
  /\ lxm' = [lxm EXCEPT ![m] = "outbound"]
  /\ queued' = queued \cup {m}
  /\ UNCHANGED <<disk, due, online, mem, stamped, job, ui, view, refresh, restarts,
                 history>>

RouterForgets(m) ==
  /\ m \in queued /\ lxm[m] = "delivered"
  /\ queued' = queued \ {m}
  /\ UNCHANGED <<disk, lxm, due, retry, online, mem, stamped, job, ui, view,
                 refresh, restarts, history>>

-----------------------------------------------------------------------------
(***************************************************************************)
(* Ingest.  The state that goes into the envelope is read when the message *)
(* is packed, and os.WriteFile truncates the file before it writes.        *)
(***************************************************************************)

BeginIngest(w, m) ==
  /\ job[w] = NoJob
  /\ job' = [job EXCEPT ![w] = [pc |-> "pack", msg |-> m, val |-> None]]

\* lxmfDelivery.
Deliver(d, m) ==
  /\ m \in Inbound /\ lxm[m] = "new" /\ online = "router"
  /\ BeginIngest(d, m)
  /\ lxm' = [lxm EXCEPT ![m] = "received"]
  /\ UNCHANGED <<disk, queued, due, retry, online, mem, stamped, ui, view,
                 refresh, restarts, history>>

\* Send, from the composer of the open conversation: HandleOutbound, then Ingest
\* on the UI thread.
Send(m) ==
  /\ m \in Outbound /\ lxm[m] = "new" /\ online = "router"
  /\ open /\ UIFree
  /\ BeginIngest(UI, m)
  /\ lxm' = [lxm EXCEPT ![m] = "outbound"]
  /\ queued' = queued \cup {m}
  /\ UNCHANGED <<disk, due, retry, online, mem, stamped, ui, view, refresh, restarts, history>>

\* A failed message with TryPropagationOnFail goes back to the router, and nothing
\* is ingested.  The error of HandleOutbound is dropped: the message is then left as
\* it is or as "outbound", and the router does not hold it.
RetryPropagated(d, m) ==
  /\ m \in due /\ job[d] = NoJob
  /\ lxm[m] = "failed" /\ m \in retry
  /\ retry' = retry \ {m}
  /\ \/ /\ lxm' = [lxm EXCEPT ![m] = "outbound"]
        /\ queued' \in {queued, queued \cup {m}}
     \/ UNCHANGED <<lxm, queued>>
  /\ due' = due \ {m}
  /\ UNCHANGED <<disk, online, mem, stamped, job, ui, view, refresh, restarts, history>>

IngestFinal(d, m) ==
  /\ m \in due
  /\ lxm[m] = "failed" => m \notin retry
  /\ BeginIngest(d, m)
  /\ due' = due \ {m}
  /\ UNCHANGED <<disk, lxm, queued, retry, online, mem, stamped, ui, view,
                 refresh, restarts, history>>

MessageNotification(d, m) == RetryPropagated(d, m) \/ IngestFinal(d, m)

Pack(w) ==
  /\ job[w].pc = "pack"
  /\ job' = [job EXCEPT ![w].pc = "write", ![w].val = lxm[job[w].msg]]
  /\ UNCHANGED <<disk, router, online, mem, stamped, ui, view, refresh, restarts, history>>

\* Memory or the index has an entry with the time the file has now.
TimeIsCached(m) ==
  \/ mem[m] # None /\ mem[m].sort = stamp[m]
  \/ index[m] # None /\ index[m].sort = stamp[m]

\* A write sets the modification time, to a later one unless the clock of the
\* file system is too coarse to tell: a cache with that time then masks the write.
Touch(m) ==
  \/ /\ stamp' = [stamp EXCEPT ![m] = @ + 1]
     /\ masked' = masked \ {m}
  \/ /\ ~FineClock /\ stamp[m] # 0
     /\ masked' = IF TimeIsCached(m) THEN masked \cup {m} ELSE masked
     /\ UNCHANGED stamp

WriteEnvelope(w) ==
  LET m == job[w].msg IN
  /\ job[w].pc = "write"
  /\ file' = [file EXCEPT ![m] = "torn"]
  /\ Touch(m)
  /\ job' = [job EXCEPT ![w].pc = "fill"]
  /\ UNCHANGED <<index, router, online, mem, stamped, ui, view, refresh, restarts,
                 missed>>

FillEnvelope(w) ==
  LET m == job[w].msg IN
  /\ \/ /\ job[w].pc = "fill"
        /\ file' = [file EXCEPT ![m] = job[w].val]
        /\ Touch(m)
     \/ /\ job[w].pc = "lost"
        /\ UNCHANGED <<file, stamp, masked>>
  /\ job' = [job EXCEPT ![w].pc = "notify"]
  /\ UNCHANGED <<index, router, online, mem, stamped, ui, view, refresh, restarts,
                 missed>>

Blank(m) == [state |-> None, sort |-> stamp[m], loaded |-> FALSE, timed |-> FALSE]

\* Mutant: Ingest does not fire OnChanged.
NotifyNobody(w) ==
  /\ job[w].pc = "notify"
  /\ job' = [job EXCEPT ![w] = NoJob]
  /\ IF w = UI
     THEN /\ mem' = [mem EXCEPT ![job[w].msg] = Blank(job[w].msg)]
          /\ ui' = [ui EXCEPT !.pc = "reload"]
     ELSE UNCHANGED <<mem, ui>>
  /\ UNCHANGED <<disk, router, online, stamped, view, refresh, restarts, history>>

\* OnChanged, the end of Ingest.  Send then appends the message to c.Messages
\* and has the open view reloaded.
Notify(w) ==
  /\ job[w].pc = "notify"
  /\ refresh' = TRUE
  /\ missed' = FALSE
  /\ job' = [job EXCEPT ![w] = NoJob]
  /\ IF w = UI
     THEN /\ mem' = [mem EXCEPT ![job[w].msg] = Blank(job[w].msg)]
          /\ ui' = [ui EXCEPT !.pc = "reload"]
     ELSE UNCHANGED <<mem, ui>>
  /\ UNCHANGED <<disk, router, online, stamped, view, restarts, masked>>

-----------------------------------------------------------------------------
(***************************************************************************)
(* ScanStorage: conversationFor stamps the messages, the directory is      *)
(* listed, and each file is matched with what memory and the index know.   *)
(***************************************************************************)

StartScan(goal) ==
  /\ ui' = [pc |-> "scan", goal |-> goal, listed |-> Stored, todo |-> Stored,
            cur |-> None, got |-> None, pre |-> None]
  /\ mem' = [m \in Messages |-> IF m \in Stored THEN mem[m] ELSE None]
  /\ stamped' = online

\* envelopeNewerThanSnapshot.
EnvelopeNewerThanSnapshot(m) ==
  stamped # "off" /\ stamp[m] > index[m].sort

\* Mutant: a rewritten file only moves in the list.
RescannedKeepsState(m) ==
  IF stamp[m] > mem[m].sort THEN [mem[m] EXCEPT !.sort = stamp[m]] ELSE mem[m]

\* Mutant: the state of a rewritten file is dropped, but it counts as loaded.
RescannedStaysLoaded(m) ==
  IF stamp[m] > mem[m].sort
  THEN [mem[m] EXCEPT !.state = None, !.sort = stamp[m]]
  ELSE mem[m]

\* A known file that was rewritten loses its cached state.
Rescanned(m) ==
  IF stamp[m] > mem[m].sort
  THEN [state |-> None, sort |-> stamp[m], loaded |-> FALSE, timed |-> mem[m].timed]
  ELSE mem[m]

\* A new file is restored from the index unless the index is older.
Discovered(m) ==
  IF index[m] # None /\ ~EnvelopeNewerThanSnapshot(m)
  THEN [state |-> index[m].state, sort |-> index[m].sort, loaded |-> FALSE, timed |-> TRUE]
  ELSE Blank(m)

ScanOne(m) ==
  /\ ui.pc = "scan" /\ m \in ui.todo
  /\ mem' = [mem EXCEPT ![m] = IF mem[m] = None THEN Discovered(m) ELSE Rescanned(m)]
  /\ ui' = [ui EXCEPT !.todo = @ \ {m}]
  /\ UNCHANGED <<disk, router, online, stamped, job, view, refresh, restarts, history>>

\* The sort compares timestamps, which loads the messages that have none as
\* soon as there are two to compare.
EndScan ==
  /\ ui.pc = "scan" /\ ui.todo = {}
  /\ ui' = [ui EXCEPT !.pc = "sort",
       !.todo = IF Cardinality(ui.listed) > 1
                THEN {m \in ui.listed : ~mem[m].timed} ELSE {}]
  /\ UNCHANGED <<disk, router, online, mem, stamped, job, view, refresh, restarts, history>>

\* WriteIndex: the messages whose state is known replace their entries.
Indexed == [m \in Messages |->
  IF m \in ui.listed /\ mem[m] # None /\ mem[m].state # None
  THEN [state |-> mem[m].state, sort |-> mem[m].sort] ELSE index[m]]

-----------------------------------------------------------------------------
(***************************************************************************)
(* Load, in the steps a rewrite of the file can come between.              *)
(***************************************************************************)

NeedsLoad(m) ==
  /\ ~mem[m].loaded
  /\ CASE ui.pc = "sort"  -> ~mem[m].timed
       [] ui.pc = "purge" -> mem[m].state = None
       [] OTHER           -> TRUE

\* What DisplayMessages may have read of a restored message before loading it.
BeforeLoad(m) ==
  IF ui.pc = "show" /\ mem[m].state # None
  THEN [msg |-> m, state |-> mem[m].state] ELSE None

\* os.Stat; without a transport that is all there is, and the message counts as
\* loaded with the time of a file that was not read.
LoadStat(m) ==
  /\ ui.pc \in {"sort", "show", "purge"} /\ ui.cur = None /\ ui.pre = None
  /\ m \in ui.todo /\ NeedsLoad(m)
  /\ IF stamped = "off"
     THEN /\ mem' = [mem EXCEPT ![m] =
               [state |-> mem[m].state, sort |-> stamp[m], loaded |-> TRUE, timed |-> TRUE]]
          /\ ui' = [ui EXCEPT !.pre = BeforeLoad(m)]
          /\ masked' = IF mem[m].state # None /\ mem[m].sort = stamp[m]
                       THEN masked ELSE masked \cup {m}
     ELSE /\ mem' = [mem EXCEPT ![m] = [@ EXCEPT !.sort = stamp[m]]]
          /\ ui' = [ui EXCEPT !.cur = m, !.pre = BeforeLoad(m)]
          /\ UNCHANGED masked
  /\ UNCHANGED <<disk, router, online, stamped, job, view, refresh, restarts, missed>>

Loaded(m, state) ==
  [mem EXCEPT ![m] = [state |-> state, sort |-> @.sort, loaded |-> TRUE, timed |-> TRUE]]

\* Mutant: an envelope that cannot be unpacked counts as one that can.
LoadReadUnchecked ==
  LET m == ui.cur IN
  /\ m # None /\ ui.got = None
  /\ \/ /\ file[m] = "outbound" /\ stamped = "router"
        /\ ui' = [ui EXCEPT !.got = "outbound"]
        /\ UNCHANGED mem
     \/ /\ file[m] = "outbound" => stamped # "router"
        /\ mem' = Loaded(m, file[m])
        /\ ui' = [ui EXCEPT !.cur = None]
  /\ UNCHANGED <<disk, router, online, stamped, job, view, refresh, restarts, history>>

\* The envelope is read and unpacked.  One that cannot be unpacked counts as
\* loaded; one that says "outbound" is checked against the router's queue.
LoadRead ==
  LET m == ui.cur IN
  /\ m # None /\ ui.got = None
  /\ \/ /\ file[m] = "torn"
        /\ mem' = Loaded(m, mem[m].state)
        /\ ui' = [ui EXCEPT !.cur = None]
     \/ /\ file[m] = "outbound" /\ stamped = "router"
        /\ ui' = [ui EXCEPT !.got = "outbound"]
        /\ UNCHANGED mem
     \/ /\ file[m] \in States
        /\ file[m] = "outbound" => stamped # "router"
        /\ mem' = Loaded(m, file[m])
        /\ ui' = [ui EXCEPT !.cur = None]
  /\ UNCHANGED <<disk, router, online, stamped, job, view, refresh, restarts, history>>

\* PendingChecker: a message the router does not hold was interrupted.
LoadCheck ==
  LET m == ui.cur IN
  /\ ui.got # None
  /\ mem' = Loaded(m, IF m \in queued THEN "outbound" ELSE "failed")
  /\ ui' = [ui EXCEPT !.cur = None, !.got = None]
  /\ UNCHANGED <<disk, router, online, stamped, job, view, refresh, restarts, history>>

-----------------------------------------------------------------------------
(***************************************************************************)
(* What the UI thread does with the scanned conversation.                  *)
(***************************************************************************)

Todo == {m \in ui.todo : NeedsLoad(m)}

EndSort ==
  /\ ui.pc = "sort" /\ ui.cur = None /\ Todo = {}
  /\ index' = Indexed
  /\ IF ui.goal = "clear"
     THEN /\ RemoveFiles(ui.listed)
          /\ mem' = NoEntries
          /\ ui' = [Resting EXCEPT !.pc = "reload"]
     ELSE /\ ui' = [ui EXCEPT !.pc = IF ui.goal = "purge" THEN "purge" ELSE "show",
                              !.todo = ui.listed]
          /\ UNCHANGED <<file, job, mem, masked>>
  /\ UNCHANGED <<stamp, router, online, stamped, view, refresh, restarts, missed>>

\* DisplayMessages.  IsMarkdown asks for the renderer, which the index does not
\* restore, so every message is loaded.  Whether the State field of the row is
\* read before or after that is up to the compiler.
ShowOne(m) ==
  /\ ui.pc = "show" /\ ui.cur = None
  /\ m \in ui.todo /\ ~NeedsLoad(m)
  /\ ui.pre # None => ui.pre.msg = m
  /\ \/ shown' = [shown EXCEPT ![m] = IF mem[m].state = None THEN "unknown" ELSE mem[m].state]
     \/ ui.pre # None /\ shown' = [shown EXCEPT ![m] = ui.pre.state]
  /\ ui' = [ui EXCEPT !.todo = @ \ {m}, !.pre = None]
  /\ UNCHANGED <<disk, router, online, mem, stamped, job, open, refresh, restarts, history>>

EndShow ==
  /\ ui.pc = "show" /\ ui.todo = {}
  /\ index' = Indexed
  /\ shown' = [m \in Messages |-> IF m \in ui.listed THEN shown[m] ELSE None]
  /\ ui' = Resting
  /\ UNCHANGED <<file, stamp, router, online, mem, stamped, job, open, refresh, restarts, history>>

\* PurgeFailed removes the messages whose state in memory is FAILED.
PurgeOne(m) ==
  /\ ui.pc = "purge" /\ ui.cur = None
  /\ m \in ui.todo /\ ~NeedsLoad(m)
  /\ IF mem[m].state = "failed"
     THEN RemoveFiles({m}) /\ mem' = [mem EXCEPT ![m] = None]
     ELSE UNCHANGED <<file, job, mem, masked>>
  /\ ui' = [ui EXCEPT !.todo = @ \ {m}]
  /\ UNCHANGED <<stamp, index, router, online, stamped, view, refresh, restarts, missed>>

EndPurge ==
  /\ ui.pc = "purge" /\ ui.todo = {}
  /\ ui' = [Resting EXCEPT !.pc = "reload"]
  /\ UNCHANGED <<disk, router, online, mem, stamped, job, view, refresh, restarts, history>>

\* ReloadCurrentMessages and RefreshOpenConversation do nothing without an open
\* conversation.
Reload ==
  /\ ui.pc = "reload"
  /\ IF open THEN StartScan("refresh")
             ELSE ui' = Resting /\ UNCHANGED <<mem, stamped>>
  /\ missed' = FALSE
  /\ UNCHANGED <<disk, router, online, job, view, refresh, restarts, masked>>

-----------------------------------------------------------------------------
(***************************************************************************)
(* What the UI thread begins when it is free.                              *)
(***************************************************************************)

OpenConversation ==
  /\ UIFree /\ ~open
  /\ EarlyUse \/ online = "router"
  /\ open' = TRUE
  /\ ui' = [ui EXCEPT !.pc = "reload"]
  /\ UNCHANGED <<disk, router, online, mem, stamped, job, shown, refresh, restarts, history>>

CloseConversation ==
  /\ UIFree /\ open
  /\ open' = FALSE
  /\ shown' = NoEntries
  /\ missed' = FALSE
  /\ UNCHANGED <<disk, router, online, mem, stamped, job, ui, refresh, restarts, masked>>

RunRefresh ==
  /\ UIFree /\ refresh
  /\ refresh' = FALSE
  /\ ui' = [ui EXCEPT !.pc = "reload"]
  /\ UNCHANGED <<disk, router, online, mem, stamped, job, view, restarts, history>>

\* QueueUpdateDraw drops what is in the queue when it is full, and what it was asked
\* to add when it is full again.  Nothing asks for the refresh a second time.
DropRefresh ==
  /\ refresh
  /\ refresh' = FALSE
  /\ missed' = open
  /\ UNCHANGED <<disk, router, online, mem, stamped, job, ui, view, restarts, masked>>

BeginPurge ==
  /\ UIFree /\ open
  /\ StartScan("purge")
  /\ UNCHANGED <<disk, router, online, job, view, refresh, restarts, history>>

BeginClear ==
  /\ UIFree /\ open
  /\ StartScan("clear")
  /\ UNCHANGED <<disk, router, online, job, view, refresh, restarts, history>>

\* ConversationCache.Delete removes the directory and drops the conversation.
\* An Ingest that has made the directory but not written to it yet fails,
\* unless another Ingest makes the directory again.
DeleteConversation ==
  /\ UIFree
  /\ file' = [m \in Messages |-> "absent"]
  /\ index' = NoEntries
  /\ mem' = NoEntries
  /\ stamped' = "off"
  /\ \E failing \in SUBSET {w \in Workers : job[w].pc \in {"pack", "write"}} :
       job' = [w \in Workers |->
         CASE w \in failing         -> NoJob
           [] job[w].pc = "fill"    -> [job[w] EXCEPT !.pc = "lost"]
           [] OTHER                 -> job[w]]
  /\ masked' = {}
  /\ UNCHANGED <<stamp, router, online, ui, view, refresh, restarts, missed>>

\* The process dies and is started again.  A crash while the index is being
\* written leaves one that cannot be read.
Restart ==
  /\ restarts < MaxRestarts
  /\ restarts' = restarts + 1
  /\ \/ UNCHANGED index
     \/ ui.pc \in {"sort", "show"} /\ index' = NoEntries
  /\ queued' = {} /\ due' = {}
  /\ online' = "off"
  /\ mem' = NoEntries
  /\ stamped' = "off"
  /\ job' = [w \in Workers |-> NoJob]
  /\ ui' = Resting
  /\ open' = FALSE
  /\ shown' = NoEntries
  /\ refresh' = FALSE
  /\ missed' = FALSE
  /\ masked' = {m \in masked : index'[m] # None /\ index'[m].sort = stamp[m]}
  /\ UNCHANGED <<file, stamp, lxm, retry>>

-----------------------------------------------------------------------------
RouterStep == \E m \in Messages :
  RouterSends(m) \/ RouterEnds(m) \/ RouterRetries(m) \/ RouterForgets(m)

Callback == \E d \in Deliverers, m \in Messages : Deliver(d, m) \/ MessageNotification(d, m)

IngestStep(w) == Pack(w) \/ WriteEnvelope(w) \/ FillEnvelope(w) \/ Notify(w)

LoadStep == (\E m \in Messages : LoadStat(m)) \/ LoadRead \/ LoadCheck

UIStep ==
  \/ Reload \/ EndScan \/ EndSort \/ EndShow \/ EndPurge \/ LoadStep
  \/ \E m \in Messages : ScanOne(m) \/ ShowOne(m) \/ PurgeOne(m)

UserAction ==
  \/ OpenConversation \/ CloseConversation \/ BeginPurge \/ BeginClear
  \/ DeleteConversation \/ \E m \in Messages : Send(m)

Next ==
  \/ InitRNS \/ RouterStep \/ Callback
  \/ \E w \in Workers : IngestStep(w)
  \/ UIStep \/ UserAction \/ RunRefresh \/ DropRefresh
  \/ Restart

Spec == Init /\ [][Next]_vars

\* The event loop goes on with what it began and runs what is queued for it, and
\* a worker finishes an Ingest it began.  Nothing is assumed of the user, the
\* network, initRNS or crashes.
Fairness ==
  /\ WF_vars(UIStep) /\ WF_vars(RunRefresh)
  /\ \A w \in Workers : WF_vars(IngestStep(w))

FairSpec == Spec /\ Fairness

-----------------------------------------------------------------------------
(***************************************************************************)
(* What the conversation promises.                                         *)
(***************************************************************************)

\* What may be said of a file: an "outbound" one is a failed one when the router
\* did not hold the message at the time.
Readings(s) == IF s = "outbound" THEN {"outbound", "failed"} ELSE {s}

\* A cached state with the sort timestamp of the file says what the file says, in
\* memory and in the index, whatever was written, crashed, retried or restored in
\* between.  ScanStorage relies on it: it rereads nothing else.  Excepted are the
\* messages the program cannot tell: written twice within a tick of the file clock,
\* or "loaded" before there was a transport, until the file gets another time or
\* every cache is dropped.
Coherent(m, state, sort) == sort = stamp[m] => state \in Readings(file[m])

CacheCoherence == \A m \in Messages \ masked : file[m] \in States =>
  /\ mem[m] # None /\ m # ui.cur => mem[m].state = None \/ Coherent(m, mem[m].state, mem[m].sort)
  /\ index[m] # None => Coherent(m, index[m].state, index[m].sort)

\* With nothing left to do, and the last refresh not dropped by a full queue, the
\* open conversation shows every stored message in the state its file is in.
ViewIsCurrent ==
  open /\ UIFree /\ ~refresh /\ ~missed /\ (\A w \in Workers : job[w] = NoJob)
    => \A m \in Messages \ masked :
         file[m] \in States => shown[m] \in Readings(file[m])

\* "this callback ingests ... so the local view reflects the final state"
\* (MessageNotification): once a message is final and nothing is under way, its
\* file says how it ended.
FinalStateIsStored ==
  \A m \in Outbound :
    (/\ lxm[m] \in {"delivered", "failed"} /\ file[m] # "absent"
     /\ m \notin queued \cup due /\ \A w \in Workers : job[w].msg # m
     /\ restarts = 0)
    => file[m] = lxm[m]

\* A message that is on disk while its conversation is open gets a row, unless the
\* queue of the event loop drops a refresh.
StoredIsShown ==
  \A m \in Messages : file[m] \in States /\ open ~>
    shown[m] # None \/ file[m] = "absent" \/ ~open \/ missed
=============================================================================
