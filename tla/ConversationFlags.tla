------------------------- MODULE ConversationFlags -------------------------
(***************************************************************************)
(* The unread and failed tallies of one conversation:                      *)
(* nomadnet/conversation/cache.go, ConversationCache.                      *)
(*                                                                         *)
(* A tally lives twice: in a map of the cache, guarded by cc.mu, and as a  *)
(* decimal number in a flag file of the conversation directory.  Ingest    *)
(* bumps the map under the lock and writes the file after releasing it;    *)
(* MarkRead and Delete remove the file first and the map entry afterwards. *)
(* Ingest runs on the goroutines of the LXMF router (Deliverers) and, for  *)
(* a message being sent, on the UI thread; MarkRead, Delete, PurgeFailed   *)
(* and ClearHistory run on the UI thread.  The maps of two conversations   *)
(* share no entry, so one conversation is the whole of the behaviour.      *)
(***************************************************************************)
EXTENDS Naturals, FiniteSets

CONSTANTS
  Deliverers,   \* the router goroutines that run delivery and failure callbacks
  UI,           \* the thread of the terminal interface
  Inbound,      \* messages a peer sends to this conversation
  Outbound,     \* messages the user sends in it
  TornWrites,   \* the process may die between the two halves of os.WriteFile
  None          \* no map entry, no flag file, no message

ASSUME WorkersAssumption == UI \notin Deliverers
ASSUME MessagesAssumption == Inbound \cap Outbound = {}
ASSUME MessagesAreFinite == IsFiniteSet(Inbound \cup Outbound)
ASSUME TornWritesAssumption == TornWrites \in BOOLEAN

Messages == Inbound \cup Outbound
Workers  == Deliverers \cup {UI}
Kinds    == {"unread", "failed"}

ASSUME NoneAssumption == None \notin Nat \cup Messages \cup Kinds

VARIABLES
  dir,        \* the conversation directory exists
  envelope,   \* envelope[m]: what the file of m says, "absent" without a file
  flagFile,   \* flagFile[k]: the number readCountFile makes of the flag file,
              \* None without a file
  counts,     \* counts[k]: the entry of cc.unread / cc.failed, None without one
  lxm,        \* lxm[m]: how far the router is with m
  told,       \* the messages the router has no more callbacks for
  retry,      \* the messages sent with TryPropagationOnFail, which is still set
  notices,    \* the messages the router has sent again by itself, and not yet
              \* called back about
  job,        \* job[w]: the Ingest worker w is running
  uiOp,       \* the step of MarkRead or Delete the UI thread is at
  waiting,    \* history: waiting[k] is the set of messages stored, with what
              \* k flags, since the flag file of k was last removed
  cutOff      \* history: the messages whose Ingest or last callback a crash cut off

routerVars == <<lxm, told, retry, notices>>
vars == <<dir, envelope, flagFile, counts, routerVars, job, uiOp, waiting, cutOff>>

Idle == [pc |-> "idle", msg |-> None, kind |-> None, n |-> None]

Jobs == {Idle}
  \cup [pc : {"write", "count"}, msg : Messages, kind : {None}, n : {None}]
  \cup [pc : {"open"}, msg : Messages, kind : Kinds, n : Nat]
  \cup [pc : {"fill"}, msg : Messages, kind : Kinds \cup {None}, n : Nat]

TypeOK ==
  /\ dir \in BOOLEAN
  /\ envelope \in [Messages -> {"absent", "received", "new", "outbound", "failed", "delivered"}]
  /\ flagFile \in [Kinds -> Nat \cup {None}]
  /\ counts \in [Kinds -> Nat \cup {None}]
  /\ lxm \in [Messages -> {"new", "outbound", "failed", "delivered"}]
  /\ told \in SUBSET Messages
  /\ retry \in SUBSET Outbound
  /\ notices \in SUBSET Outbound
  /\ job \in [Workers -> Jobs]
  /\ uiOp \in {"idle", "mark_failed", "mark_maps", "delete_rmdir", "delete_maps"}
  /\ waiting \in [Kinds -> SUBSET Messages]
  /\ cutOff \in SUBSET Messages

Init ==
  /\ dir = FALSE
  /\ envelope = [m \in Messages |-> "absent"]
  /\ flagFile = [k \in Kinds |-> None]
  /\ counts = [k \in Kinds |-> None]
  /\ lxm = [m \in Messages |-> "new"]
  /\ told = {}
  /\ retry = {}
  /\ notices = {}
  /\ job = [w \in Workers |-> Idle]
  /\ uiOp = "idle"
  /\ waiting = [k \in Kinds |-> {}]
  /\ cutOff = {}

(***************************************************************************)
(* readCountFile: a missing file counts as 0, an empty one as 1.           *)
(***************************************************************************)
ReadCountFile(k) == IF flagFile[k] = None THEN 0 ELSE flagFile[k]

\* msg.State() of an outbound message, as whoever holds the message reads it.
HasFailed(m) == m \in Outbound /\ lxm[m] = "failed"

\* The flag Ingest raises for m, if any.
FlagKinds(m) ==
  IF m \in Inbound THEN {"unread"} ELSE IF HasFailed(m) THEN {"failed"} ELSE {}

\* What WriteToDirectory puts in the file of m.
EnvelopeOf(m) ==
  IF m \in Inbound THEN "received" ELSE lxm[m]

InFlight == {job[w].msg : w \in Workers} \ {None}

DirEmpty == /\ \A m \in Messages : envelope[m] = "absent"
            /\ \A k \in Kinds : flagFile[k] = None

Free(w) == job[w] = Idle /\ (w = UI => uiOp = "idle")

-----------------------------------------------------------------------------
(***************************************************************************)
(* Ingest, one action per point at which another goroutine can intervene.  *)
(***************************************************************************)

\* os.MkdirAll.
BeginIngest(w, m) ==
  /\ Free(w)
  /\ dir' = TRUE
  /\ job' = [job EXCEPT ![w] = [pc |-> "write", msg |-> m, kind |-> None, n |-> None]]
  /\ UNCHANGED <<envelope, flagFile, counts, uiOp, waiting, cutOff>>

\* lxmfDelivery: the router hands an inbound message over once.
Deliver(d, m) ==
  /\ m \in Inbound /\ lxm[m] = "new"
  /\ BeginIngest(d, m)
  /\ lxm' = [lxm EXCEPT ![m] = "delivered"]
  /\ told' = told \cup {m}
  /\ UNCHANGED <<retry, notices>>

\* Send: HandleOutbound has put the message in the router's hands by now, with
\* TryPropagationOnFail set if there is a propagation node and the user wants it.
Send(m) ==
  /\ m \in Outbound /\ lxm[m] = "new"
  /\ BeginIngest(UI, m)
  /\ lxm' = [lxm EXCEPT ![m] = "outbound"]
  /\ retry' \in {retry, retry \cup {m}}
  /\ UNCHANGED <<told, notices>>

\* The router reaches a final state of an outbound message; its callback,
\* MessageNotification, runs later.  A rejected message is flagged as failed, but it
\* is not retried: what TryPropagationOnFail says no longer matters.
RouterEnds(m) ==
  /\ lxm[m] = "outbound" /\ m \notin told
  /\ \/ /\ \E s \in {"delivered", "failed"} : lxm' = [lxm EXCEPT ![m] = s]
        /\ UNCHANGED retry
     \/ /\ lxm' = [lxm EXCEPT ![m] = "failed"]
        /\ retry' = retry \ {m}
  /\ UNCHANGED <<dir, envelope, flagFile, counts, told, notices, job, uiOp, waiting, cutOff>>

\* A router that retries by itself resets the flag before it calls back.
RouterRetries(m) ==
  /\ m \in retry /\ lxm[m] = "failed"
  /\ retry' = retry \ {m}
  /\ lxm' = [lxm EXCEPT ![m] = "outbound"]
  /\ notices' = notices \cup {m}
  /\ UNCHANGED <<dir, envelope, flagFile, counts, told, job, uiOp, waiting, cutOff>>

\* MessageNotification, the callback of the router, ingests the message in the
\* state it has reached ...
MessageNotification(d, m) ==
  /\ \/ /\ m \in notices
        /\ notices' = notices \ {m}
        /\ UNCHANGED told
     \/ /\ m \in Outbound \ told /\ lxm[m] \in {"delivered", "failed"}
        /\ ~(m \in retry /\ lxm[m] = "failed")
        /\ told' = told \cup {m}
        /\ UNCHANGED notices
  /\ BeginIngest(d, m)
  /\ UNCHANGED <<lxm, retry>>

\* ... unless it failed with TryPropagationOnFail set, which hands it to the router
\* once more and ingests nothing.  The error of HandleOutbound is dropped: the
\* message is then left as it is or as "outbound", and no callback follows.
RetryPropagated(d, m) ==
  /\ Free(d)
  /\ m \in retry /\ lxm[m] = "failed"
  /\ retry' = retry \ {m}
  /\ \/ /\ lxm' = [lxm EXCEPT ![m] = "outbound"]
        /\ told' \in {told, told \cup {m}}
     \/ /\ told' = told \cup {m}
        /\ UNCHANGED lxm
  /\ UNCHANGED <<dir, envelope, flagFile, counts, notices, job, uiOp, waiting, cutOff>>

\* WriteToDirectory.  Without the directory it fails, and Ingest returns.
WriteEnvelope(w) ==
  LET m == job[w].msg IN
  /\ job[w].pc = "write"
  /\ \/ /\ dir
        /\ envelope' = [envelope EXCEPT ![m] = EnvelopeOf(m)]
        /\ job' = [job EXCEPT ![w].pc = "count"]
        /\ waiting' = [k \in Kinds |->
             IF k \in FlagKinds(m) THEN waiting[k] \cup {m} ELSE waiting[k] \ {m}]
     \/ /\ ~dir
        /\ job' = [job EXCEPT ![w] = Idle]
        /\ UNCHANGED <<envelope, waiting>>
  /\ UNCHANGED <<dir, flagFile, counts, routerVars, uiOp, cutOff>>

\* Mutant: the counter starts from zero, not from the flag file.
IncrementFromZero(w) ==
  LET m == job[w].msg IN
  /\ job[w].pc = "count"
  /\ \/ /\ FlagKinds(m) = {}
        /\ job' = [job EXCEPT ![w] = Idle]
        /\ UNCHANGED counts
     \/ \E k \in FlagKinds(m) :
          LET n == 1 + (IF counts[k] = None THEN 0 ELSE counts[k])
          IN  /\ counts' = [counts EXCEPT ![k] = n]
              /\ job' = [job EXCEPT ![w] = [pc |-> "open", msg |-> m, kind |-> k, n |-> n]]
  /\ UNCHANGED <<dir, envelope, flagFile, routerVars, uiOp, waiting, cutOff>>

\* Mutant: the flag file is written only for the first message counted.
IncrementFlagsFirst(w) ==
  LET m == job[w].msg IN
  /\ job[w].pc = "count"
  /\ \/ /\ FlagKinds(m) = {}
        /\ job' = [job EXCEPT ![w] = Idle]
        /\ UNCHANGED counts
     \/ \E k \in FlagKinds(m) :
          LET n == 1 + (IF counts[k] = None THEN ReadCountFile(k) ELSE counts[k])
          IN  /\ counts' = [counts EXCEPT ![k] = n]
              /\ job' = [job EXCEPT ![w] = IF counts[k] # None THEN Idle
                           ELSE [pc |-> "open", msg |-> m, kind |-> k, n |-> n]]
  /\ UNCHANGED <<dir, envelope, flagFile, routerVars, uiOp, waiting, cutOff>>

\* increment, under cc.mu: the map entry is seeded from the flag file when
\* there is none.  Ingest is over for a message that raises no flag.
Increment(w) ==
  LET m == job[w].msg IN
  /\ job[w].pc = "count"
  /\ \/ /\ FlagKinds(m) = {}
        /\ job' = [job EXCEPT ![w] = Idle]
        /\ UNCHANGED counts
     \/ \E k \in FlagKinds(m) :
          LET n == 1 + (IF counts[k] = None THEN ReadCountFile(k) ELSE counts[k])
          IN  /\ counts' = [counts EXCEPT ![k] = n]
              /\ job' = [job EXCEPT ![w] = [pc |-> "open", msg |-> m, kind |-> k, n |-> n]]
  /\ UNCHANGED <<dir, envelope, flagFile, routerVars, uiOp, waiting, cutOff>>

\* writeCountFile, outside the lock.  os.WriteFile first creates or truncates
\* the file, and an empty flag file reads as 1; its error is dropped.
OpenCountFile(w) ==
  LET k == job[w].kind IN
  /\ job[w].pc = "open"
  /\ \/ /\ dir
        /\ flagFile' = [flagFile EXCEPT ![k] = 1]
        /\ job' = [job EXCEPT ![w].pc = "fill"]
     \/ /\ ~dir
        /\ job' = [job EXCEPT ![w] = Idle]
        /\ UNCHANGED flagFile
  /\ UNCHANGED <<dir, envelope, counts, routerVars, uiOp, waiting, cutOff>>

\* Mutant: the file is left without its number.
FillCountFileEmpty(w) ==
  /\ job[w].pc = "fill"
  /\ job' = [job EXCEPT ![w] = Idle]
  /\ UNCHANGED <<dir, envelope, flagFile, counts, routerVars, uiOp, waiting, cutOff>>

\* Mutant: the worker is freed without forgetting its message.
FillCountFileKeepsJob(w) ==
  /\ job[w].pc = "fill"
  /\ flagFile' = [k \in Kinds |-> IF k = job[w].kind THEN job[w].n ELSE flagFile[k]]
  /\ job' = [job EXCEPT ![w].pc = "idle"]
  /\ UNCHANGED <<dir, envelope, counts, routerVars, uiOp, waiting, cutOff>>

\* The number goes into the file that was opened, which is lost if the file was
\* removed since: RemoveFlagFiles has then cleared job[w].kind.
FillCountFile(w) ==
  /\ job[w].pc = "fill"
  /\ flagFile' = [k \in Kinds |-> IF k = job[w].kind THEN job[w].n ELSE flagFile[k]]
  /\ job' = [job EXCEPT ![w] = Idle]
  /\ UNCHANGED <<dir, envelope, counts, routerVars, uiOp, waiting, cutOff>>

-----------------------------------------------------------------------------
(***************************************************************************)
(* The user interface: MarkRead, Delete, PurgeFailed and ClearHistory.     *)
(***************************************************************************)

RemoveFlagFiles(ks) ==
  /\ flagFile' = [k \in Kinds |-> IF k \in ks THEN None ELSE flagFile[k]]
  /\ waiting' = [k \in Kinds |-> IF k \in ks THEN {} ELSE waiting[k]]
  /\ job' = [w \in Workers |->
       IF job[w].pc = "fill" /\ job[w].kind \in ks
       THEN [job[w] EXCEPT !.kind = None] ELSE job[w]]

DropMapEntries == counts' = [k \in Kinds |-> None]

\* removeFlagFile("unread"), then removeFlagFile("failed"), then the maps.
MarkRead ==
  /\ Free(UI)
  /\ RemoveFlagFiles({"unread"})
  /\ uiOp' = "mark_failed"
  /\ UNCHANGED <<dir, envelope, counts, routerVars, cutOff>>

MarkReadFailed ==
  /\ uiOp = "mark_failed"
  /\ RemoveFlagFiles({"failed"})
  /\ uiOp' = "mark_maps"
  /\ UNCHANGED <<dir, envelope, counts, routerVars, cutOff>>

MarkReadMaps ==
  /\ uiOp = "mark_maps"
  /\ DropMapEntries
  /\ uiOp' = "idle"
  /\ UNCHANGED <<dir, envelope, flagFile, routerVars, job, waiting, cutOff>>

\* os.RemoveAll empties the directory ...
Delete ==
  /\ Free(UI)
  /\ envelope' = [m \in Messages |-> "absent"]
  /\ RemoveFlagFiles(Kinds)
  /\ uiOp' = "delete_rmdir"
  /\ UNCHANGED <<dir, counts, routerVars, cutOff>>

\* ... and then removes it, which fails when a file has appeared meanwhile:
\* Delete returns the error and leaves the maps alone.
DeleteRmdir ==
  /\ uiOp = "delete_rmdir"
  /\ \/ /\ DirEmpty
        /\ dir' = FALSE
        /\ uiOp' = "delete_maps"
     \/ /\ ~DirEmpty
        /\ uiOp' = "idle"
        /\ UNCHANGED dir
  /\ UNCHANGED <<envelope, flagFile, counts, routerVars, job, waiting, cutOff>>

DeleteMaps ==
  /\ uiOp = "delete_maps"
  /\ DropMapEntries
  /\ uiOp' = "idle"
  /\ UNCHANGED <<dir, envelope, flagFile, routerVars, job, waiting, cutOff>>

\* PurgeFailed removes the files of the messages the conversation shows as
\* failed, which may include outbound ones the router no longer holds;
\* ClearHistory removes all files.  Neither touches the flags.
RemoveEnvelopes(ms) ==
  /\ Free(UI)
  /\ envelope' = [m \in Messages |-> IF m \in ms THEN "absent" ELSE envelope[m]]
  /\ UNCHANGED <<dir, flagFile, counts, routerVars, job, uiOp, waiting, cutOff>>

PurgeFailed ==
  \E ms \in SUBSET {m \in Messages : envelope[m] = "outbound"
                                      /\ (lxm[m] # "outbound" \/ m \in told)} :
    RemoveEnvelopes(ms \cup {m \in Messages : envelope[m] = "failed"})

ClearHistory == RemoveEnvelopes(Messages)

\* The process dies and is started again: the disk is what remains.  The router's
\* outbound queue is gone, so no more callbacks come for what it held.
Restart ==
  /\ TornWrites \/ \A w \in Workers : job[w].pc # "fill"
  /\ counts' = [k \in Kinds |-> None]
  /\ job' = [w \in Workers |-> Idle]
  /\ uiOp' = "idle"
  /\ told' = {m \in Messages : lxm[m] # "new"}
  /\ retry' = {}
  /\ notices' = {}
  /\ cutOff' = cutOff \cup InFlight \cup (told' \ told)
  /\ UNCHANGED <<dir, envelope, flagFile, lxm, waiting>>

-----------------------------------------------------------------------------
IngestStep(w) ==
  WriteEnvelope(w) \/ Increment(w) \/ OpenCountFile(w) \/ FillCountFile(w)

UIStep == MarkReadFailed \/ MarkReadMaps \/ DeleteRmdir \/ DeleteMaps

Next ==
  \/ \E d \in Deliverers, m \in Messages :
       Deliver(d, m) \/ MessageNotification(d, m) \/ RetryPropagated(d, m)
  \/ \E m \in Messages : Send(m) \/ RouterEnds(m) \/ RouterRetries(m)
  \/ \E w \in Workers : IngestStep(w)
  \/ MarkRead \/ Delete \/ UIStep
  \/ PurgeFailed \/ ClearHistory
  \/ Restart

Spec == Init /\ [][Next]_vars

-----------------------------------------------------------------------------
(***************************************************************************)
(* What the tallies promise.                                               *)
(***************************************************************************)

\* The router has said the last of m, and it is that m failed.
GivenUp(m) == m \in told /\ lxm[m] = "failed"

\* A message that was stored after the flag file was last removed has the
\* conversation flagged as soon as its Ingest returns, whatever deliveries, callbacks,
\* MarkRead and Delete come between (Ingest flags after storing; MarkRead and Delete
\* remove the files).  There are two exceptions.  A crash costs the badge of a
\* message whose Ingest, or whose last callback, it cut off: the file is stored
\* before the flag is written, and nothing makes up for it later.  And a failure
\* counts once the router has given the message up: the Ingest of Send may store it
\* as failed and find it outbound again, for the retry, when it looks for the flag.
NoLostFlag ==
  \A k \in Kinds : \A m \in waiting[k] \ (InFlight \cup cutOff) :
    (k = "failed" => GivenUp(m)) => flagFile[k] # None

\* "the badge reads "(N)" for N waiting messages" (UnreadCount) and "a restart
\* does not reset the tally" (increment): once the Ingests at work are over, the
\* flag file counts at least the messages that wait, across MarkRead, Delete
\* and restarts, but for those whose Ingest a restart cut off.
TallyCoversWaiting ==
  \A k \in Kinds : (\A w \in Workers : job[w].pc # "fill")
    => Cardinality(waiting[k] \ (InFlight \cup cutOff)) <= ReadCountFile(k)

\* "The counter value is what lands in the flag file" (Ingest): between two
\* operations, the map entry and the file agree wherever both exist.
FlagFileHoldsTheCount ==
  uiOp = "idle" /\ InFlight = {} =>
    \A k \in Kinds : None \in {counts[k], flagFile[k]} \/ counts[k] = flagFile[k]
=============================================================================
