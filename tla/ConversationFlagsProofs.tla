----------------------- MODULE ConversationFlagsProofs -----------------------
(***************************************************************************)
(* NoLostFlag of ConversationFlags, for any number of router goroutines    *)
(* and messages; and, for one router goroutine, the number that the badge  *)
(* shows, for any number of messages.                                      *)
(***************************************************************************)
EXTENDS ConversationFlags, FiniteSetTheorems, TLAPS

USE WorkersAssumption, MessagesAssumption, NoneAssumption

(***************************************************************************)
(* The inductive invariant.                                                *)
(***************************************************************************)

\* A waiting message lies in the directory, which is there.
WaitingIsStored ==
  \A k \in Kinds : waiting[k] # {} =>
    /\ dir
    /\ uiOp = "delete_rmdir" => \A m \in waiting[k] : envelope[m] # "absent"

\* The messages that flag k is about.
Counted(k) == IF k = "unread" THEN Inbound ELSE Outbound

\* A message waits under the flag that is about it, and a writer fills that flag.
FlagsAreRight ==
  /\ \A k \in Kinds : waiting[k] \subseteq Counted(k)
  /\ \A w \in Workers : job[w].kind # None => job[w].msg \in Counted(job[w].kind)

\* The UI thread does one thing at a time, and removes no file it is writing.
UIIsSequential ==
  /\ uiOp # "idle" => job[UI] = Idle
  /\ job[UI].pc = "fill" => job[UI].kind # None

\* A message stored as failed stays failed until it is sent once more.
FailsUntilRetried ==
  \A m \in waiting["failed"] : lxm[m] # "new" /\ (m \in retry => lxm[m] = "failed")

\* Worker w is going to flag m, if m needs it.
WillFlag(w, m) == job[w].msg = m /\ job[w].pc \in {"write", "count", "open"}

\* A message that waits is flagged, or about to be, or sent once more.
FlagFollows ==
  \A k \in Kinds : \A m \in waiting[k] \ cutOff :
    \/ flagFile[k] # None
    \/ \E w \in Workers : WillFlag(w, m)
    \/ k = "failed" /\ m \notin retry /\ ~GivenUp(m)

IInv ==
  /\ TypeOK
  /\ WaitingIsStored
  /\ FlagsAreRight
  /\ UIIsSequential
  /\ FailsUntilRetried
  /\ FlagFollows

-----------------------------------------------------------------------------
(***************************************************************************)
(* Type correctness.                                                       *)
(***************************************************************************)

\* Every variable keeps its type, whatever the goroutines and the user do.
LEMMA TypeStep == TypeOK /\ [Next]_vars => TypeOK'
<1> SUFFICES ASSUME TypeOK, [Next]_vars PROVE TypeOK'
  OBVIOUS
<1> USE DEF routerVars, TypeOK, Jobs, Idle, Messages, Workers, Kinds
<1>1. ASSUME NEW d \in Deliverers, NEW m \in Messages, Deliver(d, m) PROVE TypeOK'
  BY <1>1 DEF Deliver, BeginIngest
<1>2. ASSUME NEW d \in Deliverers, NEW m \in Messages,
             MessageNotification(d, m) \/ RetryPropagated(d, m)
      PROVE TypeOK'
  <2>1. CASE MessageNotification(d, m)
    BY <2>1 DEF MessageNotification, BeginIngest
  <2>2. CASE RetryPropagated(d, m)
    BY <2>2 DEF RetryPropagated
  <2> QED
    BY <1>2, <2>1, <2>2
<1>3. ASSUME NEW m \in Messages, Send(m) PROVE TypeOK'
  BY <1>3 DEF Send, BeginIngest
<1>4. ASSUME NEW m \in Messages, RouterEnds(m) \/ RouterRetries(m) PROVE TypeOK'
  BY <1>4 DEF RouterEnds, RouterRetries
<1>5. ASSUME NEW w \in Workers, WriteEnvelope(w) PROVE TypeOK'
  BY <1>5 DEF WriteEnvelope, EnvelopeOf, FlagKinds
<1>6. ASSUME NEW w \in Workers, Increment(w) PROVE TypeOK'
  BY <1>6 DEF Increment, ReadCountFile, FlagKinds
<1>7. ASSUME NEW w \in Workers, OpenCountFile(w) PROVE TypeOK'
  BY <1>7 DEF OpenCountFile
<1>8. ASSUME NEW w \in Workers, FillCountFile(w) PROVE TypeOK'
  BY <1>8 DEF FillCountFile
<1>9. ASSUME MarkRead \/ MarkReadFailed \/ Delete PROVE TypeOK'
  BY <1>9 DEF MarkRead, MarkReadFailed, Delete, RemoveFlagFiles
<1>10. ASSUME MarkReadMaps \/ DeleteRmdir \/ DeleteMaps PROVE TypeOK'
  BY <1>10 DEF MarkReadMaps, DeleteRmdir, DeleteMaps, DropMapEntries
<1>11. ASSUME PurgeFailed \/ ClearHistory PROVE TypeOK'
  BY <1>11 DEF PurgeFailed, ClearHistory, RemoveEnvelopes
<1>12. ASSUME Restart PROVE TypeOK'
  <2>1. told' \in SUBSET Messages /\ InFlight \in SUBSET Messages
    BY <1>12 DEF Restart, InFlight
  <2>2. cutOff' \in SUBSET Messages
    BY <2>1, <1>12 DEF Restart
  <2> QED
    BY <2>1, <2>2, <1>12 DEF Restart
<1>13. ASSUME UNCHANGED vars PROVE TypeOK'
  BY <1>13 DEF vars
<1> QED
  BY <1>1, <1>2, <1>3, <1>4, <1>5, <1>6, <1>7, <1>8, <1>9, <1>10, <1>11, <1>12, <1>13
  DEF Next, IngestStep, UIStep

\* The initial state is well typed.
LEMMA InitTypeOK == Init => TypeOK
<1> SUFFICES ASSUME Init PROVE TypeOK
  OBVIOUS
<1> USE DEF Init
<1>1. job \in [Workers -> Jobs]
  BY DEF Jobs
<1>2. waiting \in [Kinds -> SUBSET Messages]
  OBVIOUS
<1>3. dir \in BOOLEAN /\ told \in SUBSET Messages
  OBVIOUS
<1>4. envelope \in [Messages -> {"absent", "received", "new", "outbound",
                                "failed", "delivered"}]
  OBVIOUS
<1>5. lxm \in [Messages -> {"new", "outbound", "failed", "delivered"}]
  OBVIOUS
<1> QED
  BY <1>1, <1>2, <1>3, <1>4, <1>5 DEF TypeOK

\* TypeOK holds in every reachable state.
THEOREM TypeCorrect == Spec => []TypeOK
  BY InitTypeOK, TypeStep, PTL DEF Spec

-----------------------------------------------------------------------------
(***************************************************************************)
(* The strengthening, one lemma per conjunct.                              *)
(***************************************************************************)

\* UIIsSequential is inductive.
LEMMA UIStepSafe == TypeOK /\ UIIsSequential /\ [Next]_vars => UIIsSequential'
<1> SUFFICES ASSUME TypeOK, UIIsSequential, [Next]_vars PROVE UIIsSequential'
  OBVIOUS
<1> USE DEF routerVars, UIIsSequential, TypeOK, Jobs, Idle, Workers, Kinds
<1>1. ASSUME NEW d \in Deliverers, NEW m \in Messages, Deliver(d, m)
      PROVE UIIsSequential'
  BY <1>1 DEF Deliver, BeginIngest, Free
<1>2. ASSUME NEW d \in Deliverers, NEW m \in Messages,
             MessageNotification(d, m) \/ RetryPropagated(d, m)
      PROVE UIIsSequential'
  BY <1>2 DEF MessageNotification, RetryPropagated, BeginIngest, Free
<1>3. ASSUME NEW m \in Messages, Send(m)
      PROVE UIIsSequential'
  BY <1>3 DEF Send, BeginIngest, Free
<1>4. ASSUME NEW m \in Messages, RouterEnds(m) \/ RouterRetries(m)
      PROVE UIIsSequential'
  BY <1>4 DEF RouterEnds, RouterRetries
<1>5. ASSUME NEW w \in Workers, WriteEnvelope(w)
      PROVE UIIsSequential'
  BY <1>5 DEF WriteEnvelope
<1>6. ASSUME NEW w \in Workers, Increment(w)
      PROVE UIIsSequential'
  BY <1>6 DEF Increment
<1>7. ASSUME NEW w \in Workers, OpenCountFile(w)
      PROVE UIIsSequential'
  BY <1>7 DEF OpenCountFile
<1>8. ASSUME NEW w \in Workers, FillCountFile(w)
      PROVE UIIsSequential'
  BY <1>8 DEF FillCountFile
<1>9. ASSUME MarkRead \/ MarkReadFailed \/ Delete
      PROVE UIIsSequential'
  BY <1>9 DEF MarkRead, MarkReadFailed, Delete, RemoveFlagFiles, Free
<1>10. ASSUME MarkReadMaps \/ DeleteRmdir \/ DeleteMaps
      PROVE UIIsSequential'
  BY <1>10 DEF MarkReadMaps, DeleteRmdir, DeleteMaps, DirEmpty
<1>11. ASSUME PurgeFailed \/ ClearHistory
      PROVE UIIsSequential'
  BY <1>11 DEF PurgeFailed, ClearHistory, RemoveEnvelopes, Free
<1>12. ASSUME Restart
      PROVE UIIsSequential'
  BY <1>12 DEF Restart
<1>13. ASSUME UNCHANGED vars
      PROVE UIIsSequential'
  BY <1>13 DEF vars
<1> QED
  BY <1>1, <1>2, <1>3, <1>4, <1>5, <1>6, <1>7, <1>8, <1>9, <1>10, <1>11, <1>12, <1>13
  DEF Next, IngestStep, UIStep

\* FlagsAreRight is inductive.
LEMMA FlagsStep == TypeOK /\ FlagsAreRight /\ [Next]_vars => FlagsAreRight'
<1> SUFFICES ASSUME TypeOK, FlagsAreRight, [Next]_vars PROVE FlagsAreRight'
  OBVIOUS
<1> USE DEF routerVars, FlagsAreRight, Counted, FlagKinds, HasFailed, TypeOK, Jobs, Idle, Workers, Messages, Kinds
<1>1. ASSUME NEW d \in Deliverers, NEW m \in Messages, Deliver(d, m)
      PROVE FlagsAreRight'
  BY <1>1 DEF Deliver, BeginIngest, Free
<1>2. ASSUME NEW d \in Deliverers, NEW m \in Messages,
             MessageNotification(d, m) \/ RetryPropagated(d, m)
      PROVE FlagsAreRight'
  BY <1>2 DEF MessageNotification, RetryPropagated, BeginIngest, Free
<1>3. ASSUME NEW m \in Messages, Send(m)
      PROVE FlagsAreRight'
  BY <1>3 DEF Send, BeginIngest, Free
<1>4. ASSUME NEW m \in Messages, RouterEnds(m) \/ RouterRetries(m)
      PROVE FlagsAreRight'
  BY <1>4 DEF RouterEnds, RouterRetries
<1>5. ASSUME NEW w \in Workers, WriteEnvelope(w)
      PROVE FlagsAreRight'
  BY <1>5 DEF WriteEnvelope
<1>6. ASSUME NEW w \in Workers, Increment(w)
      PROVE FlagsAreRight'
  BY <1>6 DEF Increment
<1>7. ASSUME NEW w \in Workers, OpenCountFile(w)
      PROVE FlagsAreRight'
  BY <1>7 DEF OpenCountFile
<1>8. ASSUME NEW w \in Workers, FillCountFile(w)
      PROVE FlagsAreRight'
  BY <1>8 DEF FillCountFile
<1>9. ASSUME MarkRead \/ MarkReadFailed \/ Delete
      PROVE FlagsAreRight'
  BY <1>9 DEF MarkRead, MarkReadFailed, Delete, RemoveFlagFiles, Free
<1>10. ASSUME MarkReadMaps \/ DeleteRmdir \/ DeleteMaps
      PROVE FlagsAreRight'
  BY <1>10 DEF MarkReadMaps, DeleteRmdir, DeleteMaps, DirEmpty
<1>11. ASSUME PurgeFailed \/ ClearHistory
      PROVE FlagsAreRight'
  BY <1>11 DEF PurgeFailed, ClearHistory, RemoveEnvelopes, Free
<1>12. ASSUME Restart
      PROVE FlagsAreRight'
  BY <1>12 DEF Restart
<1>13. ASSUME UNCHANGED vars
      PROVE FlagsAreRight'
  BY <1>13 DEF vars
<1> QED
  BY <1>1, <1>2, <1>3, <1>4, <1>5, <1>6, <1>7, <1>8, <1>9, <1>10, <1>11, <1>12, <1>13
  DEF Next, IngestStep, UIStep

\* WaitingIsStored is inductive.
LEMMA StoredStep == TypeOK /\ UIIsSequential /\ WaitingIsStored /\ [Next]_vars => WaitingIsStored'
<1> SUFFICES ASSUME TypeOK, UIIsSequential, WaitingIsStored, [Next]_vars PROVE WaitingIsStored'
  OBVIOUS
<1> USE DEF routerVars, WaitingIsStored, UIIsSequential, EnvelopeOf, TypeOK, Jobs, Idle, Workers, Messages, Kinds
<1>1. ASSUME NEW d \in Deliverers, NEW m \in Messages, Deliver(d, m)
      PROVE WaitingIsStored'
  BY <1>1 DEF Deliver, BeginIngest, Free
<1>2. ASSUME NEW d \in Deliverers, NEW m \in Messages,
             MessageNotification(d, m) \/ RetryPropagated(d, m)
      PROVE WaitingIsStored'
  BY <1>2 DEF MessageNotification, RetryPropagated, BeginIngest, Free
<1>3. ASSUME NEW m \in Messages, Send(m)
      PROVE WaitingIsStored'
  BY <1>3 DEF Send, BeginIngest, Free
<1>4. ASSUME NEW m \in Messages, RouterEnds(m) \/ RouterRetries(m)
      PROVE WaitingIsStored'
  BY <1>4 DEF RouterEnds, RouterRetries
<1>5. ASSUME NEW w \in Workers, WriteEnvelope(w)
      PROVE WaitingIsStored'
  BY <1>5 DEF WriteEnvelope
<1>6. ASSUME NEW w \in Workers, Increment(w)
      PROVE WaitingIsStored'
  BY <1>6 DEF Increment
<1>7. ASSUME NEW w \in Workers, OpenCountFile(w)
      PROVE WaitingIsStored'
  BY <1>7 DEF OpenCountFile
<1>8. ASSUME NEW w \in Workers, FillCountFile(w)
      PROVE WaitingIsStored'
  BY <1>8 DEF FillCountFile
<1>9. ASSUME MarkRead \/ MarkReadFailed \/ Delete
      PROVE WaitingIsStored'
  BY <1>9 DEF MarkRead, MarkReadFailed, Delete, RemoveFlagFiles, Free
<1>10. ASSUME MarkReadMaps \/ DeleteRmdir \/ DeleteMaps
      PROVE WaitingIsStored'
  BY <1>10 DEF MarkReadMaps, DeleteRmdir, DeleteMaps, DirEmpty
<1>11. ASSUME PurgeFailed \/ ClearHistory
      PROVE WaitingIsStored'
  BY <1>11 DEF PurgeFailed, ClearHistory, RemoveEnvelopes, Free
<1>12. ASSUME Restart
      PROVE WaitingIsStored'
  BY <1>12 DEF Restart
<1>13. ASSUME UNCHANGED vars
      PROVE WaitingIsStored'
  BY <1>13 DEF vars
<1> QED
  BY <1>1, <1>2, <1>3, <1>4, <1>5, <1>6, <1>7, <1>8, <1>9, <1>10, <1>11, <1>12, <1>13
  DEF Next, IngestStep, UIStep

\* FailsUntilRetried is inductive.
LEMMA FailsStep == TypeOK /\ FlagsAreRight /\ FailsUntilRetried /\ [Next]_vars => FailsUntilRetried'
<1> SUFFICES ASSUME TypeOK, FlagsAreRight, FailsUntilRetried, [Next]_vars PROVE FailsUntilRetried'
  OBVIOUS
<1> USE DEF routerVars, FailsUntilRetried, FlagsAreRight, Counted, FlagKinds, HasFailed, TypeOK, Jobs, Idle, Workers, Messages, Kinds
<1>1. ASSUME NEW d \in Deliverers, NEW m \in Messages, Deliver(d, m)
      PROVE FailsUntilRetried'
  BY <1>1 DEF Deliver, BeginIngest, Free
<1>2. ASSUME NEW d \in Deliverers, NEW m \in Messages,
             MessageNotification(d, m) \/ RetryPropagated(d, m)
      PROVE FailsUntilRetried'
  BY <1>2 DEF MessageNotification, RetryPropagated, BeginIngest, Free
<1>3. ASSUME NEW m \in Messages, Send(m)
      PROVE FailsUntilRetried'
  BY <1>3 DEF Send, BeginIngest, Free
<1>4. ASSUME NEW m \in Messages, RouterEnds(m) \/ RouterRetries(m)
      PROVE FailsUntilRetried'
  BY <1>4 DEF RouterEnds, RouterRetries
<1>5. ASSUME NEW w \in Workers, WriteEnvelope(w)
      PROVE FailsUntilRetried'
  BY <1>5 DEF WriteEnvelope
<1>6. ASSUME NEW w \in Workers, Increment(w)
      PROVE FailsUntilRetried'
  BY <1>6 DEF Increment
<1>7. ASSUME NEW w \in Workers, OpenCountFile(w)
      PROVE FailsUntilRetried'
  BY <1>7 DEF OpenCountFile
<1>8. ASSUME NEW w \in Workers, FillCountFile(w)
      PROVE FailsUntilRetried'
  BY <1>8 DEF FillCountFile
<1>9. ASSUME MarkRead \/ MarkReadFailed \/ Delete
      PROVE FailsUntilRetried'
  BY <1>9 DEF MarkRead, MarkReadFailed, Delete, RemoveFlagFiles, Free
<1>10. ASSUME MarkReadMaps \/ DeleteRmdir \/ DeleteMaps
      PROVE FailsUntilRetried'
  BY <1>10 DEF MarkReadMaps, DeleteRmdir, DeleteMaps, DirEmpty
<1>11. ASSUME PurgeFailed \/ ClearHistory
      PROVE FailsUntilRetried'
  BY <1>11 DEF PurgeFailed, ClearHistory, RemoveEnvelopes, Free
<1>12. ASSUME Restart
      PROVE FailsUntilRetried'
  BY <1>12 DEF Restart
<1>13. ASSUME UNCHANGED vars
      PROVE FailsUntilRetried'
  BY <1>13 DEF vars
<1> QED
  BY <1>1, <1>2, <1>3, <1>4, <1>5, <1>6, <1>7, <1>8, <1>9, <1>10, <1>11, <1>12, <1>13
  DEF Next, IngestStep, UIStep

\* FlagFollows is inductive, given the rest.
LEMMA FollowStep == IInv /\ [Next]_vars => FlagFollows'
<1> SUFFICES ASSUME IInv, [Next]_vars PROVE FlagFollows'
  OBVIOUS
<1> USE DEF routerVars, IInv, FlagFollows, WillFlag, GivenUp, TypeOK, Jobs, Idle, Workers, Messages, Kinds
<1>1. ASSUME NEW d \in Deliverers, NEW m \in Messages, Deliver(d, m)
      PROVE FlagFollows'
  BY <1>1 DEF Deliver, BeginIngest, Free
<1>2. ASSUME NEW d \in Deliverers, NEW m \in Messages,
             MessageNotification(d, m) \/ RetryPropagated(d, m)
      PROVE FlagFollows'
  BY <1>2 DEF MessageNotification, RetryPropagated, BeginIngest, Free
<1>3. ASSUME NEW m \in Messages, Send(m)
      PROVE FlagFollows'
  BY <1>3 DEF Send, BeginIngest, Free
<1>4. ASSUME NEW m \in Messages, RouterEnds(m) \/ RouterRetries(m)
      PROVE FlagFollows'
  BY <1>4 DEF RouterEnds, RouterRetries
<1>5. ASSUME NEW w \in Workers, WriteEnvelope(w)
      PROVE FlagFollows'
  <2>1. CASE dir
    BY <2>1, <1>5 DEF WriteEnvelope, FlagKinds, HasFailed
  <2>2. CASE ~dir
    BY <2>2, <1>5 DEF WriteEnvelope, WaitingIsStored
  <2> QED
    BY <2>1, <2>2
<1>6. ASSUME NEW w \in Workers, Increment(w)
      PROVE FlagFollows'
  <2> SUFFICES ASSUME NEW k \in Kinds, NEW m \in waiting[k] \ cutOff, flagFile[k] = None,
                      ~(k = "failed" /\ m \notin retry /\ ~GivenUp(m))
               PROVE  \E v \in Workers : WillFlag(v, m)'
    BY <1>6 DEF Increment
  <2>1. PICK v \in Workers : WillFlag(v, m)
    BY DEF FlagFollows
  <2>2. CASE v # w
    BY <2>1, <2>2, <1>6 DEF Increment
  <2>3. CASE v = w
    <3>1. m \in Counted(k) /\ m \in Messages
      BY DEF FlagsAreRight
    <3>2. FlagKinds(m) # {}
      BY <3>1 DEF Counted, FlagKinds, HasFailed, FailsUntilRetried
    <3> QED
      BY <2>1, <2>3, <3>1, <3>2, <1>6 DEF Increment
  <2> QED
    BY <2>2, <2>3
<1>7. ASSUME NEW w \in Workers, OpenCountFile(w)
      PROVE FlagFollows'
  <2>1. CASE dir
    <3>1. \A k \in Kinds : job[w].msg \in waiting[k] => k = job[w].kind
      BY <1>7 DEF OpenCountFile, FlagsAreRight, Counted
    <3> QED
      BY <2>1, <3>1, <1>7 DEF OpenCountFile
  <2>2. CASE ~dir
    BY <2>2, <1>7 DEF OpenCountFile, WaitingIsStored
  <2> QED
    BY <2>1, <2>2
<1>8. ASSUME NEW w \in Workers, FillCountFile(w)
      PROVE FlagFollows'
  BY <1>8 DEF FillCountFile
<1>9. ASSUME MarkRead \/ MarkReadFailed \/ Delete
      PROVE FlagFollows'
  BY <1>9 DEF MarkRead, MarkReadFailed, Delete, RemoveFlagFiles, Free
<1>10. ASSUME MarkReadMaps \/ DeleteRmdir \/ DeleteMaps
      PROVE FlagFollows'
  BY <1>10 DEF MarkReadMaps, DeleteRmdir, DeleteMaps, DirEmpty
<1>11. ASSUME PurgeFailed \/ ClearHistory
      PROVE FlagFollows'
  BY <1>11 DEF PurgeFailed, ClearHistory, RemoveEnvelopes, Free
<1>12. ASSUME Restart
      PROVE FlagFollows'
  <2> SUFFICES ASSUME NEW k \in Kinds, NEW m \in waiting[k] \ cutOff', flagFile[k] = None
               PROVE  k = "failed" /\ m \notin retry' /\ ~GivenUp(m)'
    BY <1>12 DEF Restart
  <2>1. m \notin cutOff /\ m \notin InFlight /\ m \notin told' \ told /\ m \in Messages
    BY <1>12 DEF Restart
  <2>2. ~\E w \in Workers : WillFlag(w, m)
    BY <2>1 DEF InFlight
  <2>3. k = "failed" /\ m \notin retry /\ ~GivenUp(m)
    BY <2>1, <2>2 DEF FlagFollows
  <2> QED
    BY <2>1, <2>3, <1>12 DEF Restart
<1>13. ASSUME UNCHANGED vars
      PROVE FlagFollows'
  BY <1>13 DEF vars
<1> QED
  BY <1>1, <1>2, <1>3, <1>4, <1>5, <1>6, <1>7, <1>8, <1>9, <1>10, <1>11, <1>12, <1>13
  DEF Next, IngestStep, UIStep

-----------------------------------------------------------------------------
\* The initial state, and the steps.
LEMMA InitIInv == Init => IInv
<1> SUFFICES ASSUME Init PROVE IInv
  OBVIOUS
<1>1. TypeOK
  BY InitTypeOK
<1>2. WaitingIsStored /\ FailsUntilRetried /\ FlagFollows
  BY DEF Init, WaitingIsStored, FailsUntilRetried, FlagFollows, Kinds
<1>3. FlagsAreRight /\ UIIsSequential
  BY DEF Init, Idle, Workers, FlagsAreRight, UIIsSequential
<1> QED
  BY <1>1, <1>2, <1>3 DEF IInv

LEMMA NextIInv == IInv /\ [Next]_vars => IInv'
BY TypeStep, UIStepSafe, FlagsStep, StoredStep, FailsStep, FollowStep
DEF IInv

\* The invariant holds at the start and every step keeps it.
THEOREM Inductive == Spec => []IInv
BY InitIInv, NextIInv, PTL DEF Spec

\* Whatever number of deliveries, callbacks, retries, MarkReads, Deletes, purges and
\* restarts interleave, a stored message that nobody has seen has its badge, unless
\* its Ingest is at work or a crash cut off its Ingest or its last callback; a failed
\* one has it once the router has given the message up.
THEOREM BadgesAreKept == Spec => []NoLostFlag
<1>1. IInv => NoLostFlag
  BY DEF IInv, TypeOK, FlagFollows, WillFlag, NoLostFlag, InFlight, Messages
<1> QED
  BY <1>1, Inductive, PTL
-----------------------------------------------------------------------------
(***************************************************************************)
(* The tally of unread messages, when one goroutine of the router runs the *)
(* callbacks and the process does not die inside os.WriteFile.  Only that  *)
(* goroutine ingests inbound messages, so the flag file and the map entry  *)
(* are lowered by the UI thread alone, which never raises them.            *)
(***************************************************************************)

\* Job j has taken its number from the map and not written it yet.
InHand(j) == j.pc \in {"open", "fill"} /\ j.msg \in Inbound

FileNumber(f) == IF f = None THEN 0 ELSE f

\* Flag file f covers the waiting messages W but for the one in hand, and the
\* number in hand covers that one as well; a number that will be lost has
\* nothing to cover.
FileCovers(W, f, j) ==
  /\ ~(InHand(j) /\ j.pc = "fill") => Cardinality(W \ {j.msg}) <= FileNumber(f)
  /\ InHand(j) => j.n \in Nat /\ Cardinality(W) <= j.n
  /\ InHand(j) /\ j.pc = "fill" /\ j.kind = None => W = {} /\ f = None

\* So does map entry c, which is what the file holds or is about to hold.
MapCovers(W, f, c, j) ==
  c # None =>
    /\ Cardinality(IF InHand(j) THEN W ELSE W \ {j.msg}) <= c
    /\ IF InHand(j) THEN c = j.n ELSE f \in {None, c}

Tallied(W, f, c, j) == FileCovers(W, f, j) /\ MapCovers(W, f, c, j)

\* Outbound messages, which Send ingests on the UI thread, are not in the tally;
\* and without them nothing fails.
FailedIsOutbound ==
  /\ job[UI].pc # "idle" => job[UI].msg \in Outbound
  /\ Outbound = {} => counts["failed"] = None

\* The directory of a flag file is there, and so is a file being written.
FilesLieInDir ==
  /\ ~dir => \A k \in Kinds : flagFile[k] = None
  /\ \A w \in Workers :
       job[w].pc = "fill" /\ job[w].kind # None => flagFile[job[w].kind] # None

\* The unread messages whose Ingest no crash cut off.
Unread == waiting["unread"] \ cutOff

TInv(r) ==
  /\ IInv
  /\ FailedIsOutbound
  /\ FilesLieInDir
  /\ Tallied(Unread, flagFile["unread"], counts["unread"], job[r])

\* Send hands Ingest an outbound message, and without one no failed tally begins.
LEMMA FailedIsOutboundStep == IInv /\ FailedIsOutbound /\ [Next]_vars => FailedIsOutbound'
<1> SUFFICES ASSUME IInv, FailedIsOutbound, [Next]_vars PROVE FailedIsOutbound'
  OBVIOUS
<1> USE DEF routerVars, FailedIsOutbound, IInv, TypeOK, Jobs, Idle, Workers, Messages, Kinds
<1>1. ASSUME NEW d \in Deliverers, NEW m \in Messages, Deliver(d, m)
      PROVE FailedIsOutbound'
  BY <1>1 DEF Deliver, BeginIngest, Free
<1>2. ASSUME NEW d \in Deliverers, NEW m \in Messages,
             MessageNotification(d, m) \/ RetryPropagated(d, m)
      PROVE FailedIsOutbound'
  BY <1>2 DEF MessageNotification, RetryPropagated, BeginIngest, Free
<1>3. ASSUME NEW m \in Messages, Send(m)
      PROVE FailedIsOutbound'
  BY <1>3 DEF Send, BeginIngest, Free
<1>4. ASSUME NEW m \in Messages, RouterEnds(m) \/ RouterRetries(m)
      PROVE FailedIsOutbound'
  BY <1>4 DEF RouterEnds, RouterRetries
<1>5. ASSUME NEW w \in Workers, WriteEnvelope(w)
      PROVE FailedIsOutbound'
  BY <1>5 DEF WriteEnvelope
<1>6. ASSUME NEW w \in Workers, Increment(w)
      PROVE FailedIsOutbound'
  BY <1>6 DEF Increment, FlagKinds, HasFailed
<1>7. ASSUME NEW w \in Workers, OpenCountFile(w)
      PROVE FailedIsOutbound'
  BY <1>7 DEF OpenCountFile
<1>8. ASSUME NEW w \in Workers, FillCountFile(w)
      PROVE FailedIsOutbound'
  BY <1>8 DEF FillCountFile
<1>9. ASSUME MarkRead \/ MarkReadFailed \/ Delete
      PROVE FailedIsOutbound'
  BY <1>9 DEF MarkRead, MarkReadFailed, Delete, RemoveFlagFiles, Free
<1>10. ASSUME MarkReadMaps \/ DeleteRmdir \/ DeleteMaps
      PROVE FailedIsOutbound'
  BY <1>10 DEF MarkReadMaps, DeleteRmdir, DeleteMaps, DirEmpty, DropMapEntries
<1>11. ASSUME PurgeFailed \/ ClearHistory
      PROVE FailedIsOutbound'
  BY <1>11 DEF PurgeFailed, ClearHistory, RemoveEnvelopes, Free
<1>12. ASSUME Restart
      PROVE FailedIsOutbound'
  BY <1>12 DEF Restart
<1>13. ASSUME UNCHANGED vars
      PROVE FailedIsOutbound'
  BY <1>13 DEF vars
<1> QED
  BY <1>1, <1>2, <1>3, <1>4, <1>5, <1>6, <1>7, <1>8, <1>9, <1>10, <1>11, <1>12, <1>13
  DEF Next, IngestStep, UIStep

\* os.RemoveAll takes the directory away only when it has emptied it.
LEMMA FilesLieInDirStep == IInv /\ FilesLieInDir /\ [Next]_vars => FilesLieInDir'
<1> SUFFICES ASSUME IInv, FilesLieInDir, [Next]_vars PROVE FilesLieInDir'
  OBVIOUS
<1> USE DEF routerVars, FilesLieInDir, IInv, TypeOK, Jobs, Idle, Workers, Messages, Kinds
<1>1. ASSUME NEW d \in Deliverers, NEW m \in Messages, Deliver(d, m)
      PROVE FilesLieInDir'
  BY <1>1 DEF Deliver, BeginIngest, Free
<1>2. ASSUME NEW d \in Deliverers, NEW m \in Messages,
             MessageNotification(d, m) \/ RetryPropagated(d, m)
      PROVE FilesLieInDir'
  BY <1>2 DEF MessageNotification, RetryPropagated, BeginIngest, Free
<1>3. ASSUME NEW m \in Messages, Send(m)
      PROVE FilesLieInDir'
  BY <1>3 DEF Send, BeginIngest, Free
<1>4. ASSUME NEW m \in Messages, RouterEnds(m) \/ RouterRetries(m)
      PROVE FilesLieInDir'
  BY <1>4 DEF RouterEnds, RouterRetries
<1>5. ASSUME NEW w \in Workers, WriteEnvelope(w)
      PROVE FilesLieInDir'
  BY <1>5 DEF WriteEnvelope
<1>6. ASSUME NEW w \in Workers, Increment(w)
      PROVE FilesLieInDir'
  BY <1>6 DEF Increment
<1>7. ASSUME NEW w \in Workers, OpenCountFile(w)
      PROVE FilesLieInDir'
  BY <1>7 DEF OpenCountFile
<1>8. ASSUME NEW w \in Workers, FillCountFile(w)
      PROVE FilesLieInDir'
  BY <1>8 DEF FillCountFile
<1>9. ASSUME MarkRead \/ MarkReadFailed \/ Delete
      PROVE FilesLieInDir'
  BY <1>9 DEF MarkRead, MarkReadFailed, Delete, RemoveFlagFiles, Free
<1>10. ASSUME MarkReadMaps \/ DeleteRmdir \/ DeleteMaps
      PROVE FilesLieInDir'
  BY <1>10 DEF MarkReadMaps, DeleteRmdir, DeleteMaps, DirEmpty, DropMapEntries
<1>11. ASSUME PurgeFailed \/ ClearHistory
      PROVE FilesLieInDir'
  BY <1>11 DEF PurgeFailed, ClearHistory, RemoveEnvelopes, Free
<1>12. ASSUME Restart
      PROVE FilesLieInDir'
  BY <1>12 DEF Restart
<1>13. ASSUME UNCHANGED vars
      PROVE FilesLieInDir'
  BY <1>13 DEF vars
<1> QED
  BY <1>1, <1>2, <1>3, <1>4, <1>5, <1>6, <1>7, <1>8, <1>9, <1>10, <1>11, <1>12, <1>13
  DEF Next, IngestStep, UIStep

-----------------------------------------------------------------------------
\* The sizes of sets of messages, which are finite.
LEMMA Sizes ==
  /\ Cardinality({}) = 0
  /\ \A W \in SUBSET Messages : \A x : Cardinality(W \ {x}) \in Nat /\ Cardinality(W) \in Nat
  /\ \A W \in SUBSET Messages : \A T \in SUBSET W : Cardinality(T) <= Cardinality(W)
  /\ \A W \in SUBSET Messages : \A x : Cardinality(W) <= Cardinality(W \ {x}) + 1
<1>1. \A W \in SUBSET Messages : IsFiniteSet(W)
  BY MessagesAreFinite, FS_Subset DEF Messages
<1>2. ASSUME NEW W \in SUBSET Messages
      PROVE  /\ Cardinality(W) \in Nat
             /\ \A T \in SUBSET W : Cardinality(T) <= Cardinality(W)
             /\ \A x : Cardinality(W \ {x}) \in Nat /\ Cardinality(W) <= Cardinality(W \ {x}) + 1
  <2>1. IsFiniteSet(W)
    BY <1>1
  <2>2. Cardinality(W) \in Nat
    BY <2>1, FS_CardinalityType
  <2>3. \A T \in SUBSET W : Cardinality(T) <= Cardinality(W)
    BY <2>1, FS_Subset
  <2>4. ASSUME NEW x
        PROVE  Cardinality(W \ {x}) \in Nat /\ Cardinality(W) <= Cardinality(W \ {x}) + 1
    <3>1. IsFiniteSet(W \ {x}) /\ Cardinality(W \ {x})
             = IF x \in W THEN Cardinality(W) - 1 ELSE Cardinality(W)
      BY <2>1, FS_RemoveElement
    <3>2. Cardinality(W \ {x}) \in Nat
      BY <3>1, FS_CardinalityType
    <3> QED
      BY <2>2, <3>1, <3>2
  <2> QED
    BY <2>2, <2>3, <2>4
<1> QED
  BY <1>2, FS_EmptySet

\* Nothing is written, and no message waits that did not before.
LEMMA TallyShrinks ==
  ASSUME NEW W \in SUBSET Messages, NEW f \in Nat \cup {None}, NEW c \in Nat \cup {None}, NEW j, NEW i,
         NEW V \in SUBSET Messages, Tallied(W, f, c, j), ~InHand(j), ~InHand(i),
         V \ {i.msg} \subseteq W \ {j.msg}
  PROVE  Tallied(V, f, c, i)
<1>1. Cardinality(V \ {i.msg}) <= Cardinality(W \ {j.msg})
  BY Sizes
<1>2. Cardinality(V \ {i.msg}) \in Nat /\ Cardinality(W \ {j.msg}) \in Nat /\ FileNumber(f) \in Nat
  BY Sizes DEF FileNumber
<1>3. FileCovers(V, f, i)
  BY <1>1, <1>2 DEF Tallied, FileCovers
<1>4. MapCovers(V, f, c, i)
  BY <1>1, <1>2 DEF Tallied, MapCovers
<1> QED
  BY <1>3, <1>4 DEF Tallied

\* increment takes the number from the map, or from the file.
LEMMA TallyRises ==
  ASSUME NEW W \in SUBSET Messages, NEW f \in Nat \cup {None}, NEW c \in Nat \cup {None}, NEW j, NEW i,
         Tallied(W, f, c, j), ~InHand(j), InHand(i), i.pc = "open", i.msg = j.msg,
         i.n = 1 + (IF c = None THEN FileNumber(f) ELSE c)
  PROVE  Tallied(W, f, i.n, i)
<1>1. /\ Cardinality(W \ {j.msg}) \in Nat /\ Cardinality(W) \in Nat
      /\ Cardinality(W) <= Cardinality(W \ {j.msg}) + 1 /\ FileNumber(f) \in Nat
  BY Sizes DEF FileNumber
<1>2. Cardinality(W \ {j.msg}) <= IF c = None THEN FileNumber(f) ELSE c
  BY DEF Tallied, FileCovers, MapCovers
<1>3. i.n \in Nat /\ Cardinality(W) <= i.n
  BY <1>1, <1>2
<1>4. FileCovers(W, f, i)
  BY <1>3 DEF Tallied, FileCovers
<1>5. MapCovers(W, f, i.n, i)
  BY <1>3 DEF MapCovers
<1> QED
  BY <1>4, <1>5 DEF Tallied

\* writeCountFile: the number in hand lands in the file.
LEMMA TallyLands ==
  ASSUME NEW W \in SUBSET Messages, NEW f, NEW c \in Nat \cup {None}, NEW j, NEW i,
         Tallied(W, f, c, j), InHand(j), ~InHand(i), i.msg = None
  PROVE  Tallied(W, j.n, c, i)
<1>1. j.n \in Nat /\ Cardinality(W) <= j.n /\ j.n # None
  BY DEF Tallied, FileCovers
<1>2. Cardinality(W \ {None}) <= Cardinality(W) /\ Cardinality(W) \in Nat /\ Cardinality(W \ {None}) \in Nat
  BY Sizes
<1>3. FileCovers(W, j.n, i)
  BY <1>1, <1>2 DEF FileCovers, FileNumber
<1>4. c # None => c = j.n
  BY DEF Tallied, MapCovers
<1>5. MapCovers(W, j.n, c, i)
  BY <1>1, <1>2, <1>4 DEF MapCovers
<1> QED
  BY <1>3, <1>5 DEF Tallied

\* The flag file is removed, and with it what waits.
LEMMA TallyEnds ==
  ASSUME NEW f \in Nat \cup {None}, NEW c \in Nat \cup {None}, NEW W, NEW j, NEW i, Tallied(W, f, c, j),
         i.pc = j.pc, i.msg = j.msg, i.n = j.n
  PROVE  Tallied({}, None, c, i)
<1>1. Cardinality({} \ {i.msg}) = 0 /\ Cardinality({}) = 0
  <2>1. {} \ {i.msg} = {}
    OBVIOUS
  <2> QED
    BY <2>1, Sizes
<1>2. InHand(i) <=> InHand(j)
  BY DEF InHand
<1>3. FileCovers({}, None, i)
  BY <1>1, <1>2 DEF Tallied, FileCovers, FileNumber
<1>4. MapCovers({}, None, c, i)
  BY <1>1, <1>2 DEF Tallied, MapCovers
<1> QED
  BY <1>3, <1>4 DEF Tallied


\* Nothing waits and there is no file.
LEMMA TallyEmpty ==
  ASSUME NEW c \in Nat \cup {None}, NEW i, ~InHand(i)
  PROVE  Tallied({}, None, c, i)
<1>1. {} \ {i.msg} = {} /\ Cardinality({}) = 0
  BY Sizes
<1> QED
  BY <1>1 DEF Tallied, FileCovers, MapCovers, FileNumber

\* What the proof of each step begins from.
LEMMA TallyFacts ==
  ASSUME NEW r, Deliverers = {r}, TInv(r)
  PROVE  /\ r \in Workers /\ UI \in Workers /\ r # UI /\ Workers = {r, UI} /\ job[r] \in Jobs
         /\ Unread \in SUBSET Messages
         /\ flagFile["unread"] \in Nat \cup {None} /\ counts["unread"] \in Nat \cup {None}
         /\ waiting["unread"] \subseteq Inbound /\ Unread \subseteq Inbound
         /\ job[r].msg \in Outbound => Unread \ {None} \subseteq Unread \ {job[r].msg}
         /\ InHand(job[r]) => job[r].kind \in {"unread", None}
         /\ FlagKinds(job[UI].msg) \subseteq {"failed"}
         /\ job[UI].kind \in {"failed", None}
<1> r \in Workers /\ UI \in Workers /\ r # UI /\ Workers = {r, UI}
  BY DEF Workers
<1>1. /\ job[r] \in Jobs /\ job[UI] \in Jobs /\ Unread \in SUBSET Messages
      /\ flagFile["unread"] \in Nat \cup {None} /\ counts["unread"] \in Nat \cup {None}
  BY DEF TInv, IInv, TypeOK, Kinds, Unread
<1>2. waiting["unread"] \subseteq Inbound /\ Unread \subseteq Inbound
  BY DEF TInv, IInv, FlagsAreRight, Counted, Kinds, Unread
<1>3. \A w \in Workers : job[w].kind # None => job[w].msg \in Counted(job[w].kind)
  BY DEF TInv, IInv, FlagsAreRight
<1>4. job[UI].msg \in Outbound \/ job[UI] = Idle
  BY <1>1 DEF TInv, FailedIsOutbound, Jobs, Idle
<1>5. FlagKinds(job[UI].msg) \subseteq {"failed"}
  BY <1>4 DEF FlagKinds, HasFailed, Idle, Messages
<1>6. InHand(job[r]) => job[r].kind \in {"unread", None}
  BY <1>1, <1>3 DEF InHand, Counted, Jobs, Idle, Kinds
<1>7. job[UI].kind \in {"failed", None}
  BY <1>1, <1>3, <1>4 DEF Counted, Jobs, Idle, Kinds
<1>8. job[r].msg \in Outbound => Unread \ {None} \subseteq Unread \ {job[r].msg}
  BY <1>2
<1> QED
  BY <1>1, <1>2, <1>5, <1>6, <1>7, <1>8

\* The steps of Send's Ingest leave the unread tally alone.
LEMMA SendIsNotCounted ==
  ASSUME NEW r, Deliverers = {r}, TInv(r), IngestStep(UI)
  PROVE  /\ Unread' = Unread /\ flagFile'["unread"] = flagFile["unread"]
         /\ counts'["unread"] = counts["unread"] /\ job'[r] = job[r]
<1>1. r # UI /\ r \in Workers /\ "unread" \in Kinds
  BY TallyFacts DEF Kinds
<1>2. FlagKinds(job[UI].msg) \subseteq {"failed"} /\ job[UI].kind \in {"failed", None}
  BY TallyFacts
<1>3. TypeOK
  BY DEF TInv, IInv
<1>4. CASE WriteEnvelope(UI)
  <2>1. waiting["unread"] \ {job[UI].msg} = waiting["unread"]
    BY <1>4, TallyFacts DEF WriteEnvelope, TInv, FailedIsOutbound
  <2> QED
    BY <1>1, <1>2, <1>3, <1>4, <2>1 DEF WriteEnvelope, TypeOK, Unread
<1>5. CASE Increment(UI)
  BY <1>1, <1>2, <1>3, <1>5 DEF Increment, TypeOK, Unread
<1>6. CASE OpenCountFile(UI)
  BY <1>1, <1>2, <1>3, <1>6 DEF OpenCountFile, TypeOK, Unread
<1>7. CASE FillCountFile(UI)
  BY <1>1, <1>2, <1>3, <1>7 DEF FillCountFile, TypeOK, Unread
<1> QED
  BY <1>4, <1>5, <1>6, <1>7 DEF IngestStep

\* The steps of an Ingest on the goroutine of the router.
LEMMA IngestIsTallied ==
  ASSUME NEW r, Deliverers = {r}, TInv(r), IngestStep(r)
  PROVE  Tallied(Unread, flagFile["unread"], counts["unread"], job[r])'
<1> DEFINE W == Unread
           f == flagFile["unread"]
           c == counts["unread"]
           j == job[r]
<1>1. /\ r \in Workers /\ j \in Jobs /\ W \in SUBSET Messages /\ "unread" \in Kinds
      /\ f \in Nat \cup {None} /\ c \in Nat \cup {None}
  BY TallyFacts DEF Kinds
<1>2. \A m \in W : m \in Inbound
  BY TallyFacts
<1>3. Tallied(W, f, c, j)
  BY DEF TInv
<1>4. ~dir => W = {} /\ f = None
  BY <1>1 DEF TInv, IInv, WaitingIsStored, FilesLieInDir, Unread
<1>5. ~InHand(Idle) /\ Idle.msg = None /\ None \notin Messages
  BY DEF InHand, Idle
<1>6. TypeOK
  BY DEF TInv, IInv
<1>7. CASE WriteEnvelope(r)
  <2>1. ~InHand(j) /\ f' = f /\ c' = c
    BY <1>7 DEF WriteEnvelope, InHand
  <2>2. CASE dir
    <3>1. j'.pc = "count" /\ j'.msg = j.msg /\ W' \in SUBSET Messages /\ W' \subseteq W \cup {j.msg}
      BY <1>1, <1>6, <1>7, <2>2 DEF WriteEnvelope, TypeOK, Jobs, Idle, Unread
    <3>2. ~InHand(j') /\ W' \ {j'.msg} \subseteq W \ {j.msg}
      BY <3>1 DEF InHand
    <3> QED
      BY <1>1, <1>3, <2>1, <3>1, <3>2, TallyShrinks
  <2>3. CASE ~dir
    <3>1. j' = Idle /\ W' = {} /\ f' = None
      BY <1>1, <1>4, <1>6, <1>7, <2>1, <2>3 DEF WriteEnvelope, TypeOK, Unread
    <3>2. Tallied({}, None, c, Idle)
      BY <1>1, <1>5, TallyEmpty
    <3> QED
      BY <2>1, <3>1, <3>2
  <2> QED
    BY <2>2, <2>3
<1>8. CASE Increment(r)
  <2>1. ~InHand(j) /\ f' = f /\ W' = W /\ j.msg \in Messages
    BY <1>1, <1>8 DEF Increment, InHand, Jobs, Idle, Unread
  <2>2. CASE "unread" \notin FlagKinds(j.msg)
    <3>1. j.msg \notin Inbound
      BY <2>2 DEF FlagKinds
    <3>2. c' = c /\ ~InHand(j') /\ j'.msg \in {j.msg, None}
      BY <1>1, <1>5, <1>6, <1>8, <2>2, <3>1 DEF Increment, TypeOK, InHand
    <3>3. W' \ {j'.msg} \subseteq W \ {j.msg}
      BY <1>2, <2>1, <3>1, <3>2
    <3> QED
      BY <1>1, <1>3, <2>1, <3>2, <3>3, TallyShrinks
  <2>3. CASE "unread" \in FlagKinds(j.msg)
    <3>1. j.msg \in Inbound /\ FlagKinds(j.msg) = {"unread"}
      BY <2>3 DEF FlagKinds
    <3>2. PICK n \in Nat : /\ n = 1 + (IF c = None THEN FileNumber(f) ELSE c) /\ c' = n
                           /\ j' = [pc |-> "open", msg |-> j.msg, kind |-> "unread", n |-> n]
      <4> DEFINE n == 1 + (IF c = None THEN FileNumber(f) ELSE c)
      <4>1. n \in Nat
        BY <1>1 DEF FileNumber
      <4>2. /\ counts' = [counts EXCEPT !["unread"] = n]
            /\ job' = [job EXCEPT ![r] = [pc |-> "open", msg |-> j.msg, kind |-> "unread", n |-> n]]
        BY <1>8, <3>1 DEF Increment, ReadCountFile, FileNumber
      <4>3. c' = n /\ j' = [pc |-> "open", msg |-> j.msg, kind |-> "unread", n |-> n]
        BY <1>1, <1>6, <4>2 DEF TypeOK
      <4> QED
        BY <4>1, <4>3
    <3>3. InHand(j') /\ j'.pc = "open" /\ j'.msg = j.msg /\ j'.n = n
      BY <3>1, <3>2 DEF InHand
    <3>4. Tallied(W, f, j'.n, j')
      BY <1>1, <1>3, <2>1, <3>2, <3>3, TallyRises
    <3> QED
      BY <2>1, <3>2, <3>3, <3>4
  <2> QED
    BY <2>2, <2>3
<1>9. CASE OpenCountFile(r)
  <2>1. j.pc = "open" /\ W' = W /\ c' = c /\ j.kind \in Kinds /\ j.msg \in Counted(j.kind)
    BY <1>1, <1>9 DEF OpenCountFile, Jobs, Idle, TInv, IInv, FlagsAreRight, Unread
  <2>2. CASE ~dir
    <3>1. j' = Idle /\ f' = f
      BY <1>1, <1>6, <1>9, <2>2 DEF OpenCountFile, TypeOK
    <3> QED
      BY <1>1, <1>4, <1>5, <2>1, <2>2, <3>1, TallyEmpty
  <2>3. CASE dir
    <3>1. j'.pc = "fill" /\ j'.msg = j.msg /\ j'.n = j.n /\ j'.kind = j.kind
      BY <1>1, <1>6, <1>9, <2>3 DEF OpenCountFile, TypeOK, Jobs, Idle
    <3>2. CASE j.kind = "unread"
      <4>1. j.msg \in Inbound /\ InHand(j) /\ InHand(j')
        BY <2>1, <3>1, <3>2 DEF Counted, InHand
      <4>2. FileCovers(W, f', j')
        BY <1>3, <3>1, <3>2, <4>1 DEF Tallied, FileCovers, Kinds
      <4>3. MapCovers(W, f', c, j')
        BY <1>3, <3>1, <4>1 DEF Tallied, MapCovers
      <4> QED
        BY <2>1, <4>2, <4>3 DEF Tallied
    <3>3. CASE j.kind # "unread"
      <4>1. j.msg \notin Inbound
        BY <2>1, <3>3 DEF Counted
      <4>2. ~InHand(j) /\ ~InHand(j') /\ f' = f
        BY <1>1, <1>6, <1>9, <3>1, <3>3, <4>1 DEF OpenCountFile, TypeOK, InHand
      <4>3. W \ {j'.msg} \subseteq W \ {j.msg}
        BY <3>1
      <4> QED
        BY <1>1, <1>3, <2>1, <4>2, <4>3, TallyShrinks
    <3> QED
      BY <3>2, <3>3
  <2> QED
    BY <2>2, <2>3
<1>10. CASE FillCountFile(r)
  <2>1. /\ j.pc = "fill" /\ W' = W /\ c' = c /\ j' = Idle
        /\ f' = IF j.kind = "unread" THEN j.n ELSE f
    BY <1>1, <1>6, <1>10 DEF FillCountFile, TypeOK, Unread
  <2>2. j.kind # None => j.kind \in Kinds /\ j.msg \in Counted(j.kind)
    BY <1>1 DEF TInv, IInv, FlagsAreRight, Jobs, Idle
  <2>3. CASE j.kind = "unread"
    <3>1. InHand(j)
      BY <2>1, <2>2, <2>3 DEF InHand, Counted, Kinds
    <3>2. Tallied(W, j.n, c, Idle)
      BY <1>1, <1>3, <1>5, <3>1, TallyLands
    <3> QED
      BY <2>1, <2>3, <3>2
  <2>4. CASE j.kind # "unread" /\ j.msg \in Inbound
    <3>1. j.kind = None /\ InHand(j)
      BY <2>1, <2>2, <2>4 DEF InHand, Counted, Kinds
    <3>2. W = {} /\ f = None
      BY <1>3, <2>1, <3>1 DEF Tallied, FileCovers
    <3> QED
      BY <1>1, <1>5, <2>1, <2>4, <3>2, TallyEmpty
  <2>5. CASE j.kind # "unread" /\ j.msg \notin Inbound
    <3>1. ~InHand(j) /\ W \ {Idle.msg} \subseteq W \ {j.msg}
      BY <1>1, <1>2, <1>5, <2>5 DEF InHand
    <3> QED
      BY <1>1, <1>3, <1>5, <2>1, <2>5, <3>1, TallyShrinks
  <2> QED
    BY <2>3, <2>4, <2>5
<1> QED
  BY <1>7, <1>8, <1>9, <1>10 DEF IngestStep

\* MarkRead and Delete remove the flag file and what it counts.
LEMMA RemovalIsTallied ==
  ASSUME NEW r, Deliverers = {r}, TInv(r), NEW ks \in SUBSET Kinds, RemoveFlagFiles(ks),
         UNCHANGED <<counts, cutOff>>
  PROVE  Tallied(Unread, flagFile["unread"], counts["unread"], job[r])'
<1> DEFINE W == Unread
           f == flagFile["unread"]
           c == counts["unread"]
           j == job[r]
<1>1. /\ r \in Workers /\ j \in Jobs /\ W \in SUBSET Messages /\ "unread" \in Kinds
      /\ f \in Nat \cup {None} /\ c \in Nat \cup {None} /\ Tallied(W, f, c, j)
      /\ InHand(j) => j.kind \in {"unread", None}
  BY TallyFacts DEF Kinds, TInv
<1>2. /\ j'.pc = j.pc /\ j'.msg = j.msg /\ j'.n = j.n
      /\ j' # j => j.kind \in ks /\ j.kind # None
  BY <1>1 DEF RemoveFlagFiles, Jobs, Idle
<1>3. CASE "unread" \in ks
  <2>1. W' = {} /\ f' = None /\ c' = c
    BY <1>1, <1>3 DEF RemoveFlagFiles, Unread
  <2>2. Tallied({}, None, c, j')
    BY <1>1, <1>2, TallyEnds
  <2> QED
    BY <2>1, <2>2
<1>4. CASE "unread" \notin ks
  <2>1. W' = W /\ f' = f
    BY <1>1, <1>4 DEF RemoveFlagFiles, Unread
  <2>2. CASE j' = j
    BY <1>1, <2>1, <2>2
  <2>3. CASE j' # j
    <3>1. ~InHand(j) /\ ~InHand(j')
      BY <1>1, <1>2, <1>4, <2>3 DEF InHand
    <3> QED
      BY <1>1, <1>2, <2>1, <3>1, TallyShrinks
  <2> QED
    BY <2>2, <2>3
<1> QED
  BY <1>3, <1>4

\* The tally is kept by every step.
LEMMA TalliedStep ==
  ASSUME NEW r, Deliverers = {r}, ~TornWrites, TInv(r), [Next]_vars
  PROVE  Tallied(Unread, flagFile["unread"], counts["unread"], job[r])'
<1> DEFINE W == Unread
           f == flagFile["unread"]
           c == counts["unread"]
           j == job[r]
           Kept == Tallied(W, f, c, j)'
<1>1. /\ r \in Workers /\ r # UI /\ Workers = {r, UI} /\ j \in Jobs /\ W \in SUBSET Messages
      /\ f \in Nat \cup {None} /\ c \in Nat \cup {None} /\ Tallied(W, f, c, j) /\ TypeOK
  BY TallyFacts DEF TInv, IInv
<1>2. ASSUME NEW m \in Messages, Deliver(r, m) \/ MessageNotification(r, m)
      PROVE  Kept
  <2>1. BeginIngest(r, m) /\ UNCHANGED <<Unread, flagFile, counts>>
    BY <1>2 DEF Deliver, MessageNotification, BeginIngest, Unread
  <2>2. j = Idle /\ j'.pc = "write" /\ j'.msg = m
    BY <1>1, <2>1 DEF BeginIngest, Free, TypeOK
  <2>3. ~InHand(j) /\ ~InHand(j') /\ W \ {m} \subseteq W \ {j.msg}
    BY <1>1, <2>2 DEF InHand, Idle
  <2> QED
    BY <1>1, <2>1, <2>2, <2>3, TallyShrinks
<1>3. ASSUME NEW m \in Messages,
             Send(m) \/ RouterEnds(m) \/ RouterRetries(m) \/ RetryPropagated(r, m)
      PROVE  Kept
  BY <1>1, <1>3 DEF Send, RouterEnds, RouterRetries, RetryPropagated, BeginIngest, TypeOK,
     Unread
<1>4. ASSUME NEW w \in Workers, IngestStep(w)
      PROVE  Kept
  BY <1>1, <1>4, IngestIsTallied, SendIsNotCounted
<1>5. CASE MarkRead \/ MarkReadFailed \/ Delete
  <2>1. PICK ks \in SUBSET Kinds : RemoveFlagFiles(ks)
    BY <1>5 DEF MarkRead, MarkReadFailed, Delete, Kinds
  <2> QED
    BY <2>1, <1>5, RemovalIsTallied DEF MarkRead, MarkReadFailed, Delete
<1>6. CASE MarkReadMaps \/ DeleteMaps
  <2>1. W' = W /\ f' = f /\ c' = None /\ j' = j
    BY <1>6 DEF MarkReadMaps, DeleteMaps, DropMapEntries, Kinds, Unread
  <2> QED
    BY <1>1, <2>1 DEF Tallied, MapCovers
<1>7. CASE DeleteRmdir \/ PurgeFailed \/ ClearHistory \/ UNCHANGED vars
  BY <1>1, <1>7 DEF DeleteRmdir, PurgeFailed, ClearHistory, RemoveEnvelopes, vars, Unread
<1>8. CASE Restart
  <2>1. j.pc # "fill" /\ f' = f /\ c' = None /\ j' = Idle /\ W' \subseteq W \ InFlight
    BY <1>1, <1>8 DEF Restart, Kinds, Unread
  <2>2. j.msg \in InFlight \cup {None}
    BY <1>1 DEF InFlight
  <2>3. Cardinality(W \ {j.msg}) <= FileNumber(f) /\ Cardinality(W \ {j.msg}) \in Nat
    BY <1>1, <2>1, Sizes DEF Tallied, FileCovers
  <2>4. Cardinality(W' \ {Idle.msg}) <= Cardinality(W \ {j.msg}) /\ Cardinality(W' \ {Idle.msg}) \in Nat
    BY <1>1, <2>1, <2>2, Sizes
  <2>5. FileNumber(f) \in Nat /\ ~InHand(Idle)
    BY <1>1 DEF FileNumber, InHand, Idle
  <2>6. FileCovers(W', f, Idle)
    BY <2>3, <2>4, <2>5 DEF FileCovers
  <2> QED
    BY <2>1, <2>6 DEF Tallied, MapCovers
<1> QED
  BY <1>2, <1>3, <1>4, <1>5, <1>6, <1>7, <1>8 DEF Next, UIStep

-----------------------------------------------------------------------------
\* The tally holds from the first delivery on.
LEMMA InitTInv ==
  ASSUME NEW r, Deliverers = {r}, Init
  PROVE  TInv(r)
<1>1. IInv
  BY InitIInv
<1>2. FailedIsOutbound /\ FilesLieInDir
  BY DEF Init, FailedIsOutbound, FilesLieInDir, Idle, Workers, Kinds
<1>3. Tallied(Unread, flagFile["unread"], counts["unread"], job[r])
  <2>1. /\ Unread = {} /\ flagFile["unread"] = None /\ counts["unread"] = None
        /\ job[r] = Idle
    BY DEF Init, Kinds, Workers, Unread
  <2>2. ~InHand(Idle)
    BY DEF InHand, Idle
  <2> QED
    BY <2>1, <2>2, TallyEmpty
<1> QED
  BY <1>1, <1>2, <1>3 DEF TInv

\* With one goroutine for the callbacks of the router, the unread tally covers the
\* waiting messages in every state, whatever is sent, read, deleted or purged
\* meanwhile and however often the program is restarted.
THEOREM TallyIsKept ==
  ASSUME NEW r, Deliverers = {r}, ~TornWrites
  PROVE  Spec => []TInv(r)
<1>1. Init => TInv(r)
  BY InitTInv
<1>2. TInv(r) /\ [Next]_vars => TInv(r)'
  BY NextIInv, FailedIsOutboundStep, FilesLieInDirStep, TalliedStep DEF TInv
<1> QED
  BY <1>1, <1>2, PTL DEF Spec

\* "the badge reads "(N)" for N waiting messages" (UnreadCount) and "a restart
\* does not reset the tally" (increment): between the writes of the flag file it
\* counts at least the messages that wait.
THEOREM TallyIsRight ==
  ASSUME NEW r, Deliverers = {r}, ~TornWrites, Outbound = {}
  PROVE  Spec => []TallyCoversWaiting
<1>1. TInv(r) => TallyCoversWaiting
  <2> SUFFICES ASSUME TInv(r), NEW k \in Kinds, \A w \in Workers : job[w].pc # "fill"
               PROVE  Cardinality(waiting[k] \ (InFlight \cup cutOff)) <= ReadCountFile(k)
    BY DEF TallyCoversWaiting
  <2>1. TypeOK /\ r \in Workers
    BY TallyFacts DEF TInv, IInv
  <2>2. CASE k = "failed"
    <3>1. waiting[k] \ (InFlight \cup cutOff) = {}
      BY <2>1, <2>2 DEF TInv, IInv, FlagsAreRight, Counted, Kinds
    <3>2. ReadCountFile(k) \in Nat
      BY <2>1 DEF ReadCountFile, TypeOK
    <3> QED
      BY <3>1, <3>2, Sizes
  <2>3. CASE k = "unread"
    <3> DEFINE R == waiting[k] \ (InFlight \cup cutOff)
    <3>1. /\ Unread \in SUBSET Messages /\ ReadCountFile(k) \in Nat
          /\ Cardinality(Unread \ {job[r].msg}) <= ReadCountFile(k)
      BY <2>1, <2>3, TallyFacts DEF TInv, Tallied, FileCovers, FileNumber, ReadCountFile, TypeOK
    <3>2. R \in SUBSET (Unread \ {job[r].msg})
      BY <2>1, <2>3, <3>1 DEF InFlight, Unread, Messages
    <3>3. Unread \ {job[r].msg} \in SUBSET Messages /\ R \in SUBSET Messages
      BY <3>1, <3>2
    <3>4. Cardinality(R) <= Cardinality(Unread \ {job[r].msg})
      BY <3>2, <3>3, Sizes
    <3>5. Cardinality(Unread \ {job[r].msg}) \in Nat /\ Cardinality(R) \in Nat
      BY <3>3, Sizes
    <3> QED
      BY <3>1, <3>4, <3>5
  <2> QED
    BY <2>2, <2>3 DEF Kinds
<1> QED
  BY <1>1, TallyIsKept, PTL

\* "The counter value is what lands in the flag file" (Ingest): when no Ingest is
\* at work, the map entry and the file agree wherever both exist.
THEOREM FileIsTheCount ==
  ASSUME NEW r, Deliverers = {r}, ~TornWrites, Outbound = {}
  PROVE  Spec => []FlagFileHoldsTheCount
<1>1. TInv(r) => FlagFileHoldsTheCount
  <2> SUFFICES ASSUME TInv(r), InFlight = {}, NEW k \in Kinds
               PROVE  None \in {counts[k], flagFile[k]} \/ counts[k] = flagFile[k]
    BY DEF FlagFileHoldsTheCount
  <2>1. CASE k = "failed"
    BY <2>1 DEF TInv, FailedIsOutbound
  <2>2. CASE k = "unread"
    <3>1. job[r].msg = None
      BY TallyFacts DEF InFlight
    <3>2. ~InHand(job[r])
      BY <3>1 DEF InHand, Messages
    <3> QED
      BY <2>2, <3>2 DEF TInv, Tallied, MapCovers
  <2> QED
    BY <2>1, <2>2 DEF Kinds
<1> QED
  BY <1>1, TallyIsKept, PTL
=============================================================================
