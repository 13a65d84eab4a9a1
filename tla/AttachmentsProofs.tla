-------------------------- MODULE AttachmentsProofs --------------------------
(***************************************************************************)
(* The attachments of a message are kept, and the strip of its envelope    *)
(* writes back the state it read.                                          *)
(*                                                                         *)
(* AttachmentsAreStored speaks of the moments when no worker is at the     *)
(* message; UnderWay says of every other moment which worker still has the *)
(* missing part to write.  StripKeepsTheState is about a write that two    *)
(* callers reach without a lock: what keeps them apart is that Send makes  *)
(* a Message without AttachmentPath, which Load does not migrate in the    *)
(* run in which it is sent, and that in every other run the callback of    *)
(* the router writes the envelope before there is one to load              *)
(* (FirstWrite, StripIsAlone).                                             *)
(***************************************************************************)
EXTENDS Attachments, TLAPS

USE WorkersAssumption, BoundsAssumption, NoneAssumption

\* An envelope as WriteToDirectory writes it, with the attachments.
Full == [state : States, fields : {TRUE}]

\* What the parts of an extraction, an Ingest and a strip have in hand.
GoodJob(j) ==
  /\ j.pc \in Extracting => j.next \in {"notify", "strip"}
  /\ j.pc \in Ingesting \cup {"notify"} => j.next = "notify"
  /\ j.pc = "fill" => j.data \in Full

\* The goroutine of the router ingests ...
RouterJob(j) ==
  /\ j.pc \in {"idle", "notify"} \cup Ingesting \cup Extracting
  /\ j.pc \in Extracting => j.next = "notify"

\* ... and the UI thread also loads and strips a message it has in memory.
UIJob(j, listed) ==
  /\ j.pc \in {"strip_dir", "strip_open", "strip_fill"} => j.data \in Full
  /\ j.pc \in {"read", "names"} \cup Stripping => listed
  /\ j.pc \in Extracting /\ j.next = "strip" => listed

Hands ==
  /\ \A w \in Workers : GoodJob(job[w])
  /\ RouterJob(job[Router])
  /\ UIJob(job[UI], mem \in Cached)

\* The router's part in the message, told once per run of the program.
Handed ==
  /\ lxm = "new" => ~told /\ \A w \in Workers : job[w].pc \notin Ingesting
  /\ job[Router].pc # "idle" => told
  /\ \A w \in Workers : job[w].pc = "fill" => envelope # Absent
  /\ envelope.fields => Readable

TInv == TypeOK /\ Hands /\ Handed

\* The message is being sent, or was, in this run: it has no AttachmentPath, so
\* Load does not migrate it.
Sent ==
  \/ job[UI].next = "notify" /\ job[UI].pc \in Ingesting \cup Extracting \cup {"notify"}
  \/ mem # None /\ ~mem.path

\* Unless the message was sent in this run, the router's goroutine is the first
\* to write its envelope.
FirstWrite ==
  /\ lxm = "new" => envelope = Absent
  /\ ~told \/ job[Router].pc = "write" => envelope = Absent \/ Sent
  /\ job[Router].pc = "fill" => envelope = Torn \/ Sent

\* Load migrates a message it could read and that has an AttachmentPath ...
Migrating ==
  \/ job[UI].pc \in Stripping
  \/ job[UI].pc \in Extracting /\ job[UI].next = "strip"
  \/ job[UI].pc = "names" /\ mem.path

\* ... and by then the router's goroutine has written its envelope for good.
StripIsAlone ==
  /\ Migrating => mem # None /\ mem.path /\ told /\ job[Router].pc \notin {"write", "fill"}
  /\ job[UI].pc \in {"strip_dir", "strip_open"} => envelope = job[UI].data

\* An envelope without attachments is one that was stripped.
StripNeedsDir ==
  /\ job[UI].pc \in {"strip_open", "strip_fill"} => dir
  /\ Readable /\ ~envelope.fields => dir

\* Without crashes and failed writes, what is begun is under way.
UnderWay == restarts = 0 /\ faults = 0 =>
  /\ ingested => Readable \/ job[UI].pc = "strip_fill" \/ \E w \in Workers : job[w].pc = "fill"
  /\ dir => \/ files = "whole"
            \/ \E w \in Workers : job[w].pc \in {"files", "fill_files"}
  /\ dir => \/ manifest = "whole"
            \/ \E w \in Workers : job[w].pc \in Extracting \ {"extract", "mkdir"}

IInv == TInv /\ FirstWrite /\ StripIsAlone /\ StripNeedsDir /\ UnderWay

-----------------------------------------------------------------------------
(***************************************************************************)
(* What a step does to the jobs of the workers, and what envelopes say.    *)
(***************************************************************************)


Places == {"idle", "notify"} \cup Extracting \cup Ingesting \cup Loading \cup Stripping

\* The fields of a job, and that Full contains envelopes.
LEMMA JobFields ==
  /\ Jobs = [pc : Places, next : {"notify", "strip", None}, data : Envelopes \cup {None}]
  /\ Full \subseteq Envelopes
BY DEF Jobs, Places, Full, Envelopes

\* The record that WriteEnvelope leaves in hand.
LEMMA TwoFields ==
  ASSUME NEW r \in Jobs, NEW pc, NEW e
  PROVE  [r EXCEPT !.pc = pc, !.data = e] = [pc |-> pc, next |-> r.next, data |-> e]
<1> DEFINE q == [pc |-> pc, next |-> r.next, data |-> r.data]
<1>1. [r EXCEPT !.pc = pc] = q
  BY DEF Jobs
<1>2. [q EXCEPT !.data = e] = [pc |-> pc, next |-> r.next, data |-> e]
  OBVIOUS
<1>3. [[r EXCEPT !.pc = pc] EXCEPT !.data = e] = [pc |-> pc, next |-> r.next, data |-> e]
  BY ONLY <1>1, <1>2, Zenon
<1> QED
  BY <1>3

\* Worker w goes on with j; the other one is where it was.
Becomes(w, j) ==
  /\ job' \in [Workers -> Jobs]
  /\ job'[w] = j
  /\ \A v \in Workers : v # w => job'[v] = job[v]

\* Worker w as it is, at place pc.
Step(w, pc) == [pc |-> pc, next |-> job[w].next, data |-> job[w].data]

\* A step that gives worker w another job.
LEMMA JobMoves ==
  ASSUME job \in [Workers -> Jobs], NEW w \in Workers, NEW j \in Jobs,
         job' = [job EXCEPT ![w] = j]
  PROVE  Becomes(w, j)
BY DEF Becomes

\* A step that only goes on to another place.
LEMMA GotoMoves ==
  ASSUME job \in [Workers -> Jobs], NEW w \in Workers, NEW pc \in Places, Goto(w, pc)
  PROVE  Becomes(w, Step(w, pc))
<1>1. job[w] \in Jobs
  OBVIOUS
<1>2. Step(w, pc) = [job[w] EXCEPT !.pc = pc]
  BY <1>1, JobFields DEF Step
<1>3. Step(w, pc) \in Jobs
  BY <1>1, JobFields DEF Step
<1>4. job' = [job EXCEPT ![w] = Step(w, pc)]
  BY <1>2 DEF Goto
<1> QED
  BY <1>3, <1>4, JobMoves

\* The jobs that the actions begin.
LEMMA Records ==
  /\ Idle = [pc |-> "idle", next |-> None, data |-> None]
  /\ \A pc \in Places : [Idle EXCEPT !.pc = pc] = [pc |-> pc, next |-> None, data |-> None]
  /\ \A pc \in Places : [pc |-> pc, next |-> None, data |-> None] \in Jobs
BY JobFields DEF Idle, Places

\* The envelopes: whole, stripped, torn and absent ones.
LEMMA Contents ==
  /\ Absent \in Envelopes /\ Torn \in Envelopes /\ Full \subseteq Envelopes
  /\ \A e \in Envelopes : e.fields /\ e.state \in States => e \in Full
  /\ \A e \in Full : /\ [e EXCEPT !.fields = FALSE] \in Envelopes
                     /\ [e EXCEPT !.fields = FALSE].state \in States
                     /\ ~[e EXCEPT !.fields = FALSE].fields
                     /\ e.fields /\ e.state \in States
  /\ ~Absent.fields /\ ~Torn.fields /\ Torn # Absent
  /\ Torn.state \notin States /\ Absent.state \notin States
BY DEF Absent, Torn, Envelopes, Full, States

\* Hands depends on the job that changes and on whether the message is listed.
LEMMA HandsMove ==
  ASSUME Hands, NEW w \in Workers, NEW j, Becomes(w, j), GoodJob(j),
         w = Router => RouterJob(j) /\ (mem \in Cached => mem' \in Cached),
         w = UI => UIJob(j, mem' \in Cached)
  PROVE  Hands'
<1>1. Router \in Workers /\ UI \in Workers /\ w \in {Router, UI}
  BY DEF Workers
<1>2. \A v \in Workers : GoodJob(job'[v])
  BY DEF Becomes, Hands
<1>3. CASE w = Router
  <2>1. RouterJob(job'[Router]) /\ UIJob(job[UI], mem' \in Cached) /\ job'[UI] = job[UI]
    BY <1>1, <1>3 DEF Becomes, Hands, UIJob
  <2> QED
    BY <1>2, <2>1 DEF Hands
<1>4. CASE w = UI
  <2>1. UIJob(job'[UI], mem' \in Cached) /\ RouterJob(job'[Router])
    BY <1>1, <1>4 DEF Becomes, Hands
  <2> QED
    BY <1>2, <2>1 DEF Hands
<1> QED
  BY <1>1, <1>3, <1>4


\* A migration is an extraction that a strip follows, or the strip at once.
LEMMA MigrateMoves ==
  ASSUME job \in [Workers -> Jobs], NEW fields \in BOOLEAN, Migrate(fields)
  PROVE  \E j \in Jobs : /\ Becomes(UI, j) /\ GoodJob(j) /\ UIJob(j, TRUE)
                         /\ j.pc \notin Ingesting /\ j.pc # "fill"
                         /\ j.pc \in {"finish", "extract", "strip"}
                         /\ (j.pc = "finish" <=> ~mem.path)
                         /\ j.pc = "extract" => j.next = "strip"
<1>1. PICK j \in {[pc |-> "finish", next |-> None, data |-> None],
                  [pc |-> "strip", next |-> None, data |-> None],
                  [pc |-> "extract", next |-> "strip", data |-> None]} :
         job' = [job EXCEPT ![UI] = j] /\ (j.pc = "finish" <=> ~mem.path)
  BY Records DEF Migrate, Places, Loading, Stripping
<1>2. j \in Jobs
  BY JobFields DEF Places, Loading, Stripping, Extracting
<1>3. /\ GoodJob(j) /\ UIJob(j, TRUE) /\ j.pc \notin Ingesting /\ j.pc # "fill"
      /\ j.pc \in {"finish", "extract", "strip"} /\ (j.pc = "extract" => j.next = "strip")
  BY DEF GoodJob, UIJob, Extracting, Ingesting, Stripping
<1>4. Becomes(UI, j)
  BY <1>1, <1>2, JobMoves DEF Workers
<1> QED
  BY <1>1, <1>2, <1>3, <1>4

\* A message that is removed takes the writes in progress with it.
LEMMA DeleteJobs ==
  ASSUME job \in [Workers -> Jobs], DeleteMessage
  PROVE  /\ job' \in [Workers -> Jobs]
         /\ \A w \in Workers :
              \/ job'[w] = job[w] /\ job[w].pc # "fill"
              \/ job[w].pc = "fill" /\ job'[w] = Step(w, "lost")
              \/ job[w].pc = "write" /\ job'[w] = Idle
<1>1. PICK conversation \in BOOLEAN :
        job' = [w \in Workers |->
                  CASE job[w].pc = "fill" -> [job[w] EXCEPT !.pc = "lost"]
                    [] job[w].pc = "write" /\ conversation -> Idle
                    [] OTHER -> job[w]]
  BY DEF DeleteMessage
<1>2. \A w \in Workers : /\ [job[w] EXCEPT !.pc = "lost"] = Step(w, "lost")
                         /\ Step(w, "lost") \in Jobs
  BY JobFields DEF Step, Places, Ingesting
<1>3. Idle \in Jobs
  BY Records DEF Places
<1> QED
  BY <1>1, <1>2, <1>3


-----------------------------------------------------------------------------
\* The types, with what the workers have in hand, action by action.
LEMMA TInvStep == TInv /\ [Next]_vars => TInv'
<1> SUFFICES ASSUME TInv, [Next]_vars PROVE TInv'
  OBVIOUS
<1> TypeOK /\ Hands /\ Handed
  BY DEF TInv
<1> job \in [Workers -> Jobs] /\ UI \in Workers /\ Router \in Workers
  BY DEF TypeOK, Workers
<1> USE DEF store, file, cache, router, bounds
<1>1. ASSUME Deliver
      PROVE TInv'
  <2>1. Becomes(Router, [pc |-> "write", next |-> "notify", data |-> None])
    BY <1>1, JobFields, JobMoves DEF Places, Extracting, Ingesting, Loading, Stripping, Deliver, BeginIngest
  <2>2. TypeOK'
    BY <2>1, <1>1, Contents DEF TypeOK, Becomes, States, Deliver, BeginIngest
  <2>3. Hands'
    BY <2>1, <1>1, HandsMove DEF Hands, GoodJob, RouterJob, UIJob, Step, Extracting, Ingesting, Loading, Stripping, Deliver, BeginIngest
  <2>4. Handed'
    BY <2>1, <1>1, Contents DEF Handed, Becomes, Readable, Ingesting, Deliver, BeginIngest
  <2> QED
    BY <2>2, <2>3, <2>4 DEF TInv
<1>2. ASSUME Send
      PROVE TInv'
  <2>1. Becomes(UI, [pc |-> "write", next |-> "notify", data |-> None])
    BY <1>2, JobFields, JobMoves DEF Places, Extracting, Ingesting, Loading, Stripping, Send, BeginIngest
  <2>2. TypeOK'
    BY <2>1, <1>2, Contents DEF TypeOK, Becomes, States, Send, BeginIngest
  <2>3. Hands'
    BY <2>1, <1>2, HandsMove DEF Hands, GoodJob, RouterJob, UIJob, Step, Extracting, Ingesting, Loading, Stripping, Send, BeginIngest
  <2>4. Handed'
    BY <2>1, <1>2, Contents DEF Handed, Becomes, Readable, Ingesting, Send, BeginIngest
  <2> QED
    BY <2>2, <2>3, <2>4 DEF TInv
<1>3. ASSUME RouterEnds
      PROVE TInv'
  <2>1. job' = job /\ mem' = mem /\ envelope' = envelope /\ told' = told /\ lxm' = "final"
    BY <1>3 DEF RouterEnds
  <2>2. TypeOK'
    BY <2>1, <1>3 DEF TypeOK, RouterEnds, States
  <2>3. Hands'
    BY <2>1 DEF Hands
  <2>4. Handed'
    BY <2>1 DEF Handed, Readable
  <2> QED
    BY <2>2, <2>3, <2>4 DEF TInv
<1>4. ASSUME MessageNotification
      PROVE TInv'
  <2>1. Becomes(Router, [pc |-> "write", next |-> "notify", data |-> None])
    BY <1>4, JobFields, JobMoves DEF Places, Extracting, Ingesting, Loading, Stripping, MessageNotification, BeginIngest
  <2>2. TypeOK'
    BY <2>1, <1>4, Contents DEF TypeOK, Becomes, States, MessageNotification, BeginIngest
  <2>3. Hands'
    BY <2>1, <1>4, HandsMove DEF Hands, GoodJob, RouterJob, UIJob, Step, Extracting, Ingesting, Loading, Stripping, MessageNotification, BeginIngest
  <2>4. Handed'
    BY <2>1, <1>4, Contents DEF Handed, Becomes, Readable, Ingesting, MessageNotification, BeginIngest
  <2> QED
    BY <2>2, <2>3, <2>4 DEF TInv
<1>5. ASSUME NEW w \in Workers, WriteEnvelope(w)
      PROVE TInv'
  <2> DEFINE j == [pc |-> "fill", next |-> job[w].next, data |-> [state |-> lxm, fields |-> TRUE]]
  <2>1. lxm \in States /\ [state |-> lxm, fields |-> TRUE] \in Full
    BY <1>5 DEF TypeOK, Handed, WriteEnvelope, Ingesting, Full
  <2>2. job[w] \in Jobs /\ j \in Jobs
    BY <2>1, JobFields DEF Places, Ingesting
  <2>3. job' = [job EXCEPT ![w] = j]
    <3>1. [job[w] EXCEPT !.pc = "fill", !.data = [state |-> lxm, fields |-> TRUE]] = j
      BY <2>2, TwoFields
    <3>2. job' = [job EXCEPT ![w] = [job[w] EXCEPT !.pc = "fill",
                                       !.data = [state |-> lxm, fields |-> TRUE]]]
      BY <1>5 DEF WriteEnvelope
    <3> QED
      BY <3>1, <3>2
  <2>4. GoodJob(j) /\ (w = Router => RouterJob(j)) /\ UIJob(j, mem' \in Cached)
    BY <2>1, <1>5 DEF GoodJob, RouterJob, UIJob, Hands, WriteEnvelope, Extracting, Ingesting, Stripping
  <2>5. j.pc = "fill" /\ job[w].pc = "write"
    BY <1>5 DEF WriteEnvelope
  <2> HIDE DEF j
  <2>6. Becomes(w, j)
    BY <2>2, <2>3, JobMoves
  <2>7. mem' = mem /\ envelope' = Torn /\ UNCHANGED router
    BY <1>5 DEF WriteEnvelope, Write
  <2>8. TypeOK'
    BY <2>6, <1>5, Contents DEF TypeOK, Becomes, WriteEnvelope, Write
  <2>9. Hands'
    BY <2>4, <2>6, <2>7, HandsMove
  <2>10. Handed'
    BY <2>1, <2>5, <2>6, <2>7, Contents DEF Handed, Becomes, Readable, Ingesting
  <2> QED
    BY <2>8, <2>9, <2>10 DEF TInv
<1>6. ASSUME NEW w \in Workers, FillEnvelope(w)
      PROVE TInv'
  <2>1. Becomes(w, Step(w, "extract"))
    BY <1>6, GotoMoves DEF FillEnvelope, Places, Extracting
  <2>2. mem' = mem /\ UNCHANGED router /\ job[w].pc \in {"fill", "lost"}
    BY <1>6 DEF FillEnvelope
  <2>3. envelope' = envelope \/ envelope' \in Full
    <3>1. job[w].pc = "fill" => job[w].data \in Full
      BY DEF Hands, GoodJob
    <3> QED
      BY <3>1, <1>6 DEF FillEnvelope, Write
  <2>4. TypeOK'
    <3>1. envelope' \in Envelopes
      BY <2>3, Contents DEF TypeOK
    <3>2. rewritten' \in BOOLEAN /\ outdated' \in BOOLEAN /\ ingested' \in BOOLEAN
      BY <1>6 DEF FillEnvelope, Write, TypeOK
    <3> QED
      BY <2>1, <3>1, <3>2, <1>6 DEF TypeOK, Becomes, FillEnvelope
  <2>5. Hands'
    <3>1. GoodJob(Step(w, "extract")) /\ UIJob(Step(w, "extract"), mem' \in Cached)
          /\ (w = Router => RouterJob(Step(w, "extract")))
      BY <2>2 DEF Hands, GoodJob, RouterJob, UIJob, Step, Extracting, Ingesting, Stripping
    <3> QED
      BY <2>1, <2>2, <3>1, HandsMove
  <2>6. Handed'
    <3>1. lxm # "new" /\ job[w].pc # "idle" /\ Step(w, "extract").pc = "extract"
      BY <2>2 DEF Handed, Ingesting, Step
    <3>2. envelope' = envelope \/ (envelope'.fields /\ envelope'.state \in States)
      BY <2>3, Contents
    <3>3. Absent.state \notin States /\ "extract" \notin Ingesting
      BY Contents DEF Ingesting
    <3> QED
      BY <2>1, <2>2, <3>1, <3>2, <3>3 DEF Handed, Becomes, Readable
  <2> QED
    BY <2>4, <2>5, <2>6 DEF TInv
<1>7. ASSUME NEW w \in Workers, Notify(w)
      PROVE TInv'
  <2>1. PICK pc \in {"idle", "scan"} :
          /\ job' = [job EXCEPT ![w] = [pc |-> pc, next |-> None, data |-> None]]
          /\ w = Router => pc = "idle"
    BY <1>7, Records DEF Notify, Places, Loading
  <2> DEFINE j == [pc |-> pc, next |-> None, data |-> None]
  <2>2. j \in Jobs
    BY Records DEF Places, Loading
  <2>3. GoodJob(j) /\ (w = Router => RouterJob(j)) /\ UIJob(j, mem' \in Cached)
    BY <2>1 DEF GoodJob, RouterJob, UIJob, Extracting, Ingesting, Stripping
  <2>4. j.pc \notin Ingesting /\ j.pc # "fill" /\ (w = Router => j.pc = "idle")
    BY <2>1 DEF Ingesting
  <2>5. job' = [job EXCEPT ![w] = j]
    BY <2>1
  <2> HIDE DEF j
  <2>6. Becomes(w, j)
    BY <2>2, <2>5, JobMoves
  <2>7. envelope' = envelope /\ UNCHANGED router /\ (mem' = mem \/ mem' \in Cached)
    <3>1. [path |-> FALSE, loaded |-> FALSE, known |-> FALSE, has |-> FALSE, set |-> FALSE]
            \in Cached
      BY DEF Cached
    <3> QED
      BY <3>1, <1>7 DEF Notify
  <2>8. TypeOK'
    BY <2>6, <2>7, <1>7 DEF TypeOK, Becomes, Notify
  <2>9. Hands'
    BY <2>3, <2>6, <2>7, HandsMove
  <2>10. Handed'
    BY <2>4, <2>6, <2>7 DEF Handed, Becomes, Readable
  <2> QED
    BY <2>8, <2>9, <2>10 DEF TInv
<1>8. ASSUME NEW w \in Workers, ExtractCheck(w)
      PROVE TInv'
  <2>1. PICK pc \in {"mkdir", job[w].next} : Goto(w, pc)
    BY <1>8 DEF ExtractCheck
  <2>2. pc \in Places
    BY <2>1, <1>8 DEF Places, Extracting, Ingesting, Loading, Stripping, Hands, GoodJob, ExtractCheck
  <2>3. Becomes(w, Step(w, pc))
    BY <2>1, <2>2, GotoMoves
  <2>4. TypeOK'
    BY <2>3, <1>8, Contents DEF TypeOK, Becomes, Whole, ExtractCheck
  <2>5. Hands'
    <3>1. GoodJob(Step(w, pc))
      BY <2>1, <1>8 DEF Hands, GoodJob, RouterJob, UIJob, Step, Extracting, Ingesting, Loading, Stripping, ExtractCheck
    <3>2. w = Router => RouterJob(Step(w, pc))
      BY <2>1, <1>8 DEF Hands, GoodJob, RouterJob, UIJob, Step, Extracting, Ingesting, Loading, Stripping, ExtractCheck
    <3>3. w = UI => UIJob(Step(w, pc), mem' \in Cached)
      BY <2>1, <1>8 DEF Hands, GoodJob, RouterJob, UIJob, Step, Extracting, Ingesting, Loading, Stripping, ExtractCheck
    <3> QED
      BY <2>3, <3>1, <3>2, <3>3, <1>8, HandsMove DEF ExtractCheck
  <2>6. Handed'
    BY <2>1, <2>3, <1>8, Contents DEF Handed, Becomes, Step, Readable, Ingesting, ExtractCheck, Hands, GoodJob, RouterJob, Extracting
  <2> QED
    BY <2>4, <2>5, <2>6 DEF TInv
<1>9. ASSUME NEW w \in Workers, ExtractMkdir(w)
      PROVE TInv'
  <2>1. PICK pc \in {"files"} : Goto(w, pc)
    BY <1>9 DEF ExtractMkdir
  <2>2. pc \in Places
    BY <2>1 DEF Places, Extracting, Ingesting, Loading, Stripping
  <2>3. Becomes(w, Step(w, pc))
    BY <2>1, <2>2, GotoMoves
  <2>4. TypeOK'
    BY <2>3, <1>9, Contents DEF TypeOK, Becomes, Whole, ExtractMkdir
  <2>5. Hands'
    <3>1. GoodJob(Step(w, pc))
      BY <2>1, <1>9 DEF Hands, GoodJob, RouterJob, UIJob, Step, Extracting, Ingesting, Loading, Stripping, ExtractMkdir
    <3>2. w = Router => RouterJob(Step(w, pc))
      BY <2>1, <1>9 DEF Hands, GoodJob, RouterJob, UIJob, Step, Extracting, Ingesting, Loading, Stripping, ExtractMkdir
    <3>3. w = UI => UIJob(Step(w, pc), mem' \in Cached)
      BY <2>1, <1>9 DEF Hands, GoodJob, RouterJob, UIJob, Step, Extracting, Ingesting, Loading, Stripping, ExtractMkdir
    <3> QED
      BY <2>3, <3>1, <3>2, <3>3, <1>9, HandsMove DEF ExtractMkdir
  <2>6. Handed'
    BY <2>1, <2>3, <1>9, Contents DEF Handed, Becomes, Step, Readable, Ingesting, ExtractMkdir
  <2> QED
    BY <2>4, <2>5, <2>6 DEF TInv
<1>10. ASSUME NEW w \in Workers, ExtractFiles(w)
      PROVE TInv'
  <2>1. PICK pc \in {"fill_files", "manifest"} : Goto(w, pc)
    BY <1>10 DEF ExtractFiles
  <2>2. pc \in Places
    BY <2>1 DEF Places, Extracting, Ingesting, Loading, Stripping
  <2>3. Becomes(w, Step(w, pc))
    BY <2>1, <2>2, GotoMoves
  <2>4. TypeOK'
    BY <2>3, <1>10, Contents DEF TypeOK, Becomes, Whole, ExtractFiles
  <2>5. Hands'
    <3>1. GoodJob(Step(w, pc))
      BY <2>1, <1>10 DEF Hands, GoodJob, RouterJob, UIJob, Step, Extracting, Ingesting, Loading, Stripping, ExtractFiles
    <3>2. w = Router => RouterJob(Step(w, pc))
      BY <2>1, <1>10 DEF Hands, GoodJob, RouterJob, UIJob, Step, Extracting, Ingesting, Loading, Stripping, ExtractFiles
    <3>3. w = UI => UIJob(Step(w, pc), mem' \in Cached)
      BY <2>1, <1>10 DEF Hands, GoodJob, RouterJob, UIJob, Step, Extracting, Ingesting, Loading, Stripping, ExtractFiles
    <3> QED
      BY <2>3, <3>1, <3>2, <3>3, <1>10, HandsMove DEF ExtractFiles
  <2>6. Handed'
    BY <2>1, <2>3, <1>10, Contents DEF Handed, Becomes, Step, Readable, Ingesting, ExtractFiles
  <2> QED
    BY <2>4, <2>5, <2>6 DEF TInv
<1>11. ASSUME NEW w \in Workers, ExtractManifest(w)
      PROVE TInv'
  <2>1. PICK pc \in {"fill_manifest", job[w].next} : Goto(w, pc)
    BY <1>11 DEF ExtractManifest
  <2>2. pc \in Places
    BY <2>1, <1>11 DEF Places, Extracting, Ingesting, Loading, Stripping, Hands, GoodJob, ExtractManifest
  <2>3. Becomes(w, Step(w, pc))
    BY <2>1, <2>2, GotoMoves
  <2>4. TypeOK'
    BY <2>3, <1>11, Contents DEF TypeOK, Becomes, Whole, ExtractManifest
  <2>5. Hands'
    <3>1. GoodJob(Step(w, pc))
      BY <2>1, <1>11 DEF Hands, GoodJob, RouterJob, UIJob, Step, Extracting, Ingesting, Loading, Stripping, ExtractManifest
    <3>2. w = Router => RouterJob(Step(w, pc))
      BY <2>1, <1>11 DEF Hands, GoodJob, RouterJob, UIJob, Step, Extracting, Ingesting, Loading, Stripping, ExtractManifest
    <3>3. w = UI => UIJob(Step(w, pc), mem' \in Cached)
      BY <2>1, <1>11 DEF Hands, GoodJob, RouterJob, UIJob, Step, Extracting, Ingesting, Loading, Stripping, ExtractManifest
    <3> QED
      BY <2>3, <3>1, <3>2, <3>3, <1>11, HandsMove DEF ExtractManifest
  <2>6. Handed'
    BY <2>1, <2>3, <1>11, Contents DEF Handed, Becomes, Step, Readable, Ingesting, ExtractManifest, Hands, GoodJob, RouterJob, Extracting
  <2> QED
    BY <2>4, <2>5, <2>6 DEF TInv
<1>12. ASSUME NEW w \in Workers, ExtractFails(w)
      PROVE TInv'
  <2>1. PICK pc \in {job[w].next} : Goto(w, pc)
    BY <1>12 DEF ExtractFails
  <2>2. pc \in Places
    BY <2>1, <1>12 DEF Places, Extracting, Ingesting, Loading, Stripping, Hands, GoodJob, ExtractFails
  <2>3. Becomes(w, Step(w, pc))
    BY <2>1, <2>2, GotoMoves
  <2>4. TypeOK'
    BY <2>3, <1>12, Contents DEF TypeOK, Becomes, Whole, ExtractFails
  <2>5. Hands'
    <3>1. GoodJob(Step(w, pc))
      BY <2>1, <1>12 DEF Hands, GoodJob, RouterJob, UIJob, Step, Extracting, Ingesting, Loading, Stripping, ExtractFails
    <3>2. w = Router => RouterJob(Step(w, pc))
      BY <2>1, <1>12 DEF Hands, GoodJob, RouterJob, UIJob, Step, Extracting, Ingesting, Loading, Stripping, ExtractFails
    <3>3. w = UI => UIJob(Step(w, pc), mem' \in Cached)
      BY <2>1, <1>12 DEF Hands, GoodJob, RouterJob, UIJob, Step, Extracting, Ingesting, Loading, Stripping, ExtractFails
    <3> QED
      BY <2>3, <3>1, <3>2, <3>3, <1>12, HandsMove DEF ExtractFails
  <2>6. Handed'
    BY <2>1, <2>3, <1>12, Contents DEF Handed, Becomes, Step, Readable, Ingesting, ExtractFails, Hands, GoodJob, RouterJob, Extracting
  <2> QED
    BY <2>4, <2>5, <2>6 DEF TInv
<1>13. ASSUME BeginScan
      PROVE TInv'
  <2>1. PICK pc \in {"scan"} : Goto(UI, pc)
    BY <1>13 DEF BeginScan
  <2>2. pc \in Places
    BY <2>1 DEF Places, Extracting, Ingesting, Loading, Stripping
  <2>3. Becomes(UI, Step(UI, pc))
    BY <2>1, <2>2, GotoMoves
  <2>4. TypeOK'
    BY <2>3, <1>13, Contents DEF TypeOK, Becomes, Whole, BeginScan
  <2>5. Hands'
    <3>1. GoodJob(Step(UI, pc))
      BY <2>1, <1>13 DEF Hands, GoodJob, RouterJob, UIJob, Step, Extracting, Ingesting, Loading, Stripping, BeginScan
    <3>2. UIJob(Step(UI, pc), mem' \in Cached)
      BY <2>1, <1>13 DEF Hands, GoodJob, RouterJob, UIJob, Step, Extracting, Ingesting, Loading, Stripping, BeginScan
    <3> QED
      BY <2>3, <3>1, <3>2, <1>13, HandsMove DEF BeginScan
  <2>6. Handed'
    BY <2>1, <2>3, <1>13, Contents DEF Handed, Becomes, Step, Readable, Ingesting, BeginScan
  <2> QED
    BY <2>4, <2>5, <2>6 DEF TInv
<1>14. ASSUME Scan
      PROVE TInv'
  <2>1. Becomes(UI, Step(UI, "show"))
    BY <1>14, GotoMoves DEF Scan, Places, Loading
  <2>2. envelope' = envelope /\ UNCHANGED router /\ mem' \in Cached \cup {None}
    <3>1. Scanned \in Cached
      <4>1. CASE mem # None
        BY <4>1 DEF Scanned, TypeOK, Cached
      <4>2. CASE mem = None
        <5>1. index # None => index.has \in BOOLEAN
          BY DEF TypeOK
        <5> QED
          BY <4>2, <5>1 DEF Scanned, Cached
      <4> QED
        BY <4>1, <4>2
    <3> QED
      BY <3>1, <1>14 DEF Scan
  <2>3. index' \in [has : BOOLEAN] \cup {None} /\ outdated' \in BOOLEAN /\ rewritten' \in BOOLEAN
    <3>1. CASE envelope = Absent
      BY <3>1, <1>14 DEF Scan, TypeOK
    <3>2. CASE envelope # Absent
      <4>1. mem' = Scanned /\ rewritten' = FALSE /\ Index(mem', FALSE)
        BY <3>2, <1>14 DEF Scan
      <4>2. mem' # None => [has |-> mem'.has] \in [has : BOOLEAN]
        BY <2>2 DEF Cached
      <4>3. \/ mem' # None /\ index' = [has |-> mem'.has] /\ outdated' = FALSE
            \/ index' = index /\ outdated' = outdated
        BY <4>1 DEF Index
      <4>4. index' \in [has : BOOLEAN] \cup {None}
        BY <4>2, <4>3 DEF TypeOK
      <4> QED
        BY <4>1, <4>3, <4>4 DEF TypeOK
    <3> QED
      BY <3>1, <3>2
  <2>4. TypeOK'
    BY <2>1, <2>2, <2>3, <1>14 DEF TypeOK, Becomes, Scan
  <2>5. Hands'
    <3>1. GoodJob(Step(UI, "show")) /\ UIJob(Step(UI, "show"), mem' \in Cached)
      BY DEF GoodJob, UIJob, Step, Extracting, Ingesting, Stripping
    <3> QED
      BY <2>1, <3>1, HandsMove
  <2>6. Handed'
    <3>1. Step(UI, "show").pc = "show"
      BY DEF Step
    <3> QED
      BY <2>1, <2>2, <3>1 DEF Handed, Becomes, Readable, Ingesting
  <2> QED
    BY <2>4, <2>5, <2>6 DEF TInv
<1>15. ASSUME LoadStat
      PROVE TInv'
  <2>1. mem' = mem /\ envelope' = envelope /\ UNCHANGED router /\ rewritten' \in BOOLEAN
    BY <1>15 DEF LoadStat, TypeOK
  <2>2. PICK pc \in {"read", "finish"} : Goto(UI, pc) /\ (pc = "read" => mem # None)
    BY <1>15 DEF LoadStat
  <2>3. Becomes(UI, Step(UI, pc)) /\ Step(UI, pc).pc = pc
    BY <2>2, GotoMoves DEF Places, Loading, Step
  <2>4. TypeOK'
    BY <2>1, <2>3, <1>15 DEF TypeOK, Becomes, LoadStat
  <2>5. Hands'
    <3>1. GoodJob(Step(UI, pc)) /\ UIJob(Step(UI, pc), mem' \in Cached)
      BY <2>1, <2>2, <2>3 DEF TypeOK, GoodJob, UIJob, Extracting, Ingesting, Stripping
    <3> QED
      BY <2>3, <3>1, HandsMove
  <2>6. Handed'
    BY <2>1, <2>2, <2>3 DEF Handed, Becomes, Readable, Ingesting
  <2> QED
    BY <2>4, <2>5, <2>6 DEF TInv
<1>16. ASSUME LoadRead
      PROVE TInv'
  <2>1. mem' \in Cached /\ envelope' = envelope /\ UNCHANGED router
    <3>1. mem \in Cached
      BY <1>16 DEF LoadRead, Hands, UIJob
    <3>2. envelope.fields \in BOOLEAN
      BY DEF TypeOK, Envelopes
    <3> QED
      BY <3>1, <3>2, <1>16 DEF LoadRead, Cached
  <2>2. PICK j \in Jobs : /\ Becomes(UI, j) /\ GoodJob(j) /\ UIJob(j, TRUE)
                          /\ j.pc \notin Ingesting /\ j.pc # "fill"
    <3>1. CASE Goto(UI, "finish") \/ Goto(UI, "names")
      <4>1. PICK pc \in {"finish", "names"} : Goto(UI, pc)
        BY <3>1
      <4>2. Becomes(UI, Step(UI, pc)) /\ Step(UI, pc) \in Jobs
        BY <4>1, GotoMoves, JobFields DEF Places, Loading, Step
      <4> QED
        BY <4>2 DEF GoodJob, UIJob, Step, Extracting, Ingesting, Stripping
    <3>2. CASE Migrate(envelope.fields)
      <4>1. envelope.fields \in BOOLEAN
        BY DEF TypeOK, Envelopes
      <4> QED
        BY <3>2, <4>1, MigrateMoves
    <3> QED
      BY <3>1, <3>2, <1>16 DEF LoadRead
  <2>3. TypeOK'
    BY <2>1, <2>2, <1>16 DEF TypeOK, Becomes, LoadRead
  <2>4. Hands'
    BY <2>1, <2>2, HandsMove DEF Workers
  <2>5. Handed'
    BY <2>1, <2>2 DEF Handed, Becomes, Readable
  <2> QED
    BY <2>3, <2>4, <2>5 DEF TInv
<1>17. ASSUME LoadManifest
      PROVE TInv'
  <2>1. mem' \in Cached /\ envelope' = envelope /\ UNCHANGED router
    <3>1. mem \in Cached
      BY <1>17 DEF LoadManifest, Hands, UIJob
    <3>2. (mem.path /\ dir /\ manifest = "whole") \in BOOLEAN
      OBVIOUS
    <3> QED
      BY <3>1, <3>2, <1>17 DEF LoadManifest, Cached
  <2>2. PICK j \in Jobs : /\ Becomes(UI, j) /\ GoodJob(j) /\ UIJob(j, TRUE)
                          /\ j.pc \notin Ingesting /\ j.pc # "fill"
    BY <1>17, MigrateMoves DEF LoadManifest
  <2>3. TypeOK'
    BY <2>1, <2>2, <1>17 DEF TypeOK, Becomes, LoadManifest
  <2>4. Hands'
    BY <2>1, <2>2, HandsMove DEF Workers
  <2>5. Handed'
    BY <2>1, <2>2 DEF Handed, Becomes, Readable
  <2> QED
    BY <2>3, <2>4, <2>5 DEF TInv
<1>18. ASSUME StripRead
      PROVE TInv'
  <2>1. mem' = mem /\ mem \in Cached /\ envelope' = envelope /\ UNCHANGED router
    BY <1>18 DEF StripRead, Hands, UIJob, Stripping
  <2>2. PICK j \in Jobs : /\ job' = [job EXCEPT ![UI] = j] /\ GoodJob(j) /\ UIJob(j, TRUE)
                          /\ j.pc \notin Ingesting /\ j.pc # "fill"
    <3>1. CASE envelope.fields
      <4> DEFINE j == [pc |-> "strip_dir", next |-> None, data |-> envelope]
      <4>1. envelope \in Full
        BY <3>1, Contents DEF TypeOK, Handed, Readable
      <4>2. j \in Jobs /\ GoodJob(j) /\ UIJob(j, TRUE) /\ j.pc \notin Ingesting /\ j.pc # "fill"
        BY <4>1, JobFields DEF Places, Stripping, GoodJob, UIJob, Extracting, Ingesting
      <4>3. job' = [job EXCEPT ![UI] = j]
        BY <3>1, <1>18 DEF StripRead
      <4> HIDE DEF j
      <4> QED
        BY <4>2, <4>3
    <3>2. CASE ~envelope.fields
      <4> DEFINE j == [pc |-> "finish", next |-> None, data |-> None]
      <4>1. j \in Jobs /\ GoodJob(j) /\ UIJob(j, TRUE) /\ j.pc \notin Ingesting /\ j.pc # "fill"
        BY Records DEF Places, Loading, Stripping, GoodJob, UIJob, Extracting, Ingesting
      <4>2. job' = [job EXCEPT ![UI] = j]
        BY <3>2, <1>18, Records DEF StripRead, Places, Loading
      <4> HIDE DEF j
      <4> QED
        BY <4>1, <4>2
    <3> QED
      BY <3>1, <3>2
  <2>3. Becomes(UI, j)
    BY <2>2, JobMoves
  <2>4. TypeOK'
    BY <2>1, <2>3, <1>18 DEF TypeOK, Becomes, StripRead
  <2>5. Hands'
    BY <2>1, <2>2, <2>3, HandsMove DEF Workers
  <2>6. Handed'
    BY <2>1, <2>2, <2>3 DEF Handed, Becomes, Readable
  <2> QED
    BY <2>4, <2>5, <2>6 DEF TInv
<1>19. ASSUME StripCheck
      PROVE TInv'
  <2>1. PICK pc \in {"strip_open", "finish"} : Goto(UI, pc)
    BY <1>19 DEF StripCheck
  <2>2. pc \in Places
    BY <2>1 DEF Places, Extracting, Ingesting, Loading, Stripping
  <2>3. Becomes(UI, Step(UI, pc))
    BY <2>1, <2>2, GotoMoves
  <2>4. TypeOK'
    BY <2>3, <1>19, Contents DEF TypeOK, Becomes, Whole, StripCheck
  <2>5. Hands'
    <3>1. GoodJob(Step(UI, pc))
      BY <2>1, <1>19 DEF Hands, GoodJob, RouterJob, UIJob, Step, Extracting, Ingesting, Loading, Stripping, StripCheck
    <3>2. UIJob(Step(UI, pc), mem' \in Cached)
      BY <2>1, <1>19 DEF Hands, GoodJob, RouterJob, UIJob, Step, Extracting, Ingesting, Loading, Stripping, StripCheck
    <3> QED
      BY <2>3, <3>1, <3>2, <1>19, HandsMove DEF StripCheck
  <2>6. Handed'
    BY <2>1, <2>3, <1>19, Contents DEF Handed, Becomes, Step, Readable, Ingesting, StripCheck
  <2> QED
    BY <2>4, <2>5, <2>6 DEF TInv
<1>20. ASSUME StripWrite
      PROVE TInv'
  <2>1. mem' = mem /\ UNCHANGED router /\ job[UI].pc \in {"strip_open", "strip_fill"}
    BY <1>20 DEF StripWrite
  <2>2. PICK pc \in {"strip_fill", "finish"} : /\ Goto(UI, pc)
                                               /\ pc = "strip_fill" => job[UI].pc = "strip_open"
    BY <1>20 DEF StripWrite
  <2>3. Becomes(UI, Step(UI, pc)) /\ Step(UI, pc).pc = pc
    BY <2>2, GotoMoves DEF Places, Loading, Stripping, Step
  <2>4. job[UI].data \in Full
    BY <2>1 DEF Hands, UIJob
  <2>5. envelope' \in Envelopes /\ ~envelope'.fields /\ envelope' # Absent
    <3>1. envelope' = Torn \/ envelope' = [job[UI].data EXCEPT !.fields = FALSE]
      BY <1>20 DEF StripWrite, Write
    <3> QED
      BY <2>4, <3>1, Contents
  <2>6. TypeOK'
    <3>1. rewritten' \in BOOLEAN /\ outdated' \in BOOLEAN
      BY <1>20 DEF StripWrite, Write
    <3> QED
      BY <2>3, <2>5, <3>1, <1>20 DEF TypeOK, Becomes, StripWrite
  <2>7. Hands'
    <3>1. GoodJob(Step(UI, pc)) /\ UIJob(Step(UI, pc), mem' \in Cached)
      BY <2>1, <2>2, <2>4 DEF Hands, GoodJob, UIJob, Step, Extracting, Ingesting, Stripping
    <3> QED
      BY <2>3, <3>1, HandsMove
  <2>8. Handed'
    BY <2>1, <2>2, <2>3, <2>5 DEF Handed, Becomes, Readable, Ingesting
  <2> QED
    BY <2>6, <2>7, <2>8 DEF TInv
<1>21. ASSUME StripFails
      PROVE TInv'
  <2>1. PICK pc \in {"finish"} : Goto(UI, pc)
    BY <1>21 DEF StripFails
  <2>2. pc \in Places
    BY <2>1 DEF Places, Extracting, Ingesting, Loading, Stripping
  <2>3. Becomes(UI, Step(UI, pc))
    BY <2>1, <2>2, GotoMoves
  <2>4. TypeOK'
    BY <2>3, <1>21, Contents DEF TypeOK, Becomes, Whole, StripFails
  <2>5. Hands'
    <3>1. GoodJob(Step(UI, pc))
      BY <2>1, <1>21 DEF Hands, GoodJob, RouterJob, UIJob, Step, Extracting, Ingesting, Loading, Stripping, StripFails
    <3>2. UIJob(Step(UI, pc), mem' \in Cached)
      BY <2>1, <1>21 DEF Hands, GoodJob, RouterJob, UIJob, Step, Extracting, Ingesting, Loading, Stripping, StripFails
    <3> QED
      BY <2>3, <3>1, <3>2, <1>21, HandsMove DEF StripFails
  <2>6. Handed'
    BY <2>1, <2>3, <1>21, Contents DEF Handed, Becomes, Step, Readable, Ingesting, StripFails
  <2> QED
    BY <2>4, <2>5, <2>6 DEF TInv
<1>22. ASSUME Finish
      PROVE TInv'
  <2>1. mem' = mem /\ envelope' = envelope /\ UNCHANGED router
    BY <1>22 DEF Finish
  <2>2. Becomes(UI, Idle)
    BY <1>22, Records, JobMoves DEF Finish, Places
  <2>3. GoodJob(Idle) /\ UIJob(Idle, mem' \in Cached) /\ Idle.pc \notin Ingesting /\ Idle.pc # "fill"
    BY DEF GoodJob, UIJob, Idle, Extracting, Ingesting, Stripping
  <2>4. TypeOK'
    BY <2>2, <1>22 DEF TypeOK, Becomes, Finish, Index, Cached
  <2>5. Hands'
    BY <2>1, <2>2, <2>3, HandsMove DEF Workers
  <2>6. Handed'
    BY <2>1, <2>2, <2>3 DEF Handed, Becomes, Readable
  <2> QED
    BY <2>4, <2>5, <2>6 DEF TInv
<1>23. ASSUME DeleteMessage
      PROVE TInv'
  <2>1. /\ mem' = None /\ envelope' = Absent /\ UNCHANGED router /\ job[UI] = Idle
        /\ \E i \in {None, index} : index' = i
    BY <1>23 DEF DeleteMessage
  <2>2. /\ job' \in [Workers -> Jobs]
        /\ \A w \in Workers :
             \/ job'[w] = job[w] /\ job[w].pc # "fill"
             \/ job[w].pc = "fill" /\ job'[w] = Step(w, "lost")
             \/ job[w].pc = "write" /\ job'[w] = Idle
    BY <1>23, DeleteJobs
  <2>3. TypeOK'
    BY <2>1, <2>2, <1>23, Contents DEF TypeOK, DeleteMessage
  <2>4. job'[UI] = Idle
    BY <2>1, <2>2 DEF Idle
  <2>5. \A w \in Workers : GoodJob(job'[w])
    BY <2>2 DEF Hands, GoodJob, Step, Idle, Extracting, Ingesting
  <2>6. RouterJob(job'[Router])
    BY <2>2 DEF Hands, RouterJob, Step, Idle, Extracting, Ingesting
  <2>7. UIJob(job'[UI], mem' \in Cached)
    BY <2>4 DEF UIJob, Idle, Extracting, Stripping
  <2>8. Hands'
    BY <2>5, <2>6, <2>7 DEF Hands
  <2>9. Handed'
    BY <2>1, <2>2, Contents DEF Handed, Readable, Step, Idle, Ingesting
  <2> QED
    BY <2>3, <2>8, <2>9 DEF TInv
<1>24. ASSUME Restart
      PROVE TInv'
  <2>1. job' = [w \in Workers |-> Idle] /\ Idle \in Jobs
    BY <1>24, Records DEF Restart, Places
  <2>2. mem' = None /\ envelope' = envelope /\ lxm' = lxm /\ (lxm = "new" => ~told')
    BY <1>24 DEF Restart
  <2>3. TypeOK'
    BY <2>1, <1>24 DEF TypeOK, Restart
  <2>4. Hands'
    BY <2>1 DEF Hands, GoodJob, RouterJob, UIJob, Idle, Extracting, Ingesting, Stripping
  <2>5. Handed'
    BY <2>1, <2>2 DEF Handed, Readable, Idle, Ingesting
  <2> QED
    BY <2>3, <2>4, <2>5 DEF TInv
<1>25. ASSUME UNCHANGED vars
      PROVE TInv'
  BY <1>25 DEF vars, TInv, TypeOK, Hands, Handed, Readable
<1> QED
  BY <1>1, <1>2, <1>3, <1>4, <1>5, <1>6, <1>7, <1>8, <1>9, <1>10, <1>11, <1>12,
     <1>13, <1>14, <1>15, <1>16, <1>17, <1>18, <1>19, <1>20, <1>21, <1>22, <1>23, <1>24, <1>25
  DEF Next, IngestStep, ExtractStep, LoadStep, StripStep


-----------------------------------------------------------------------------
\* Load may move on to the names or the migration; AttachmentPath is kept.
LEMMA LoadMoves ==
  ASSUME TInv, LoadRead \/ LoadManifest
  PROVE  /\ UNCHANGED <<lxm, told, envelope>> /\ job'[Router] = job[Router]
         /\ mem # None /\ mem' # None /\ mem'.path = mem.path
         /\ job'[UI].pc \in {"finish", "names", "extract", "strip"}
         /\ job'[UI].pc \in {"extract", "strip"} => (Readable \/ job[UI].pc = "names") /\ mem.path
         /\ job'[UI].pc = "names" => Readable
<1> job \in [Workers -> Jobs] /\ UI \in Workers /\ Router \in Workers /\ envelope.fields \in BOOLEAN
  BY DEF TInv, TypeOK, Workers, Envelopes
<1>1. mem \in Cached
  BY DEF TInv, LoadRead, LoadManifest, Hands, UIJob
<1>2. mem' \in Cached /\ mem'.path = mem.path
  <2>1. CASE LoadRead
    BY <1>1, <2>1 DEF LoadRead, Cached
  <2>2. CASE LoadManifest
    <3>1. (mem.path /\ dir /\ manifest = "whole") \in BOOLEAN
      OBVIOUS
    <3> QED
      BY <1>1, <2>2, <3>1 DEF LoadManifest, Cached
  <2> QED
    BY <2>1, <2>2
<1>3. ASSUME NEW fields \in BOOLEAN, Migrate(fields)
      PROVE  /\ job'[Router] = job[Router] /\ job'[UI].pc \in {"finish", "extract", "strip"}
             /\ job'[UI].pc = "finish" <=> ~mem.path
  <2>1. PICK j \in Jobs : /\ Becomes(UI, j) /\ j.pc \in {"finish", "extract", "strip"}
                          /\ (j.pc = "finish" <=> ~mem.path)
    BY <1>3, MigrateMoves
  <2> QED
    BY <2>1, WorkersAssumption DEF Becomes
<1>4. ASSUME NEW pc \in {"finish", "names"}, Goto(UI, pc)
      PROVE  job'[Router] = job[Router] /\ job'[UI].pc = pc
  BY <1>4, WorkersAssumption DEF Goto, Jobs
<1>5. CASE LoadManifest
  BY <1>1, <1>2, <1>3, <1>5 DEF LoadManifest, file, router
<1>6. CASE LoadRead /\ ~Readable
  BY <1>1, <1>2, <1>4, <1>6 DEF LoadRead, file, router
<1>7. CASE LoadRead /\ Readable
  <2>1. Migrate(envelope.fields) \/ Goto(UI, "names")
    BY <1>7 DEF LoadRead
  <2>2. UNCHANGED <<lxm, told, envelope>>
    BY <1>7 DEF LoadRead, file, router
  <2>3. CASE Migrate(envelope.fields)
    BY <1>1, <1>2, <1>3, <1>7, <2>2, <2>3
  <2>4. CASE Goto(UI, "names")
    BY <1>1, <1>2, <1>4, <1>7, <2>2, <2>4
  <2> QED
    BY <2>1, <2>3, <2>4
<1> QED
  BY <1>5, <1>6, <1>7

\* A rescan that finds the file keeps AttachmentPath as it was.
LEMMA ScanMoves ==
  ASSUME TInv, Scan
  PROVE  /\ Becomes(UI, Step(UI, "show")) /\ UNCHANGED <<lxm, told, envelope>>
         /\ envelope # Absent /\ mem # None => mem' # None /\ mem'.path = mem.path
<1> job \in [Workers -> Jobs] /\ UI \in Workers /\ mem \in Cached \cup {None}
  BY DEF TInv, TypeOK, Workers
<1>1. Becomes(UI, Step(UI, "show"))
  BY GotoMoves DEF Scan, Places, Loading
<1>2. UNCHANGED <<lxm, told, envelope>>
  BY DEF Scan, router
<1>3. ASSUME envelope # Absent, mem # None
      PROVE  mem' # None /\ mem'.path = mem.path
  <2>1. mem \in Cached /\ mem' \in {mem, [mem EXCEPT !.loaded = FALSE, !.known = FALSE]}
    BY <1>3 DEF Scan, Scanned
  <2>2. [mem EXCEPT !.loaded = FALSE, !.known = FALSE] \in Cached
    BY <2>1 DEF Cached
  <2>3. [mem EXCEPT !.loaded = FALSE, !.known = FALSE].path = mem.path
    BY <2>1 DEF Cached
  <2> QED
    BY <2>1, <2>2, <2>3
<1> QED
  BY <1>1, <1>2, <1>3


\* Send lists a message without AttachmentPath when its Ingest ends, and the
\* callback of the router is the only other writer.
LEMMA FirstWriteStep == TInv /\ FirstWrite /\ StripIsAlone /\ [Next]_vars => FirstWrite'
<1> SUFFICES ASSUME TInv, FirstWrite, StripIsAlone, [Next]_vars PROVE FirstWrite'
  OBVIOUS
<1> USE DEF TInv, TypeOK, Hands, GoodJob, RouterJob, UIJob, Handed, Readable, FirstWrite, Sent, StripIsAlone, Migrating, Absent, Torn, Workers, Jobs, Idle, Extracting, Ingesting, Loading, Stripping, store, file, cache, router, bounds
<1>1. ASSUME Deliver
      PROVE FirstWrite'
  BY <1>1 DEF Deliver, BeginIngest
<1>2. ASSUME Send
      PROVE FirstWrite'
  BY <1>2 DEF Send, BeginIngest
<1>3. ASSUME RouterEnds
      PROVE FirstWrite'
  BY <1>3 DEF RouterEnds
<1>4. ASSUME MessageNotification
      PROVE FirstWrite'
  BY <1>4 DEF MessageNotification, BeginIngest
<1>5. ASSUME NEW w \in Workers, WriteEnvelope(w)
      PROVE FirstWrite'
  BY <1>5 DEF WriteEnvelope, Write
<1>6. ASSUME NEW w \in Workers, FillEnvelope(w)
      PROVE FirstWrite'
  BY <1>6 DEF FillEnvelope, Write, Goto
<1>7. ASSUME NEW w \in Workers, Notify(w)
      PROVE FirstWrite'
  <2>1. job[w] \in Jobs /\ job[w].next = "notify" /\ UNCHANGED <<lxm, told, envelope>>
    BY <1>7 DEF Notify
  <2>2. CASE w = UI
    <3>1. mem' = [path |-> FALSE, loaded |-> FALSE, known |-> FALSE, has |-> FALSE, set |-> FALSE]
      BY <2>2, <1>7 DEF Notify
    <3>2. mem' \in Cached /\ ~mem'.path
      BY <3>1 DEF Cached
    <3>3. Sent'
      BY <3>2 DEF Sent
    <3>4. job'[Router] = job[Router]
      BY <2>2, <1>7 DEF Notify
    <3> QED
      BY <2>1, <3>3, <3>4
  <2>3. CASE w = Router
    <3>1. mem' = mem /\ job'[UI] = job[UI] /\ job'[Router] = Idle
      BY <2>3, <1>7 DEF Notify
    <3> QED
      BY <2>1, <3>1
  <2> QED
    BY <2>2, <2>3
<1>8. ASSUME NEW w \in Workers, ExtractCheck(w)
      PROVE FirstWrite'
  BY <1>8 DEF ExtractCheck, Goto
<1>9. ASSUME NEW w \in Workers, ExtractMkdir(w)
      PROVE FirstWrite'
  BY <1>9 DEF ExtractMkdir, Goto
<1>10. ASSUME NEW w \in Workers, ExtractFiles(w)
      PROVE FirstWrite'
  BY <1>10 DEF ExtractFiles, Goto
<1>11. ASSUME NEW w \in Workers, ExtractManifest(w)
      PROVE FirstWrite'
  BY <1>11 DEF ExtractManifest, Goto
<1>12. ASSUME NEW w \in Workers, ExtractFails(w)
      PROVE FirstWrite'
  BY <1>12 DEF ExtractFails, Goto
<1>13. ASSUME BeginScan
      PROVE FirstWrite'
  BY <1>13 DEF BeginScan, Goto
<1>14. ASSUME Scan
      PROVE FirstWrite'
  <2>1. /\ Becomes(UI, Step(UI, "show")) /\ UNCHANGED <<lxm, told, envelope>>
        /\ envelope # Absent /\ mem # None /\ ~mem.path => mem' # None /\ ~mem'.path
    BY <1>14, ScanMoves
  <2>2. job'[Router] = job[Router]
    BY <2>1 DEF Becomes
  <2> QED
    BY <2>1, <2>2, <1>14 DEF Scan
<1>15. ASSUME LoadStat
      PROVE FirstWrite'
  BY <1>15 DEF LoadStat, Goto
<1>16. ASSUME LoadRead
      PROVE FirstWrite'
  <2>1. /\ UNCHANGED <<lxm, told, envelope>> /\ job'[Router] = job[Router]
        /\ mem # None /\ mem' # None /\ mem'.path = mem.path
    BY <1>16, LoadMoves
  <2>2. job[UI].pc = "read"
    BY <1>16 DEF LoadRead
  <2> QED
    BY <2>1, <2>2
<1>17. ASSUME LoadManifest
      PROVE FirstWrite'
  BY <1>17 DEF LoadManifest, Migrate, Cached
<1>18. ASSUME StripRead
      PROVE FirstWrite'
  BY <1>18 DEF StripRead
<1>19. ASSUME StripCheck
      PROVE FirstWrite'
  BY <1>19 DEF StripCheck, Goto
<1>20. ASSUME StripWrite
      PROVE FirstWrite'
  BY <1>20 DEF StripWrite, Write, Goto
<1>21. ASSUME StripFails
      PROVE FirstWrite'
  BY <1>21 DEF StripFails, Goto
<1>22. ASSUME Finish
      PROVE FirstWrite'
  BY <1>22 DEF Finish, Index
<1>23. ASSUME DeleteMessage
      PROVE FirstWrite'
  BY <1>23 DEF DeleteMessage
<1>24. ASSUME Restart
      PROVE FirstWrite'
  BY <1>24 DEF Restart
<1>25. ASSUME UNCHANGED vars
      PROVE FirstWrite'
  BY <1>25 DEF vars
<1> QED
  BY <1>1, <1>2, <1>3, <1>4, <1>5, <1>6, <1>7, <1>8, <1>9, <1>10, <1>11, <1>12,
     <1>13, <1>14, <1>15, <1>16, <1>17, <1>18, <1>19, <1>20, <1>21, <1>22, <1>23, <1>24, <1>25
  DEF Next, IngestStep, ExtractStep, LoadStep, StripStep

\* A migration begins when the envelope was readable and the message has its
\* AttachmentPath, so not before the callback of the router has stored it.
LEMMA StripIsAloneStep == TInv /\ FirstWrite /\ StripIsAlone /\ [Next]_vars => StripIsAlone'
<1> SUFFICES ASSUME TInv, FirstWrite, StripIsAlone, [Next]_vars PROVE StripIsAlone'
  OBVIOUS
<1> USE DEF TInv, TypeOK, Hands, GoodJob, RouterJob, UIJob, Handed, Readable, FirstWrite, Sent, StripIsAlone, Migrating, Workers, Jobs, Idle, Extracting, Ingesting, Loading, Stripping, store, file, cache, router, bounds
<1>1. ASSUME Deliver
      PROVE StripIsAlone'
  BY <1>1 DEF Deliver, BeginIngest
<1>2. ASSUME Send
      PROVE StripIsAlone'
  BY <1>2 DEF Send, BeginIngest
<1>3. ASSUME RouterEnds
      PROVE StripIsAlone'
  BY <1>3 DEF RouterEnds
<1>4. ASSUME MessageNotification
      PROVE StripIsAlone'
  BY <1>4 DEF MessageNotification, BeginIngest
<1>5. ASSUME NEW w \in Workers, WriteEnvelope(w)
      PROVE StripIsAlone'
  BY <1>5 DEF WriteEnvelope, Write
<1>6. ASSUME NEW w \in Workers, FillEnvelope(w)
      PROVE StripIsAlone'
  BY <1>6 DEF FillEnvelope, Write, Goto
<1>7. ASSUME NEW w \in Workers, Notify(w)
      PROVE StripIsAlone'
  BY <1>7 DEF Notify
<1>8. ASSUME NEW w \in Workers, ExtractCheck(w)
      PROVE StripIsAlone'
  BY <1>8 DEF ExtractCheck, Goto
<1>9. ASSUME NEW w \in Workers, ExtractMkdir(w)
      PROVE StripIsAlone'
  BY <1>9 DEF ExtractMkdir, Goto
<1>10. ASSUME NEW w \in Workers, ExtractFiles(w)
      PROVE StripIsAlone'
  BY <1>10 DEF ExtractFiles, Goto
<1>11. ASSUME NEW w \in Workers, ExtractManifest(w)
      PROVE StripIsAlone'
  BY <1>11 DEF ExtractManifest, Goto
<1>12. ASSUME NEW w \in Workers, ExtractFails(w)
      PROVE StripIsAlone'
  BY <1>12 DEF ExtractFails, Goto
<1>13. ASSUME BeginScan
      PROVE StripIsAlone'
  BY <1>13 DEF BeginScan, Goto
<1>14. ASSUME Scan
      PROVE StripIsAlone'
  BY <1>14 DEF Scan, Scanned, Index, Goto
<1>15. ASSUME LoadStat
      PROVE StripIsAlone'
  BY <1>15 DEF LoadStat, Goto
<1>16. ASSUME LoadRead
      PROVE StripIsAlone'
  <2>1. job[UI].pc = "read"
    BY <1>16 DEF LoadRead
  <2>2. /\ UNCHANGED <<lxm, told, envelope>> /\ job'[Router] = job[Router]
        /\ mem # None /\ mem' # None /\ mem'.path = mem.path
        /\ job'[UI].pc \in {"finish", "names", "extract", "strip"}
        /\ job'[UI].pc \in {"extract", "strip"} => Readable /\ mem.path
        /\ job'[UI].pc = "names" => Readable
    BY <2>1, <1>16, LoadMoves
  <2>3. Readable /\ mem.path => told /\ job[Router].pc \notin {"write", "fill"}
    BY <2>1, Contents
  <2> QED
    BY <2>2, <2>3
<1>17. ASSUME LoadManifest
      PROVE StripIsAlone'
  BY <1>17 DEF LoadManifest, Migrate, Cached
<1>18. ASSUME StripRead
      PROVE StripIsAlone'
  BY <1>18 DEF StripRead
<1>19. ASSUME StripCheck
      PROVE StripIsAlone'
  BY <1>19 DEF StripCheck, Goto
<1>20. ASSUME StripWrite
      PROVE StripIsAlone'
  BY <1>20 DEF StripWrite, Write, Goto
<1>21. ASSUME StripFails
      PROVE StripIsAlone'
  BY <1>21 DEF StripFails, Goto
<1>22. ASSUME Finish
      PROVE StripIsAlone'
  BY <1>22 DEF Finish, Index
<1>23. ASSUME DeleteMessage
      PROVE StripIsAlone'
  BY <1>23 DEF DeleteMessage
<1>24. ASSUME Restart
      PROVE StripIsAlone'
  BY <1>24 DEF Restart
<1>25. ASSUME UNCHANGED vars
      PROVE StripIsAlone'
  BY <1>25 DEF vars
<1> QED
  BY <1>1, <1>2, <1>3, <1>4, <1>5, <1>6, <1>7, <1>8, <1>9, <1>10, <1>11, <1>12,
     <1>13, <1>14, <1>15, <1>16, <1>17, <1>18, <1>19, <1>20, <1>21, <1>22, <1>23, <1>24, <1>25
  DEF Next, IngestStep, ExtractStep, LoadStep, StripStep

\* Only the strip takes the attachments out of an envelope, after it has seen the
\* directory, and nothing removes a directory.
LEMMA StripNeedsDirStep == TInv /\ StripNeedsDir /\ [Next]_vars => StripNeedsDir'
<1> SUFFICES ASSUME TInv, StripNeedsDir, [Next]_vars PROVE StripNeedsDir'
  OBVIOUS
<1> USE DEF TInv, TypeOK, Hands, GoodJob, RouterJob, UIJob, Handed, Readable, StripNeedsDir, Workers, Jobs, Idle, Extracting, Ingesting, Loading, Stripping, store, file, cache, router, bounds
<1>1. ASSUME Deliver
      PROVE StripNeedsDir'
  BY <1>1 DEF Deliver, BeginIngest
<1>2. ASSUME Send
      PROVE StripNeedsDir'
  BY <1>2 DEF Send, BeginIngest
<1>3. ASSUME RouterEnds
      PROVE StripNeedsDir'
  BY <1>3 DEF RouterEnds
<1>4. ASSUME MessageNotification
      PROVE StripNeedsDir'
  BY <1>4 DEF MessageNotification, BeginIngest
<1>5. ASSUME NEW w \in Workers, WriteEnvelope(w)
      PROVE StripNeedsDir'
  BY <1>5 DEF WriteEnvelope, Write, Torn, States
<1>6. ASSUME NEW w \in Workers, FillEnvelope(w)
      PROVE StripNeedsDir'
  BY <1>6 DEF FillEnvelope, Write, Goto, Full
<1>7. ASSUME NEW w \in Workers, Notify(w)
      PROVE StripNeedsDir'
  BY <1>7 DEF Notify
<1>8. ASSUME NEW w \in Workers, ExtractCheck(w)
      PROVE StripNeedsDir'
  BY <1>8 DEF ExtractCheck, Goto
<1>9. ASSUME NEW w \in Workers, ExtractMkdir(w)
      PROVE StripNeedsDir'
  BY <1>9 DEF ExtractMkdir, Goto
<1>10. ASSUME NEW w \in Workers, ExtractFiles(w)
      PROVE StripNeedsDir'
  BY <1>10 DEF ExtractFiles, Goto
<1>11. ASSUME NEW w \in Workers, ExtractManifest(w)
      PROVE StripNeedsDir'
  BY <1>11 DEF ExtractManifest, Goto
<1>12. ASSUME NEW w \in Workers, ExtractFails(w)
      PROVE StripNeedsDir'
  BY <1>12 DEF ExtractFails, Goto
<1>13. ASSUME BeginScan
      PROVE StripNeedsDir'
  BY <1>13 DEF BeginScan, Goto
<1>14. ASSUME Scan
      PROVE StripNeedsDir'
  BY <1>14 DEF Scan, Scanned, Index, Goto
<1>15. ASSUME LoadStat
      PROVE StripNeedsDir'
  BY <1>15 DEF LoadStat, Goto
<1>16. ASSUME LoadRead
      PROVE StripNeedsDir'
  BY <1>16 DEF LoadRead, Migrate, Goto
<1>17. ASSUME LoadManifest
      PROVE StripNeedsDir'
  BY <1>17 DEF LoadManifest, Migrate
<1>18. ASSUME StripRead
      PROVE StripNeedsDir'
  BY <1>18 DEF StripRead
<1>19. ASSUME StripCheck
      PROVE StripNeedsDir'
  BY <1>19 DEF StripCheck, Goto
<1>20. ASSUME StripWrite
      PROVE StripNeedsDir'
  BY <1>20 DEF StripWrite, Write, Goto
<1>21. ASSUME StripFails
      PROVE StripNeedsDir'
  BY <1>21 DEF StripFails, Goto
<1>22. ASSUME Finish
      PROVE StripNeedsDir'
  BY <1>22 DEF Finish, Index
<1>23. ASSUME DeleteMessage
      PROVE StripNeedsDir'
  BY <1>23 DEF DeleteMessage, Absent, States
<1>24. ASSUME Restart
      PROVE StripNeedsDir'
  BY <1>24 DEF Restart
<1>25. ASSUME UNCHANGED vars
      PROVE StripNeedsDir'
  BY <1>25 DEF vars
<1> QED
  BY <1>1, <1>2, <1>3, <1>4, <1>5, <1>6, <1>7, <1>8, <1>9, <1>10, <1>11, <1>12,
     <1>13, <1>14, <1>15, <1>16, <1>17, <1>18, <1>19, <1>20, <1>21, <1>22, <1>23, <1>24, <1>25
  DEF Next, IngestStep, ExtractStep, LoadStep, StripStep

\* What a worker begins it has in hand until it is written.
LEMMA UnderWayStep == TInv /\ UnderWay /\ [Next]_vars => UnderWay'
<1> SUFFICES ASSUME TInv, UnderWay, [Next]_vars PROVE UnderWay'
  OBVIOUS
<1> USE DEF TInv, TypeOK, Hands, GoodJob, RouterJob, UIJob, Handed, Readable, UnderWay, Workers, Jobs, Idle, Extracting, Ingesting, Loading, Stripping, store, file, cache, router, bounds
<1>1. ASSUME Deliver
      PROVE UnderWay'
  BY <1>1 DEF Deliver, BeginIngest
<1>2. ASSUME Send
      PROVE UnderWay'
  BY <1>2 DEF Send, BeginIngest
<1>3. ASSUME RouterEnds
      PROVE UnderWay'
  BY <1>3 DEF RouterEnds
<1>4. ASSUME MessageNotification
      PROVE UnderWay'
  BY <1>4 DEF MessageNotification, BeginIngest
<1>5. ASSUME NEW w \in Workers, WriteEnvelope(w)
      PROVE UnderWay'
  BY <1>5 DEF WriteEnvelope, Write
<1>6. ASSUME NEW w \in Workers, FillEnvelope(w)
      PROVE UnderWay'
  BY <1>6 DEF FillEnvelope, Write, Goto, Full
<1>7. ASSUME NEW w \in Workers, Notify(w)
      PROVE UnderWay'
  BY <1>7 DEF Notify
<1>8. ASSUME NEW w \in Workers, ExtractCheck(w)
      PROVE UnderWay'
  BY <1>8 DEF ExtractCheck, Goto
<1>9. ASSUME NEW w \in Workers, ExtractMkdir(w)
      PROVE UnderWay'
  BY <1>9 DEF ExtractMkdir, Goto
<1>10. ASSUME NEW w \in Workers, ExtractFiles(w)
      PROVE UnderWay'
  BY <1>10 DEF ExtractFiles, Goto
<1>11. ASSUME NEW w \in Workers, ExtractManifest(w)
      PROVE UnderWay'
  BY <1>11 DEF ExtractManifest, Goto
<1>12. ASSUME NEW w \in Workers, ExtractFails(w)
      PROVE UnderWay'
  BY <1>12 DEF ExtractFails, Goto
<1>13. ASSUME BeginScan
      PROVE UnderWay'
  BY <1>13 DEF BeginScan, Goto
<1>14. ASSUME Scan
      PROVE UnderWay'
  BY <1>14 DEF Scan, Scanned, Index, Goto
<1>15. ASSUME LoadStat
      PROVE UnderWay'
  BY <1>15 DEF LoadStat, Goto
<1>16. ASSUME LoadRead
      PROVE UnderWay'
  BY <1>16 DEF LoadRead, Migrate, Goto
<1>17. ASSUME LoadManifest
      PROVE UnderWay'
  BY <1>17 DEF LoadManifest, Migrate
<1>18. ASSUME StripRead
      PROVE UnderWay'
  BY <1>18 DEF StripRead
<1>19. ASSUME StripCheck
      PROVE UnderWay'
  BY <1>19 DEF StripCheck, Goto
<1>20. ASSUME StripWrite
      PROVE UnderWay'
  <2> SUFFICES ASSUME restarts = 0, faults = 0
                PROVE UnderWay'
    BY <1>20 DEF StripWrite
  <2>1. /\ UNCHANGED <<dir, files, manifest, ingested>>
        /\ job[UI].pc \in {"strip_open", "strip_fill"} /\ job'[Router] = job[Router]
    BY <1>20 DEF StripWrite, Goto
  <2>2. job[UI].pc = "strip_open" => job'[UI].pc = "strip_fill"
    BY <1>20 DEF StripWrite, Goto
  <2>3. job[UI].pc = "strip_fill" => Readable'
    <3>1. job[UI].pc = "strip_fill" => envelope' = [job[UI].data EXCEPT !.fields = FALSE]
      BY <1>20 DEF StripWrite, Write
    <3>2. job[UI].data \in Full
      BY <2>1
    <3> QED
      BY <3>1, <3>2, Contents
  <2>4. dir => files = "whole" \/ job[Router].pc \in {"files", "fill_files"}
    BY <2>1
  <2>5. dir => manifest = "whole" \/ job[Router].pc \in Extracting \ {"extract", "mkdir"}
    BY <2>1
  <2> QED
    BY <2>1, <2>2, <2>3, <2>4, <2>5
<1>21. ASSUME StripFails
      PROVE UnderWay'
  BY <1>21 DEF StripFails, Goto
<1>22. ASSUME Finish
      PROVE UnderWay'
  BY <1>22 DEF Finish, Index
<1>23. ASSUME DeleteMessage
      PROVE UnderWay'
  BY <1>23 DEF DeleteMessage
<1>24. ASSUME Restart
      PROVE UnderWay'
  BY <1>24 DEF Restart
<1>25. ASSUME UNCHANGED vars
      PROVE UnderWay'
  BY <1>25 DEF vars
<1> QED
  BY <1>1, <1>2, <1>3, <1>4, <1>5, <1>6, <1>7, <1>8, <1>9, <1>10, <1>11, <1>12,
     <1>13, <1>14, <1>15, <1>16, <1>17, <1>18, <1>19, <1>20, <1>21, <1>22, <1>23, <1>24, <1>25
  DEF Next, IngestStep, ExtractStep, LoadStep, StripStep

-----------------------------------------------------------------------------
(***************************************************************************)
(* The theorems.                                                           *)
(***************************************************************************)

LEMMA InitIInv == Init => IInv
<1> SUFFICES ASSUME Init PROVE IInv
  OBVIOUS
<1> Router \in Workers /\ UI \in Workers /\ Idle \in Jobs /\ job = [w \in Workers |-> Idle]
  BY Records DEF Init, Workers, Places
<1>1. TypeOK
  <2>1. 0 \in 0..MaxRestarts /\ 0 \in 0..MaxFaults
    BY BoundsAssumption
  <2>2. job \in [Workers -> Jobs]
    OBVIOUS
  <2> QED
    BY <2>1, <2>2, Contents DEF Init, TypeOK, Whole
<1>2. Hands /\ Handed
  BY Contents DEF Init, Hands, Handed, Idle, GoodJob, RouterJob, UIJob, Extracting, Ingesting,
                  Stripping
<1>3. FirstWrite
  BY DEF Init, FirstWrite, Idle
<1>4. StripIsAlone /\ StripNeedsDir
  BY Contents DEF Init, StripIsAlone, Migrating, StripNeedsDir, Readable, Idle, Extracting, Stripping
<1>5. UnderWay
  BY DEF Init, UnderWay
<1> QED
  BY <1>1, <1>2, <1>3, <1>4, <1>5 DEF IInv, TInv

LEMMA NextIInv == IInv /\ [Next]_vars => IInv'
BY TInvStep, FirstWriteStep, StripIsAloneStep, StripNeedsDirStep, UnderWayStep DEF IInv

\* What the steps of Ingest, the extraction, Load and the strip keep in every
\* state: the invariant that the theorems below follow from.
THEOREM Inductive == Spec => []IInv
BY InitIInv, NextIInv, PTL DEF Spec

\* The variables keep their types: what follows an extraction is always one of
\* the two callers of ExtractAttachmentsFromLXM.
THEOREM TypesHold == Spec => []TypeOK
<1>1. IInv => TypeOK
  BY DEF IInv, TInv
<1> QED
  BY <1>1, Inductive, PTL

\* "so the bytes are stored once instead of twice" (Load, message.go): unless the
\* process was killed or a write failed, a stored message that no worker is at has
\* its attachments in its envelope, or on disk with their manifest.
THEOREM NoAttachmentIsLost == Spec => []AttachmentsAreStored
<1>1. IInv => AttachmentsAreStored
  <2> SUFFICES ASSUME IInv, Quiet, ingested, restarts = 0, faults = 0
               PROVE  Readable /\ (envelope.fields \/ (files = "whole" /\ manifest = "whole"))
    BY DEF AttachmentsAreStored
  <2>1. \A w \in Workers : job[w].pc = "idle"
    BY DEF Quiet, Idle
  <2>2. job[UI].pc = "idle"
    BY <2>1 DEF Workers
  <2>3. Readable
    BY <2>1, <2>2 DEF IInv, UnderWay
  <2>4. ~envelope.fields => dir
    BY <2>3 DEF IInv, StripNeedsDir
  <2>5. dir => files = "whole" /\ manifest = "whole"
    BY <2>1 DEF IInv, UnderWay, Extracting
  <2> QED
    BY <2>3, <2>4, <2>5
<1> QED
  BY <1>1, Inductive, PTL

\* StripAttachmentsFromFile rewrites the envelope that it read a moment before:
\* no Ingest of the message stores a later state in between, whichever worker is
\* scheduled when, and whatever was interrupted before.
THEOREM StripIsSafe == Spec => StripKeepsTheState
<1>1. IInv => (job[UI].pc = "strip_open" /\ job'[UI].pc = "strip_fill"
                 => envelope.state = job[UI].data.state)
  BY DEF IInv, StripIsAlone
<1> QED
  BY <1>1, Inductive, PTL DEF StripKeepsTheState
=============================================================================
