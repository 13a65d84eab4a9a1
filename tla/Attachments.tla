---------------------------- MODULE Attachments ----------------------------
(***************************************************************************)
(* The attachments of one message: in the fields of its envelope, in its   *)
(* attachment directory, and as a row of the display.                      *)
(*                                                                         *)
(* nomadnet/conversation: ExtractAttachmentsFromLXM (attachments-dir.go),  *)
(* StripAttachmentsFromFile (strip-attachments.go), and their callers      *)
(* Ingest (cache.go) and Load (message.go).                                *)
(*                                                                         *)
(* Ingest stores an envelope that holds the attachments and extracts them  *)
(* into a directory named after the message; it runs on a goroutine of the *)
(* router, or on the UI thread for a message being sent.  Load, on the UI  *)
(* thread, extracts them if there is no directory and then rewrites the    *)
(* envelope without them.  Messages share neither envelope nor directory,  *)
(* so one message is the whole of the behaviour.  As in ConversationStore, *)
(* a file rewritten since its timestamp was kept is noticed by the rescan. *)
(***************************************************************************)
EXTENDS Naturals

CONSTANTS
  Router,        \* the router goroutine that handles the message
  UI,            \* the thread of the terminal interface
  MaxRestarts,   \* bound on the number of crashes
  MaxFaults,     \* bound on the number of writes that fail
  None           \* no message in memory, no entry, no container

Workers == {Router, UI}

ASSUME WorkersAssumption == Router # UI
ASSUME BoundsAssumption == MaxRestarts \in Nat /\ MaxFaults \in Nat

VARIABLES
  kind,       \* the message is "inbound" or "outbound"
  lxm,        \* its state in the hands of the router
  told,       \* the callback for its final state has begun, or never will
  envelope,   \* its file: what it says, if it is there and whole
  rewritten,  \* the file is newer than the sort timestamp in memory
  outdated,   \* the file is newer than the sort timestamp in the index
  dir,        \* the attachment directory exists
  files,      \* the attachment files in it: "none", "torn" or "whole"
  manifest,   \* and the manifest that lists them
  mem,        \* the Message of c.Messages
  index,      \* its entry in .index: whether it has attachments
  job,        \* job[w]: what worker w is doing
  ingested,   \* history: its envelope was stored and not deleted since
  restarts, faults

vars == <<kind, lxm, told, envelope, rewritten, outdated, dir, files, manifest,
          mem, index, job, ingested, restarts, faults>>

store  == <<dir, files, manifest>>
file   == <<envelope, rewritten, outdated, ingested>>
cache  == <<mem, index>>
router == <<kind, lxm, told>>
bounds == <<restarts, faults>>

States    == {"received", "outbound", "final"}
Envelopes == [state : States \cup {"absent", "torn"}, fields : BOOLEAN]
Whole     == {"none", "torn", "whole"}

Extracting == {"extract", "mkdir", "files", "fill_files", "manifest", "fill_manifest"}
Ingesting  == {"write", "fill", "lost"}
Loading    == {"scan", "show", "read", "names", "finish"}
Stripping  == {"strip", "strip_dir", "strip_open", "strip_fill"}

Absent == [state |-> "absent", fields |-> FALSE]
Torn   == [state |-> "torn", fields |-> FALSE]

\* next is what follows an extraction; data what was read or is to be written.
Jobs == [pc : {"idle", "notify"} \cup Extracting \cup Ingesting \cup Loading \cup Stripping,
         next : {"notify", "strip", None}, data : Envelopes \cup {None}]

Idle == [pc |-> "idle", next |-> None, data |-> None]

\* path: AttachmentPath is set; known: CachedState is; set: attachSet, the index
\* supplied has.
Cached == [path : BOOLEAN, loaded : BOOLEAN, known : BOOLEAN, has : BOOLEAN, set : BOOLEAN]

ASSUME NoneAssumption == None \notin Cached

TypeOK ==
  /\ kind \in {"inbound", "outbound"}
  /\ lxm \in States \cup {"new"}
  /\ told \in BOOLEAN
  /\ envelope \in Envelopes
  /\ rewritten \in BOOLEAN /\ outdated \in BOOLEAN
  /\ dir \in BOOLEAN /\ files \in Whole /\ manifest \in Whole
  /\ mem \in Cached \cup {None}
  /\ index \in [has : BOOLEAN] \cup {None}
  /\ job \in [Workers -> Jobs]
  /\ ingested \in BOOLEAN
  /\ restarts \in 0..MaxRestarts /\ faults \in 0..MaxFaults

Init ==
  /\ kind \in {"inbound", "outbound"}
  /\ lxm = "new" /\ told = FALSE
  /\ envelope = Absent /\ rewritten = FALSE /\ outdated = FALSE
  /\ dir = FALSE /\ files = "none" /\ manifest = "none"
  /\ mem = None /\ index = None
  /\ job = [w \in Workers |-> Idle]
  /\ ingested = FALSE
  /\ restarts = 0 /\ faults = 0

Readable == envelope.state \in States

Goto(w, pc) == job' = [job EXCEPT ![w].pc = pc]

\* Any write of the file makes it newer than what was noted before.
Write(content) == envelope' = content /\ rewritten' = TRUE /\ outdated' = TRUE

-----------------------------------------------------------------------------
(***************************************************************************)
(* The router and Ingest.                                                  *)
(***************************************************************************)

BeginIngest(w) ==
  /\ job[w] = Idle
  /\ job' = [job EXCEPT ![w] = [pc |-> "write", next |-> "notify", data |-> None]]
  /\ UNCHANGED <<kind, file, store, cache, bounds>>

Deliver ==
  /\ kind = "inbound" /\ lxm = "new"
  /\ lxm' = "received" /\ told' = TRUE
  /\ BeginIngest(Router)

Send ==
  /\ kind = "outbound" /\ lxm = "new"
  /\ lxm' = "outbound" /\ told' = told
  /\ BeginIngest(UI)

RouterEnds ==
  /\ lxm = "outbound" /\ ~told
  /\ lxm' = "final"
  /\ UNCHANGED <<kind, told, file, store, cache, job, bounds>>

MessageNotification ==
  /\ lxm = "final" /\ ~told
  /\ told' = TRUE /\ lxm' = lxm
  /\ BeginIngest(Router)

\* WriteToDirectory packs the message, attachments included, and truncates the
\* file before writing it.
WriteEnvelope(w) ==
  /\ job[w].pc = "write"
  /\ Write(Torn)
  /\ job' = [job EXCEPT ![w].pc = "fill", ![w].data = [state |-> lxm, fields |-> TRUE]]
  /\ UNCHANGED <<router, store, cache, ingested, bounds>>

FillEnvelope(w) ==
  /\ \/ job[w].pc = "fill" /\ Write(job[w].data) /\ ingested' = TRUE
     \/ job[w].pc = "lost" /\ UNCHANGED file
  /\ Goto(w, "extract")
  /\ UNCHANGED <<router, store, cache, bounds>>

\* Mutant: Send gives the message it lists its AttachmentPath.
NotifyWithPath(w) ==
  /\ job[w].pc = "notify"
  /\ IF w = UI
     THEN /\ mem' = [path |-> TRUE, loaded |-> FALSE, known |-> FALSE, has |-> FALSE,
                     set |-> FALSE]
          /\ rewritten' = FALSE
          /\ job' = [job EXCEPT ![w] = [Idle EXCEPT !.pc = "scan"]]
     ELSE /\ job' = [job EXCEPT ![w] = Idle]
          /\ UNCHANGED <<mem, rewritten>>
  /\ UNCHANGED <<router, envelope, outdated, ingested, store, index, bounds>>

\* The end of Ingest.  Send then lists a message that has no AttachmentPath, and
\* the open conversation is scanned again.
Notify(w) ==
  /\ job[w].pc = "notify"
  /\ IF w = UI
     THEN /\ mem' = [path |-> FALSE, loaded |-> FALSE, known |-> FALSE, has |-> FALSE,
                     set |-> FALSE]
          /\ rewritten' = FALSE
          /\ job' = [job EXCEPT ![w] = [Idle EXCEPT !.pc = "scan"]]
     ELSE /\ job' = [job EXCEPT ![w] = Idle]
          /\ UNCHANGED <<mem, rewritten>>
  /\ UNCHANGED <<router, envelope, outdated, ingested, store, index, bounds>>

-----------------------------------------------------------------------------
(***************************************************************************)
(* ExtractAttachmentsFromLXM: nothing if the directory is there, else the  *)
(* directory, the files, the manifest.                                     *)
(***************************************************************************)

ExtractCheck(w) ==
  /\ job[w].pc = "extract"
  /\ Goto(w, IF dir THEN job[w].next ELSE "mkdir")
  /\ UNCHANGED <<router, file, store, cache, bounds>>

ExtractMkdir(w) ==
  /\ job[w].pc = "mkdir"
  /\ dir' = TRUE
  /\ Goto(w, "files")
  /\ UNCHANGED <<router, file, files, manifest, cache, bounds>>

\* Mutant: the extraction forgets the manifest.
ExtractOnlyFiles(w) ==
  /\ \/ job[w].pc = "files" /\ files' = "torn" /\ Goto(w, "fill_files")
     \/ job[w].pc = "fill_files" /\ files' = "whole" /\ Goto(w, job[w].next)
  /\ UNCHANGED <<router, file, dir, manifest, cache, bounds>>

ExtractFiles(w) ==
  /\ \/ job[w].pc = "files" /\ files' = "torn" /\ Goto(w, "fill_files")
     \/ job[w].pc = "fill_files" /\ files' = "whole" /\ Goto(w, "manifest")
  /\ UNCHANGED <<router, file, dir, manifest, cache, bounds>>

ExtractManifest(w) ==
  /\ \/ job[w].pc = "manifest" /\ manifest' = "torn" /\ Goto(w, "fill_manifest")
     \/ job[w].pc = "fill_manifest" /\ manifest' = "whole" /\ Goto(w, job[w].next)
  /\ UNCHANGED <<router, file, dir, files, cache, bounds>>

\* A write that fails ends the extraction.  The callers ignore or log the error.
ExtractFails(w) ==
  /\ faults < MaxFaults /\ faults' = faults + 1
  /\ job[w].pc \in Extracting \ {"extract", "mkdir"}
  /\ Goto(w, job[w].next)
  /\ UNCHANGED <<router, file, store, cache, restarts>>

-----------------------------------------------------------------------------
(***************************************************************************)
(* The UI thread: scan, index, load, strip.                                *)
(***************************************************************************)

BeginScan ==
  /\ job[UI] = Idle
  /\ Goto(UI, "scan")
  /\ UNCHANGED <<router, file, store, cache, bounds>>

\* A rewritten file loses its cached state; a new one is restored from the index
\* unless the index is older.
Scanned ==
  IF mem # None
  THEN IF rewritten THEN [mem EXCEPT !.loaded = FALSE, !.known = FALSE] ELSE mem
  ELSE IF index # None /\ ~outdated
       THEN [path |-> TRUE, loaded |-> FALSE, known |-> TRUE, has |-> index.has, set |-> TRUE]
       ELSE [path |-> TRUE, loaded |-> FALSE, known |-> FALSE, has |-> FALSE, set |-> FALSE]

\* WriteIndex, with the timestamp the message has in memory.
Index(m, old) ==
  IF m # None /\ m.known
  THEN index' = [has |-> m.has] /\ outdated' = old
  ELSE UNCHANGED <<index, outdated>>

Scan ==
  /\ job[UI].pc = "scan"
  /\ IF envelope = Absent
     THEN mem' = None /\ UNCHANGED <<index, rewritten, outdated>>
     ELSE mem' = Scanned /\ rewritten' = FALSE /\ Index(Scanned, FALSE)
  /\ Goto(UI, "show")
  /\ UNCHANGED <<router, envelope, ingested, store, bounds>>

\* DisplayMessages loads every message that is not loaded.  Load takes the time
\* of the file before it reads it.
LoadStat ==
  /\ job[UI].pc = "show"
  /\ IF mem # None /\ ~mem.loaded
     THEN rewritten' = FALSE /\ Goto(UI, "read")
     ELSE rewritten' = rewritten /\ Goto(UI, "finish")
  /\ UNCHANGED <<router, envelope, outdated, ingested, store, cache, bounds>>

\* Mutant: nothing follows the extraction.
MigrateToNowhere(fields) ==
  job' = [job EXCEPT ![UI] =
    CASE ~mem.path -> [Idle EXCEPT !.pc = "finish"]
      [] mem.path /\ fields -> [pc |-> "extract", next |-> None, data |-> None]
      [] OTHER -> [Idle EXCEPT !.pc = "strip"]]

\* After the names are known, a message with an AttachmentPath is migrated: what
\* was read is extracted, the file stripped.
Migrate(fields) ==
  job' = [job EXCEPT ![UI] =
    CASE ~mem.path -> [Idle EXCEPT !.pc = "finish"]
      [] mem.path /\ fields -> [pc |-> "extract", next |-> "strip", data |-> None]
      [] OTHER -> [Idle EXCEPT !.pc = "strip"]]

\* The envelope is unpacked.  The names come from its fields, or else from the
\* manifest; what the index supplied is not recomputed.
LoadRead ==
  /\ job[UI].pc = "read"
  /\ \/ /\ ~Readable
        /\ mem' = [mem EXCEPT !.loaded = TRUE]
        /\ Goto(UI, "finish")
     \/ /\ Readable
        /\ mem' = [mem EXCEPT !.loaded = TRUE, !.known = TRUE,
                              !.has = IF mem.set THEN @ ELSE envelope.fields]
        /\ IF mem.set \/ envelope.fields THEN Migrate(envelope.fields)
                                         ELSE Goto(UI, "names")
  /\ UNCHANGED <<router, file, store, index, bounds>>

LoadManifest ==
  /\ job[UI].pc = "names"
  /\ mem' = [mem EXCEPT !.has = mem.path /\ dir /\ manifest = "whole"]
  /\ Migrate(FALSE)
  /\ UNCHANGED <<router, file, store, index, bounds>>

\* StripAttachmentsFromFile reads the file again ...
StripRead ==
  /\ job[UI].pc = "strip"
  /\ job' = [job EXCEPT ![UI] =
       IF envelope.fields
       THEN [pc |-> "strip_dir", next |-> None, data |-> envelope]
       ELSE [Idle EXCEPT !.pc = "finish"]]
  /\ UNCHANGED <<router, file, store, cache, bounds>>

\* ... and goes on only if the directory exists ...
StripCheck ==
  /\ job[UI].pc = "strip_dir"
  /\ Goto(UI, IF dir THEN "strip_open" ELSE "finish")
  /\ UNCHANGED <<router, file, store, cache, bounds>>

\* ... to write what it read without the attachments.
StripWrite ==
  /\ \/ /\ job[UI].pc = "strip_open"
        /\ Write(Torn)
        /\ Goto(UI, "strip_fill")
     \/ /\ job[UI].pc = "strip_fill"
        /\ Write([job[UI].data EXCEPT !.fields = FALSE])
        /\ Goto(UI, "finish")
  /\ UNCHANGED <<router, ingested, store, cache, bounds>>

StripFails ==
  /\ faults < MaxFaults /\ faults' = faults + 1
  /\ job[UI].pc \in {"strip_open", "strip_fill"}
  /\ Goto(UI, "finish")
  /\ UNCHANGED <<router, file, store, cache, restarts>>

\* The row is shown and the index written.
Finish ==
  /\ job[UI].pc = "finish"
  /\ Index(mem, rewritten)
  /\ job' = [job EXCEPT ![UI] = Idle]
  /\ UNCHANGED <<router, envelope, rewritten, ingested, store, mem, bounds>>

\* ClearHistory and PurgeFailed remove the file, Delete the whole conversation:
\* the index with it, and an Ingest that has not opened its file yet fails.  The
\* attachment directory stays.
DeleteMessage ==
  /\ job[UI] = Idle
  /\ envelope' = Absent /\ ingested' = FALSE
  /\ mem' = None
  /\ \E conversation \in BOOLEAN :
       /\ index' = IF conversation THEN None ELSE index
       /\ job' = [w \in Workers |->
            CASE job[w].pc = "fill" -> [job[w] EXCEPT !.pc = "lost"]
              [] job[w].pc = "write" /\ conversation -> Idle
              [] OTHER -> job[w]]
  /\ UNCHANGED <<router, rewritten, outdated, store, bounds>>

\* The process dies and is started again; the router's queue is gone.
Restart ==
  /\ restarts < MaxRestarts /\ restarts' = restarts + 1
  /\ told' = (lxm # "new")
  /\ mem' = None
  /\ job' = [w \in Workers |-> Idle]
  /\ UNCHANGED <<kind, lxm, file, store, index, faults>>

-----------------------------------------------------------------------------
IngestStep(w) == WriteEnvelope(w) \/ FillEnvelope(w) \/ Notify(w)

ExtractStep(w) ==
  ExtractCheck(w) \/ ExtractMkdir(w) \/ ExtractFiles(w) \/ ExtractManifest(w) \/ ExtractFails(w)

LoadStep == LoadStat \/ LoadRead \/ LoadManifest

StripStep == StripRead \/ StripCheck \/ StripWrite \/ StripFails

Next ==
  \/ Deliver \/ Send \/ RouterEnds \/ MessageNotification
  \/ \E w \in Workers : IngestStep(w) \/ ExtractStep(w)
  \/ BeginScan \/ Scan \/ LoadStep \/ StripStep \/ Finish
  \/ DeleteMessage \/ Restart

Spec == Init /\ [][Next]_vars

-----------------------------------------------------------------------------
(***************************************************************************)
(* What the attachments need.                                              *)
(***************************************************************************)

Quiet == \A w \in Workers : job[w] = Idle

\* "so the bytes are stored once instead of twice" (Load): unless the process was
\* killed or a write failed, a stored message that no worker is at has its
\* attachments in its envelope, or on disk with the manifest that lists them.
AttachmentsAreStored ==
  Quiet /\ ingested /\ restarts = 0 /\ faults = 0 =>
    /\ Readable
    /\ envelope.fields \/ (files = "whole" /\ manifest = "whole")

\* "The operation only proceeds when an extracted attachment directory exists"
\* (StripAttachmentsFromFile): an envelope without its attachments has them on
\* disk, whatever failed or was interrupted before.
StrippedIsExtracted ==
  Quiet /\ Readable /\ ~envelope.fields => files = "whole" /\ manifest = "whole"

\* The strip writes back what it read earlier: no Ingest of the message may have
\* stored a later state in between.
StripKeepsTheState ==
  [][job[UI].pc = "strip_open" /\ job'[UI].pc = "strip_fill"
       => envelope.state = job[UI].data.state]_vars
=============================================================================
