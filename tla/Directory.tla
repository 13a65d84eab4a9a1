----------------------------- MODULE Directory -----------------------------
(***************************************************************************)
(* What the client knows of others: directory/directory.go and persist.go, *)
(* app/ignored.go, app/propagation.go, the announce handlers of app.go and *)
(* the network page of textui.go that edits it all.                        *)
(*                                                                         *)
(* Announces arrive on goroutines of the transport; the user edits the     *)
(* directory from the event loop; initRNS seeds the router.  Remember      *)
(* replaces an entry and then writes the whole file, which it truncates    *)
(* first; a program that ends in between leaves a file that cannot be      *)
(* read, and the next run starts with an empty directory.  The ignored     *)
(* list, the ignored file and the router's copy are changed in turn, with  *)
(* no lock.  The choice of a propagation node reads the user's selection,  *)
(* then the directory, and then tells the router.                          *)
(***************************************************************************)
EXTENDS Naturals, FiniteSets, Sequences, SequencesExt

CONSTANTS
  Nodes,         \* nomadnetwork.node destinations
  PNs,           \* lxmf.propagation destinations
  Operator,      \* Operator[n]: the lxmf.delivery destination of n's identity
  Handlers,      \* goroutines that deliver announces
  Compact,       \* CompactStream
  StreamMax,     \* AnnounceStreamMaxLen
  NoHash,        \* nil
  MaxEdits,      \* bound: what the user does, in all runs
  MaxAnnounces,  \* bound: announces, in all runs
  MaxRuns        \* bound: runs of the program

ASSUME CompactAssumption == Compact \in BOOLEAN
ASSUME StreamMaxAssumption == StreamMax \in Nat \ {0}
ASSUME HandlersAssumption == "ui" \notin Handlers /\ "init" \notin Handlers
ASSUME NoHashAssumption == NoHash \notin Nodes \cup PNs

Peers  == {Operator[n] : n \in Nodes}
Hashes == Nodes \cup Peers
Trusts == {"unknown", "untrusted", "trusted"}
Entry  == [trust : Trusts, hosts : BOOLEAN]
Kinds  == {"node", "pn"}        \* "peer" announces are handled like "pn" ones,
                                \* less the selection
Goroutines == {"ui", "init"} \cup Handlers

\* A directory: a function from some of the hashes to their entries.
Directories == UNION {[S -> Entry] : S \in SUBSET Hashes}
NoEntries   == [h \in {} |-> [trust |-> "unknown", hosts |-> FALSE]]

VARIABLES
  up,            \* the program runs
  entries,       \* Directory.entries
  stream,        \* stream[k]: the announces of kind k, the newest first
  file,          \* the directory file; whole: it can be read
  writer,        \* who is in SaveToDisk, and so holds Directory.mu
  rows, cursor,  \* the announce list on the screen
  ignored,       \* App.IgnoredList
  ignoredFile,   \* the ignored file
  router,        \* App.Router is set
  routerIgnored, \* the destinations the router ignores
  scan,          \* what applyIgnoredDestinations has yet to hand over
  disturbed,     \* history: an Unblock shifted the list during that scan
  selected,      \* PeerSettings.PropagationNode, in memory and on disk
  outbound,      \* the router's outbound propagation node
  pc, arg,       \* pc[g], arg[g]: where goroutine g is, and with what
  edits, announces, runs

dirVars   == <<entries, stream, file, writer>>
rowVars   == <<rows, cursor>>
blockVars == <<ignored, ignoredFile, router, routerIgnored, scan, disturbed>>
pnVars    == <<selected, outbound>>
goVars    == <<pc, arg>>
bounds    == <<edits, announces, runs>>
vars == <<up, dirVars, rowVars, blockVars, pnVars, goVars, bounds>>

Announces == [kind : Kinds, src : Nodes \cup PNs, at : Nat]
Places == {"none", "idle", "check", "find", "remember", "save", "writing", "select", "list", "push",
           "persist", "ignore", "unignore", "router", "apply", "applying", "ended"}

\* What a goroutine carries: a hash, an entry, and what follows its save.
Args == [hash : Hashes \cup PNs \cup {NoHash}, entry : Entry, then : {"idle", "select", "ended"}]
Nothing == [hash |-> NoHash, entry |-> [trust |-> "unknown", hosts |-> FALSE], then |-> "idle"]

IsStream(s) == s \in Seq(Announces) /\ Len(s) <= StreamMax

TypeOK ==
  /\ up \in BOOLEAN /\ router \in BOOLEAN /\ disturbed \in BOOLEAN /\ file.whole \in BOOLEAN
  /\ entries \in Directories /\ file.entries \in Directories
  /\ writer \in Goroutines \cup {NoHash}
  /\ ignored \subseteq Hashes /\ ignoredFile \subseteq Hashes
  /\ routerIgnored \subseteq Hashes /\ scan \subseteq Hashes
  /\ selected \in PNs \cup {NoHash} /\ outbound \in Nodes \cup PNs \cup {NoHash}
  /\ pc \in [Goroutines -> Places] /\ arg \in [Goroutines -> Args]
  /\ DOMAIN stream = Kinds /\ \A k \in Kinds : IsStream(stream[k])
  /\ DOMAIN file.stream = Kinds /\ \A k \in Kinds : IsStream(file.stream[k])
  /\ IsStream(rows) /\ cursor \in Nat
  /\ edits \in Nat /\ announces \in Nat /\ runs \in Nat

\* The ignored file is the one earlier runs have left.
Init ==
  /\ up = FALSE
  /\ entries = NoEntries /\ stream = [k \in Kinds |-> <<>>]
  /\ file = [entries |-> NoEntries, stream |-> [k \in Kinds |-> <<>>], whole |-> TRUE]
  /\ writer = NoHash
  /\ rows = <<>> /\ cursor = 1
  /\ ignored = {} /\ ignoredFile \in SUBSET Hashes /\ router = FALSE /\ routerIgnored = {}
  /\ scan = {} /\ disturbed = FALSE
  /\ selected = NoHash /\ outbound = NoHash
  /\ pc = [g \in Goroutines |-> "none"] /\ arg = [g \in Goroutines |-> Nothing]
  /\ edits = 0 /\ announces = 0 /\ runs = 0

Go(g, place) == pc' = [pc EXCEPT ![g] = place]
Idle(g) == IF g = "init" THEN "ended" ELSE "idle"

\* Directory.mu is free.
MuFree == writer = NoHash

Has(h)   == h \in DOMAIN entries
Put(d, h, e) == [x \in DOMAIN d \cup {h} |-> IF x = h THEN e ELSE d[x]]
Drop(d, h)   == [x \in DOMAIN d \ {h} |-> d[x]]

-----------------------------------------------------------------------------
(***************************************************************************)
(* Remember and SaveToDisk.                                                *)
(***************************************************************************)

\* The trust of a peer is also the trust of its node, when that has an entry.
WithNode(d, h, e) ==
  [x \in DOMAIN d |-> IF x \in Nodes /\ h \in Peers /\ Operator[x] = h
                        THEN [d[x] EXCEPT !.trust = e.trust] ELSE d[x]]

\* The identity of a hash may not be known to the transport yet.
Remember(g) ==
  /\ pc[g] = "remember" /\ MuFree
  /\ LET put == Put(entries, arg[g].hash, arg[g].entry)
     IN  entries' \in {put, WithNode(put, arg[g].hash, arg[g].entry)}
  /\ Go(g, "save")
  /\ UNCHANGED <<up, stream, file, writer, rowVars, blockVars, pnVars, arg, bounds>>

\* os.WriteFile opens the file and truncates it.
SaveBegins(g) ==
  /\ pc[g] = "save" /\ MuFree
  /\ writer' = g
  /\ file' = [entries |-> NoEntries, stream |-> [k \in Kinds |-> <<>>], whole |-> FALSE]
  /\ Go(g, "writing")
  /\ UNCHANGED <<up, entries, stream, rowVars, blockVars, pnVars, arg, bounds>>

\* Mutant: nothing but the entry that was remembered is written.
SaveOneEnds(g) ==
  /\ pc[g] = "writing"
  /\ file' = [entries |-> [h \in DOMAIN entries \cap {arg[g].hash} |-> entries[h]],
              stream |-> stream, whole |-> TRUE]
  /\ writer' = NoHash
  /\ Go(g, arg[g].then)
  /\ UNCHANGED <<up, entries, stream, rowVars, blockVars, pnVars, arg, bounds>>

SaveEnds(g) ==
  /\ pc[g] = "writing"
  /\ file' = [entries |-> entries, stream |-> stream, whole |-> TRUE]
  /\ writer' = NoHash
  /\ Go(g, arg[g].then)
  /\ UNCHANGED <<up, entries, stream, rowVars, blockVars, pnVars, arg, bounds>>

-----------------------------------------------------------------------------
(***************************************************************************)
(* AutoSelectPropagationNode.                                              *)
(***************************************************************************)

Select(g) ==
  /\ pc[g] = "select"
  /\ IF selected # NoHash
       THEN arg' = [arg EXCEPT ![g].hash = selected] /\ Go(g, "push")
       ELSE UNCHANGED arg /\ Go(g, "list")
  /\ UNCHANGED <<up, dirVars, rowVars, blockVars, pnVars, bounds>>

\* Which of the trusted nodes is the closest, and whether any can be reached,
\* the path table knows.
List(g) ==
  /\ pc[g] = "list" /\ MuFree
  /\ \/ /\ \E n \in Nodes : /\ Has(n) /\ entries[n].hosts /\ entries[n].trust = "trusted"
                            /\ arg' = [arg EXCEPT ![g].hash = n]
        /\ Go(g, "push")
     \/ UNCHANGED arg /\ Go(g, Idle(g))
  /\ UNCHANGED <<up, dirVars, rowVars, blockVars, pnVars, bounds>>

Push(g) ==
  /\ pc[g] = "push"
  /\ outbound' = IF router THEN arg[g].hash ELSE outbound
  /\ Go(g, Idle(g))
  /\ UNCHANGED <<up, dirVars, rowVars, blockVars, selected, arg, bounds>>

-----------------------------------------------------------------------------
(***************************************************************************)
(* Announces.                                                              *)
(***************************************************************************)

\* What is left of s when only the places in I are kept: at place k what was
\* at the k-th of I.  It is SelectSeq, said so that it can be reasoned about.
Rank(I, i) == Cardinality({j \in I : j <= i})
Keep(s, I) == [k \in 1..Cardinality(I) |-> s[CHOOSE i \in I : Rank(I, i) = k]]

Others(k, src) == Keep(stream[k], {i \in DOMAIN stream[k] : stream[k][i].src # src})

\* NodeAnnounceReceived and PNAnnounceReceived: the newest goes to the front.
Recorded(k, a) ==
  LET new == <<a>> \o (IF Compact THEN Others(k, a.src) ELSE stream[k])
  IN  IF Len(new) > StreamMax THEN SubSeq(new, 1, StreamMax) ELSE new

\* The first step of handleNodeAnnounce and of handlePNAnnounce.
Announce(g, k, src) ==
  /\ g \in Handlers /\ pc[g] = "idle" /\ pc["init"] \notin {"router", "apply", "applying"}
  /\ MuFree
  /\ src \in IF k = "node" THEN Nodes ELSE PNs
  /\ announces < MaxAnnounces /\ announces' = announces + 1
  /\ stream' = IF src \in ignored THEN stream
               ELSE [stream EXCEPT ![k] = Recorded(k, [kind |-> k, src |-> src, at |-> announces])]
  /\ arg' = [arg EXCEPT ![g] = [Nothing EXCEPT !.hash = src]]
  /\ Go(g, IF k = "node" THEN "check" ELSE "select")
  /\ UNCHANGED <<up, entries, file, writer, rowVars, blockVars, pnVars, edits, runs>>

\* IsIgnored, and the trust in the node's operator.
Check(g) ==
  /\ pc[g] = "check" /\ MuFree
  /\ LET peer == Operator[arg[g].hash]
     IN  Go(g, IF arg[g].hash \notin ignored /\ Has(peer) /\ entries[peer].trust = "trusted"
                 THEN "find" ELSE "idle")
  /\ UNCHANGED <<up, dirVars, rowVars, blockVars, pnVars, arg, bounds>>

Find(g) ==
  /\ pc[g] = "find" /\ MuFree
  /\ arg' = [arg EXCEPT ![g].entry = [trust |-> "trusted", hosts |-> TRUE]]
  /\ Go(g, IF Has(arg[g].hash) THEN "idle" ELSE "remember")
  /\ UNCHANGED <<up, dirVars, rowVars, blockVars, pnVars, bounds>>

-----------------------------------------------------------------------------
(***************************************************************************)
(* The user.                                                               *)
(***************************************************************************)

Edit == pc["ui"] = "idle" /\ edits < MaxEdits /\ edits' = edits + 1

\* SaveNode, SaveConnectedNode and OnKnownNodeSave remember an entry of their
\* own; after a trusted one the propagation node is selected.
SaveEntry(h, e) ==
  /\ Edit
  /\ e \in {[trust |-> "unknown", hosts |-> FALSE]} \cup {[trust |-> t, hosts |-> TRUE] : t \in Trusts}
  /\ arg' = [arg EXCEPT !["ui"] = [hash |-> h, entry |-> e,
                                      then |-> IF e.trust = "trusted" THEN "select" ELSE "idle"]]
  /\ Go("ui", "remember")
  /\ UNCHANGED <<up, dirVars, rowVars, blockVars, pnVars, announces, runs>>

\* SetPeerTrustLevel and RememberPeerInfo write into the entry that Find
\* returns, which everyone sees at once, and then remember it.
SetTrust(h, t) ==
  /\ Edit /\ MuFree
  /\ LET e == IF Has(h) THEN [entries[h] EXCEPT !.trust = t] ELSE [trust |-> t, hosts |-> FALSE]
     IN  /\ entries' = IF Has(h) THEN Put(entries, h, e) ELSE entries
         /\ arg' = [arg EXCEPT !["ui"] = [hash |-> h, entry |-> e, then |-> "idle"]]
  /\ Go("ui", "remember")
  /\ UNCHANGED <<up, stream, file, writer, rowVars, blockVars, pnVars, announces, runs>>

\* ForgetNode: the file keeps the entry until it is next written.
Forget(h) ==
  /\ Edit /\ MuFree /\ Has(h)
  /\ entries' = Drop(entries, h)
  /\ UNCHANGED <<up, stream, file, writer, rowVars, blockVars, pnVars, goVars, announces, runs>>

\* SetUserSelectedPropagationNode.
SelectPN(p) ==
  /\ Edit
  /\ selected' = p
  /\ Go("ui", "select")
  /\ UNCHANGED <<up, dirVars, rowVars, blockVars, outbound, arg, announces, runs>>

Visible(s) == Keep(s, {i \in DOMAIN s : s[i].src \notin ignored})
Clamp(s, i) == IF Len(s) > 0 /\ i > Len(s) THEN Len(s) ELSE i

\* refreshAnnounces: the cursor stays at its row.
Refresh ==
  /\ pc["ui"] = "idle" /\ MuFree
  /\ rows' = Visible(stream["node"])
  /\ cursor' = Clamp(rows', cursor)
  /\ UNCHANGED <<up, dirVars, blockVars, pnVars, goVars, bounds>>

Move(i) ==
  /\ pc["ui"] = "idle" /\ i \in DOMAIN rows
  /\ cursor' = i
  /\ UNCHANGED <<up, dirVars, rows, blockVars, pnVars, goVars, bounds>>

WithoutTime(s, at) ==
  IF \E i \in DOMAIN s : s[i].at = at
    THEN RemoveAt(s, CHOOSE i \in DOMAIN s : s[i].at = at /\ \A j \in 1..i-1 : s[j].at # at)
    ELSE s

\* Mutant: the row at the cursor is taken from the stream as it is now.
DeleteRowNow ==
  /\ Edit /\ MuFree /\ cursor \in DOMAIN rows
  /\ stream' = [stream EXCEPT !["node"] = IF cursor \in DOMAIN @ THEN RemoveAt(@, cursor) ELSE @]
  /\ rows' = Visible(stream'["node"]) /\ cursor' = Clamp(rows', cursor)
  /\ UNCHANGED <<up, entries, file, writer, blockVars, pnVars, goVars, announces, runs>>

\* RemoveAnnounce names the announce by its time.
DeleteRow ==
  /\ Edit /\ MuFree /\ cursor \in DOMAIN rows
  /\ stream' = [k \in Kinds |-> WithoutTime(stream[k], rows[cursor].at)]
  /\ rows' = Visible(stream'["node"]) /\ cursor' = Clamp(rows', cursor)
  /\ UNCHANGED <<up, entries, file, writer, blockVars, pnVars, goVars, announces, runs>>

-----------------------------------------------------------------------------
(***************************************************************************)
(* The ignored list.                                                       *)
(***************************************************************************)

\* BlockDestination: the list, the file (truncated, then written), the router.
Block(h) ==
  /\ Edit
  /\ IF h \in ignored
       THEN UNCHANGED <<ignored, ignoredFile>> /\ Go("ui", "ignore")
       ELSE ignored' = ignored \cup {h} /\ ignoredFile' = {} /\ Go("ui", "persist")
  /\ arg' = [arg EXCEPT !["ui"] = [Nothing EXCEPT !.hash = h]]
  /\ UNCHANGED <<up, dirVars, rowVars, router, routerIgnored, scan, disturbed, pnVars, announces, runs>>

\* UnblockDestination shifts the list in place: a scan of it that is under way
\* may miss what moves.
Unblock(h) ==
  /\ Edit /\ h \in ignored
  /\ ignored' = ignored \ {h} /\ ignoredFile' = {}
  /\ scan' \in SUBSET scan
  /\ disturbed' = (disturbed \/ pc["init"] = "applying")
  /\ arg' = [arg EXCEPT !["ui"] = [Nothing EXCEPT !.hash = h]]
  /\ Go("ui", "persist")
  /\ UNCHANGED <<up, dirVars, rowVars, router, routerIgnored, pnVars, announces, runs>>

Persist ==
  /\ pc["ui"] = "persist"
  /\ ignoredFile' = ignored
  /\ Go("ui", IF arg["ui"].hash \in ignored THEN "ignore" ELSE "unignore")
  /\ UNCHANGED <<up, dirVars, rowVars, ignored, router, routerIgnored, scan, disturbed, pnVars, arg, bounds>>

TellRouter ==
  /\ \/ /\ pc["ui"] = "ignore"
        /\ routerIgnored' = IF router THEN routerIgnored \cup {arg["ui"].hash} ELSE routerIgnored
     \/ /\ pc["ui"] = "unignore"
        /\ routerIgnored' = IF router THEN routerIgnored \ {arg["ui"].hash} ELSE routerIgnored
  /\ Go("ui", "idle")
  /\ UNCHANGED <<up, dirVars, rowVars, ignored, ignoredFile, router, scan, disturbed, pnVars, arg, bounds>>

-----------------------------------------------------------------------------
(***************************************************************************)
(* The program: Init, initRNS, Shutdown and the end of the process.        *)
(***************************************************************************)

\* Mutant: malformed lines of the ignored file are kept, as nil.
StartKeepsBadLines ==
  /\ ~up /\ runs < MaxRuns
  /\ up' = TRUE /\ runs' = runs + 1
  /\ entries' = file.entries /\ stream' = file.stream
  /\ ignored' = ignoredFile \cup {NoHash}
  /\ pc' = [g \in Goroutines |-> IF g = "init" THEN "router" ELSE "idle"]
  /\ UNCHANGED <<file, writer, rowVars, ignoredFile, router, routerIgnored, scan, disturbed,
                 pnVars, arg, edits, announces>>

\* LoadFromDisk, loadIgnoredList, loadPeerSettings.
Start ==
  /\ ~up /\ runs < MaxRuns
  /\ up' = TRUE /\ runs' = runs + 1
  /\ entries' = file.entries /\ stream' = file.stream
  /\ ignored' = ignoredFile
  /\ pc' = [g \in Goroutines |-> IF g = "init" THEN "router" ELSE "idle"]
  /\ UNCHANGED <<file, writer, rowVars, ignoredFile, router, routerIgnored, scan, disturbed,
                 pnVars, arg, edits, announces>>

SetRouter ==
  /\ pc["init"] = "router"
  /\ router' = TRUE
  /\ Go("init", "apply")
  /\ UNCHANGED <<up, dirVars, rowVars, ignored, ignoredFile, routerIgnored, scan, disturbed, pnVars, arg, bounds>>

\* Mutant: the file is read again.
ApplyFromFile ==
  /\ pc["init"] = "apply"
  /\ scan' = ignoredFile
  /\ Go("init", "applying")
  /\ UNCHANGED <<up, dirVars, rowVars, ignored, ignoredFile, router, routerIgnored, disturbed, pnVars, arg, bounds>>

\* applyIgnoredDestinations.
ApplyBegins ==
  /\ pc["init"] = "apply"
  /\ scan' = ignored
  /\ Go("init", "applying")
  /\ UNCHANGED <<up, dirVars, rowVars, ignored, ignoredFile, router, routerIgnored, disturbed, pnVars, arg, bounds>>

\* The handlers are registered when it ends, and a node is selected.
Apply ==
  /\ pc["init"] = "applying"
  /\ \/ \E n \in scan : /\ routerIgnored' = routerIgnored \cup {n} /\ scan' = scan \ {n}
                        /\ UNCHANGED pc
     \/ scan = {} /\ Go("init", "select") /\ UNCHANGED <<routerIgnored, scan>>
  /\ UNCHANGED <<up, dirVars, rowVars, ignored, ignoredFile, router, disturbed, pnVars, arg, bounds>>

\* Shutdown saves the directory.
Shutdown ==
  /\ pc["ui"] = "idle" /\ pc["init"] = "ended"
  /\ arg' = [arg EXCEPT !["ui"] = [Nothing EXCEPT !.then = "ended"]]
  /\ Go("ui", "save")
  /\ UNCHANGED <<up, dirVars, rowVars, blockVars, pnVars, bounds>>

\* After Shutdown, or at any time.
ProcessEnds ==
  /\ up
  /\ up' = FALSE
  /\ entries' = NoEntries /\ stream' = [k \in Kinds |-> <<>>] /\ writer' = NoHash
  /\ rows' = <<>> /\ cursor' = 1
  /\ ignored' = {} /\ router' = FALSE /\ routerIgnored' = {} /\ scan' = {} /\ disturbed' = FALSE
  /\ outbound' = NoHash
  /\ pc' = [g \in Goroutines |-> "none"] /\ arg' = [g \in Goroutines |-> Nothing]
  /\ UNCHANGED <<file, ignoredFile, selected, bounds>>

-----------------------------------------------------------------------------
GoroutineStep(g) ==
  \/ Remember(g) \/ SaveBegins(g) \/ SaveEnds(g)
  \/ Select(g) \/ List(g) \/ Push(g)
  \/ Check(g) \/ Find(g)

UserStep ==
  \/ \E h \in Hashes : Forget(h) \/ (\E e \in Entry : SaveEntry(h, e)) \/ (\E t \in Trusts : SetTrust(h, t))
  \/ \E p \in PNs \cup {NoHash} : SelectPN(p)
  \/ \E h \in Hashes : Block(h) \/ Unblock(h)
  \/ \E i \in 1..StreamMax : Move(i)
  \/ Refresh \/ DeleteRow \/ Persist \/ TellRouter \/ Shutdown

Next ==
  \/ Start \/ ProcessEnds \/ SetRouter \/ ApplyBegins \/ Apply
  \/ UserStep
  \/ \E g \in Goroutines : GoroutineStep(g)
  \/ \E g \in Handlers, k \in Kinds, src \in Nodes \cup PNs : Announce(g, k, src)

Spec == Init /\ [][Next]_vars

-----------------------------------------------------------------------------
(***************************************************************************)
(* "the directory is saved to disk after the update" (Remember): when no   *)
(* goroutine is between a change and its save, the file holds every entry  *)
(* there is, with its trust, whoever else was saving.                      *)
(***************************************************************************)
Quiet == \A g \in Goroutines : pc[g] \notin {"remember", "save", "writing"}

SavedWhenQuiet ==
  Quiet => \A h \in DOMAIN entries :
             file.whole /\ h \in DOMAIN file.entries /\ file.entries[h] = entries[h]

(***************************************************************************)
(* Blocking and unblocking while initRNS brings the router up: when both   *)
(* have ended, the router ignores what the list says, unless an unblock    *)
(* shifted the list while it was read.                                     *)
(***************************************************************************)
RouterIgnoresTheList ==
  (pc["ui"] \notin {"persist", "ignore", "unignore"} /\ pc["init"] \in {"select", "list", "push", "ended"}
     /\ ~disturbed)
    => routerIgnored = ignored

(***************************************************************************)
(* An announce leaves the stream when its row is deleted, when its source  *)
(* announces again or when the stream is full, whatever has arrived since  *)
(* the rows were drawn.                                                    *)
(***************************************************************************)
In(a, s) == \E i \in DOMAIN s : s[i] = a

OnlyTheRowGoes ==
  [][up' => \A k \in Kinds : \A i \in DOMAIN stream[k] :
       \/ In(stream[k][i], stream'[k])
       \/ announces' > announces /\ (i = StreamMax \/ stream[k][i].src = stream'[k][1].src)
       \/ cursor \in DOMAIN rows /\ rows[cursor] = stream[k][i]]_vars

=============================================================================
