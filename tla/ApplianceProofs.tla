--------------------------- MODULE ApplianceProofs ---------------------------
(***************************************************************************)
(* One run of the appliance at a time, all of it or nothing, and nobody    *)
(* left of its feed, for any number of threads, consoles, readers and runs.*)
(*                                                                         *)
(* Two locks order the starts and the stops, and neither covers both: a    *)
(* start holds Host.mu and not applianceMu, a stop holds applianceMu and   *)
(* not Host.mu while it waits.  What keeps them apart is Host.closed, set  *)
(* under both.  So the invariant says who holds which lock (Locks), that   *)
(* the run in force is the last one and the only one with an engine        *)
(* (Order), what a thread in the middle of a start or a stop has left      *)
(* behind (Phases), and what a run that nobody works on looks like (Idle). *)
(* FeedInv counts the goroutines of the feed; Consoles says whose handles  *)
(* a host has.                                                             *)
(***************************************************************************)
EXTENDS Appliance, FiniteSetTheorems, TLAPS

-----------------------------------------------------------------------------
(***************************************************************************)
(* The feed: its wait group counts the accept loop and those that serve,   *)
(* and what was accepted is in the hand of the loop until it is served.    *)
(***************************************************************************)

\* The goroutines that serve readers of feed h.
Served(h) == {r \in Readers : feedOf[r] = h /\ server[r] \in {"serve", "write", "drop"}}

Accepts(h) == IF accept[h] \in {"accept", "add", "serve"} THEN 1 ELSE 0

\* The wait group counts the accept loop and the goroutines that serve.
Counted == \A h \in Hosts : wg[h] = Accepts(h) + Cardinality(Served(h))

InHand ==
  \A h \in Hosts :
    IF accept[h] \in {"add", "serve"}
      THEN \E r \in Readers : hand[h] = {r} /\ feedOf[r] = h /\ server[r] = "none"
      ELSE hand[h] = {}

FeedPhase ==
  \A h \in Hosts :
    /\ feed[h] = "none" <=> accept[h] = "none"
    /\ feed[h] = "gone" => accept[h] = "ended" /\ Served(h) = {}

ReadersKnown ==
  \A r \in Readers :
    /\ conn[r] = "none" <=> feedOf[r] = NoHost
    /\ feedOf[r] = NoHost => server[r] = "none"
    /\ server[r] = "ended" => conn[r] = "closed"
    /\ server[r] = "none" /\ feedOf[r] # NoHost => conn[r] = "closed" \/ r \in hand[feedOf[r]]

SubsKnown == \A h \in Hosts : \A r \in subs[h] : feedOf[r] = h

FeedInv == FeedTypeOK /\ Counted /\ InHand /\ FeedPhase /\ ReadersKnown /\ SubsKnown

LEMMA ServedIsFinite ==
  \A h : IsFiniteSet(Served(h)) /\ Cardinality(Served(h)) \in Nat
BY ReadersAssumption, FS_Subset, FS_CardinalityType DEF Served

\* A step that serves nobody else and counts as it did keeps the count.
LEMMA SameCount ==
  ASSUME Counted, NEW h \in Hosts, Served(h)' = Served(h), wg[h]' = wg[h], Accepts(h)' = Accepts(h)
  PROVE  wg'[h] = Accepts(h)' + Cardinality(Served(h)')
BY DEF Counted

LEMMA DialsKeeps ==
  ASSUME FeedInv, NEW r \in Readers, NEW h \in Hosts, Dials(r, h)
  PROVE  FeedInv'
<1> USE DEF FeedInv, Dials
<1>1. FeedTypeOK'
  BY DEF FeedTypeOK
<1>2. \A g \in Hosts : Served(g)' = Served(g) /\ Accepts(g)' = Accepts(g)
  BY HostsAssumption DEF Served, Accepts, FeedTypeOK, ReadersKnown, NoHost
<1>3. Counted'
  BY <1>2 DEF Counted
<1>4. InHand'
  <2> SUFFICES ASSUME NEW g \in Hosts PROVE InHand!(g)'
    BY DEF InHand
  <2> QED BY HostsAssumption DEF InHand, FeedTypeOK, ReadersKnown, NoHost
<1>5. FeedPhase'
  BY <1>2 DEF FeedPhase, FeedTypeOK
<1>6. ReadersKnown'
  BY HostsAssumption DEF ReadersKnown, FeedTypeOK, InHand, NoHost
<1>7. SubsKnown'
  BY HostsAssumption DEF SubsKnown, ReadersKnown, FeedTypeOK, NoHost
<1> QED BY <1>1, <1>3, <1>4, <1>5, <1>6, <1>7

LEMMA AddKeeps ==
  ASSUME FeedInv, NEW h \in Hosts, Add(h)
  PROVE  FeedInv'
<1> USE DEF FeedInv, Add
<1>0. wg[h] >= 1 /\ wg[h] \in Nat
  BY ServedIsFinite DEF Counted, Accepts, FeedTypeOK
<1>1. FeedTypeOK'
  BY <1>0 DEF FeedTypeOK
<1>2. \A g \in Hosts : Served(g)' = Served(g)
  BY DEF Served
<1>3. Counted'
  BY <1>2, ServedIsFinite DEF Counted, Accepts, FeedTypeOK
<1>4. InHand'
  BY DEF InHand, FeedTypeOK
<1>5. FeedPhase'
  BY <1>2 DEF FeedPhase, FeedTypeOK
<1>6. PICK q \in Readers : hand[h] = {q} /\ feedOf[q] = h /\ server[q] = "none"
  BY DEF InHand
<1>7. ReadersKnown'
  <2>1. CASE feed[h] = "open"
    BY <2>1 DEF ReadersKnown, FeedTypeOK
  <2>2. CASE feed[h] # "open"
    <3>1. /\ feedOf' = feedOf /\ server' = server
          /\ hand' = [hand EXCEPT ![h] = {}]
          /\ conn' = [r \in Readers |-> IF r = q THEN "closed" ELSE conn[r]]
      BY <2>2, <1>6
    <3>2. feedOf[q] # NoHost
      BY <1>6, HostsAssumption
    <3> QED BY <3>1, <3>2, <1>6 DEF ReadersKnown, FeedTypeOK
  <2> QED BY <2>1, <2>2
<1>8. SubsKnown'
  BY <1>6 DEF SubsKnown, FeedTypeOK
<1> QED BY <1>1, <1>3, <1>4, <1>5, <1>7, <1>8

LEMMA ServeKeeps ==
  ASSUME FeedInv, NEW h \in Hosts, Serve(h)
  PROVE  FeedInv'
<1> USE DEF FeedInv, Serve
<1>1. FeedTypeOK'
  BY DEF FeedTypeOK
<1>2. PICK r \in Readers : hand[h] = {r} /\ feedOf[r] = h /\ server[r] = "none"
  BY DEF InHand
<1>3. Served(h)' = Served(h) \cup {r} /\ r \notin Served(h)
  BY <1>2 DEF Served, FeedTypeOK
<1>4. Cardinality(Served(h)') = Cardinality(Served(h)) + 1
  BY <1>3, ServedIsFinite, FS_AddElement
<1>5. \A g \in Hosts \ {h} : Served(g)' = Served(g)
  BY <1>2 DEF Served, FeedTypeOK
<1>6. Counted'
  <2> SUFFICES ASSUME NEW g \in Hosts PROVE (wg[g] = Accepts(g) + Cardinality(Served(g)))'
    BY DEF Counted
  <2>1. CASE g = h
    BY <2>1, <1>4, ServedIsFinite DEF Counted, Accepts, FeedTypeOK
  <2>2. CASE g # h
    BY <2>2, <1>5 DEF Counted, Accepts, FeedTypeOK
  <2> QED BY <2>1, <2>2
<1>7. InHand'
  <2> SUFFICES ASSUME NEW g \in Hosts PROVE InHand!(g)'
    BY DEF InHand
  <2> QED BY <1>2 DEF InHand, FeedTypeOK
<1>8. FeedPhase'
  BY <1>5 DEF FeedPhase, FeedTypeOK
<1>9. ReadersKnown' /\ SubsKnown'
  BY <1>2, HostsAssumption DEF ReadersKnown, SubsKnown, FeedTypeOK, NoHost
<1> QED BY <1>1, <1>6, <1>7, <1>8, <1>9

LEMMA AcceptFailsKeeps ==
  ASSUME FeedInv, NEW h \in Hosts, AcceptFails(h)
  PROVE  FeedInv'
<1> USE DEF FeedInv, AcceptFails
<1>0. wg[h] >= 1 /\ wg[h] \in Nat
  BY ServedIsFinite DEF Counted, Accepts, FeedTypeOK
<1>1. FeedTypeOK'
  BY <1>0 DEF FeedTypeOK
<1>2. \A g \in Hosts : Served(g)' = Served(g)
  BY DEF Served
<1>3. Counted'
  BY <1>2, ServedIsFinite DEF Counted, Accepts, FeedTypeOK
<1>4. InHand' /\ FeedPhase' /\ ReadersKnown'
  BY <1>2 DEF InHand, FeedPhase, ReadersKnown, FeedTypeOK
<1> QED BY <1>1, <1>3, <1>4 DEF SubsKnown

LEMMA ServerKeeps ==
  ASSUME FeedInv, NEW r \in Readers, Take(r) \/ Written(r) \/ Leave(r)
  PROVE  FeedInv'
<1> USE DEF FeedInv, Take, Written, Leave
<1>1. FeedTypeOK'
  BY FeedBufferAssumption DEF FeedTypeOK
<1>2. \A g \in Hosts : Served(g)' = Served(g) /\ Accepts(g)' = Accepts(g)
  BY DEF Served, Accepts, FeedTypeOK
<1>3. Counted'
  BY <1>2 DEF Counted
<1>4. InHand'
  BY DEF InHand, FeedTypeOK
<1>5. FeedPhase' /\ ReadersKnown'
  BY <1>2 DEF FeedPhase, ReadersKnown, FeedTypeOK
<1> QED BY <1>1, <1>3, <1>4, <1>5 DEF SubsKnown

LEMMA DropKeeps ==
  ASSUME FeedInv, NEW r \in Readers, Drop(r)
  PROVE  FeedInv'
<1> USE DEF FeedInv, Drop
<1> DEFINE h == feedOf[r]
<1>1. h \in Hosts
  BY DEF FeedTypeOK, ReadersKnown
<1>2. Served(h)' = Served(h) \ {r} /\ r \in Served(h)
  BY DEF Served, FeedTypeOK
<1>3. Cardinality(Served(h)') = Cardinality(Served(h)) - 1
  BY <1>2, ServedIsFinite, FS_RemoveElement
<1>4. Cardinality(Served(h)') \in Nat
  <2>1. IsFiniteSet(Served(h)')
    BY <1>2, ServedIsFinite, FS_Subset
  <2> QED BY <2>1, FS_CardinalityType
<1>5. \A g \in Hosts \ {h} : Served(g)' = Served(g)
  BY DEF Served, FeedTypeOK
<1>6. wg[h] - 1 \in Nat
  BY <1>1, <1>3, <1>4, ServedIsFinite DEF Counted, Accepts, FeedTypeOK
<1>7. FeedTypeOK'
  BY <1>1, <1>6 DEF FeedTypeOK
<1>8. Counted'
  <2> SUFFICES ASSUME NEW g \in Hosts PROVE (wg[g] = Accepts(g) + Cardinality(Served(g)))'
    BY DEF Counted
  <2>1. CASE g = h
    BY <2>1, <1>3, ServedIsFinite DEF Counted, Accepts, FeedTypeOK
  <2>2. CASE g # h
    BY <2>2, <1>5 DEF Counted, Accepts, FeedTypeOK
  <2> QED BY <2>1, <2>2
<1>9. InHand'
  BY DEF InHand, FeedTypeOK
<1>10. FeedPhase'
  BY <1>2, <1>5 DEF FeedPhase, FeedTypeOK
<1>11. ReadersKnown' /\ SubsKnown'
  BY DEF ReadersKnown, SubsKnown, FeedTypeOK
<1> QED BY <1>7, <1>8, <1>9, <1>10, <1>11

LEMMA ReaderGoesKeeps ==
  ASSUME FeedInv, NEW r \in Readers, ReaderGoes(r)
  PROVE  FeedInv'
<1> USE DEF FeedInv, ReaderGoes
<1>1. FeedTypeOK'
  BY DEF FeedTypeOK
<1>2. \A g \in Hosts : Served(g)' = Served(g) /\ Accepts(g)' = Accepts(g)
  BY DEF Served, Accepts
<1>3. Counted' /\ InHand'
  BY <1>2 DEF Counted, InHand
<1>4. FeedPhase' /\ ReadersKnown'
  BY <1>2 DEF FeedPhase, ReadersKnown, FeedTypeOK
<1> QED BY <1>1, <1>3, <1>4 DEF SubsKnown

LEMMA OpensKeeps ==
  ASSUME FeedInv, NEW h \in Hosts, feed[h] \in {"none", "gone"}, FeedOpens(h)
  PROVE  FeedInv'
<1> USE DEF FeedInv, FeedOpens
<1>1. FeedTypeOK'
  BY DEF FeedTypeOK
<1>2. \A g \in Hosts : Served(g)' = Served(g)
  BY DEF Served
<1>3. accept[h] \in {"none", "ended"}
  BY DEF FeedPhase
<1>4. Counted'
  BY <1>2, <1>3, ServedIsFinite DEF Counted, Accepts, FeedTypeOK
<1>5. InHand' /\ FeedPhase' /\ ReadersKnown'
  BY <1>2, <1>3 DEF InHand, FeedPhase, ReadersKnown, FeedTypeOK
<1> QED BY <1>1, <1>4, <1>5 DEF SubsKnown

LEMMA DeliverKeeps ==
  ASSUME FeedInv, NEW r \in Readers, Deliver(r)
  PROVE  FeedInv'
<1> USE DEF FeedInv, Deliver
<1>1. FeedTypeOK'
  BY FeedBufferAssumption DEF FeedTypeOK
<1>2. \A g \in Hosts : Served(g)' = Served(g) /\ Accepts(g)' = Accepts(g)
  BY DEF Served, Accepts
<1> QED BY <1>1, <1>2 DEF Counted, InHand, FeedPhase, ReadersKnown, SubsKnown

LEMMA ClosesKeeps ==
  ASSUME FeedInv, NEW h \in Hosts, feed[h] = "open", FeedCloses(h)
  PROVE  FeedInv'
<1> USE DEF FeedInv, FeedCloses
<1>1. FeedTypeOK'
  BY DEF FeedTypeOK
<1>2. \A g \in Hosts : Served(g)' = Served(g) /\ Accepts(g)' = Accepts(g)
  BY DEF Served, Accepts
<1>3. FeedPhase'
  BY <1>2 DEF FeedPhase, FeedTypeOK
<1> QED BY <1>1, <1>2, <1>3 DEF Counted, InHand, ReadersKnown, SubsKnown

LEMMA ReleasesKeeps ==
  ASSUME FeedInv, NEW h \in Hosts, NEW members \in SUBSET Readers, FeedReleases(h, members),
         \A r \in members : conn[r] # "none"
  PROVE  FeedInv'
<1> USE DEF FeedInv, FeedReleases
<1>1. FeedTypeOK'
  BY DEF FeedTypeOK
<1>2. \A g \in Hosts : Served(g)' = Served(g) /\ Accepts(g)' = Accepts(g)
  BY DEF Served, Accepts
<1>3. ReadersKnown'
  BY DEF ReadersKnown, FeedTypeOK
<1> QED BY <1>1, <1>2, <1>3 DEF Counted, InHand, FeedPhase, SubsKnown

LEMMA WaitsKeeps ==
  ASSUME FeedInv, NEW h \in Hosts, feed[h] = "closed", FeedWaits(h)
  PROVE  FeedInv'
<1> USE DEF FeedInv, FeedWaits
<1>1. FeedTypeOK'
  BY DEF FeedTypeOK
<1>2. \A g \in Hosts : Served(g)' = Served(g) /\ Accepts(g)' = Accepts(g)
  BY DEF Served, Accepts
<1>3. Accepts(h) = 0 /\ Cardinality(Served(h)) = 0
  BY ServedIsFinite DEF Counted, Accepts
<1>4. Served(h) = {}
  BY <1>3, ServedIsFinite, FS_EmptySet
<1>5. accept[h] = "ended"
  BY <1>3 DEF Accepts, FeedPhase, FeedTypeOK
<1>6. FeedPhase'
  BY <1>2, <1>4, <1>5 DEF FeedPhase, FeedTypeOK
<1> QED BY <1>1, <1>2, <1>6 DEF Counted, InHand, ReadersKnown, SubsKnown

-----------------------------------------------------------------------------
(***************************************************************************)
(* The invariant.                                                          *)
(***************************************************************************)

\* Places at which a thread holds applianceMu, and those at which it holds the
\* Host.mu of its host.
HoldsAmu == {"get", "close", "wait"} \cup Stopping
HoldsHmu == {"feed", "subs"} \cup Undoing

AmuHeld == \A c \in Threads : amu = c <=> pc[c] \in HoldsAmu

HmuHeld == \A c \in Threads, h \in Hosts : hmu[h] = c <=> on[c] = h /\ pc[c] \in HoldsHmu

Locks == AmuHeld /\ HmuHeld

Order ==
  /\ \A h \in Hosts : h < host => closed[h]
  /\ \A h \in Hosts : engine[h] => h = host /\ ~closed[h]
  /\ \A c \in Threads : on[c] <= host
  /\ \A c \in Threads : pc[c] \in HoldsAmu \ {"get"} => on[c] = host

\* What thread c has left behind on its host h, where it is now.
Phase(c, h) ==
  /\ pc[c] \in HoldsHmu => ~closed[h] /\ ~engine[h]
  /\ pc[c] \in {"wait"} \cup Stopping => closed[h]
  /\ (pc[c] \in {"subs", "stop subs", "undo subs"} \/ (pc[c] = "wait" /\ arg[c].engine))
       => feed[h] = "open"
  /\ pc[c] \in {"stop release", "undo release", "stop wait", "undo wait"}
       => feed[h] = "closed" /\ started[h] = 0
  /\ pc[c] \in {"stop wait", "undo wait"} => port # h
  /\ pc[c] \in {"stop release", "undo release"} => \A r \in arg[c].readers : conn[r] # "none"

Phases == \A c \in Threads : Phase(c, on[c])

\* Thread c is in the middle of starting or stopping host h.
Works(c, h) ==
  on[c] = h /\ (pc[c] \in {"subs"} \cup Stopping \cup Undoing \/ (pc[c] = "wait" /\ arg[c].engine))

AtRest(h) ==
  IF engine[h] THEN started[h] = 3 /\ feed[h] = "open"
               ELSE started[h] = 0 /\ feed[h] \in {"none", "gone"}

Idle == \A h \in Hosts : (\A c \in Threads : ~Works(c, h)) => AtRest(h)

\* What of Engine.started runs, but for a bot that does not come back and one
\* that came back of itself.
Core(n) == CASE n = 0 -> {} [] n = 1 -> {"transport"} [] OTHER -> {"transport", "hub"}

Runs(h) ==
  /\ up[h] \ {"bot"} = Core(started[h])
  /\ started[h] = 3 => "bot" \in up[h] \/ h \in returned

Subs == \A h \in Hosts : Runs(h)

PortOwned == \A h \in Hosts : port = h => feed[h] \in {"open", "closed"}

Binding == {"listen", "clear"}

\* A console that has not ended can be waited for, or is lost.
Owned == \A s \in Sessions : owner[s] = NoHost <=> session[s] = "none"
Registered == \A s \in Sessions : session[s] \notin {"none", "ended"} /\ s \notin lost => done[owner[s]] = s

\* A thread that binds a socket does so for a console of its own.
Binds(c) ==
  pc[c] \in Binding =>
    arg[c].session \in Sessions /\ session[arg[c].session] = "bind" /\ owner[arg[c].session] = on[c]
Apart == \A c, d \in Threads : c # d /\ pc[c] \in Binding /\ pc[d] \in Binding => arg[c].session # arg[d].session

\* A thread that closes the host knows the console it has to wait for.
Leaving(c) ==
  /\ pc[c] = "wait" => done[on[c]] \in {Nobody, arg[c].session}
  /\ pc[c] \in Stopping => done[on[c]] = Nobody

Consoles == Owned /\ Registered /\ Apart /\ \A c \in Threads : Binds(c) /\ Leaving(c)

Work == Locks /\ Order /\ Phases /\ Idle /\ Subs /\ PortOwned

Types == HostTypes /\ SubTypes /\ ConsoleTypes /\ ThreadTypes

IInv == FeedInv /\ Types /\ Work /\ Consoles

-----------------------------------------------------------------------------
(***************************************************************************)
(* Types.                                                                  *)
(***************************************************************************)

LEMMA LastSub ==
  /\ Len(Subsystems) = 3
  /\ Subsystems[1] = "transport" /\ Subsystems[2] = "hub" /\ Subsystems[3] = "bot"
BY DEF Subsystems

LEMMA Moves ==
  ASSUME ThreadTypes, NEW c \in Threads, NEW p \in Places, Go(c, p)
  PROVE  /\ pc' \in [Threads -> Places] /\ pc'[c] = p
         /\ \A d \in Threads \ {c} : pc'[d] = pc[d]
BY DEF ThreadTypes, Go

LEMMA ArgMoves ==
  ASSUME arg \in [Threads -> Args], NEW c \in Threads
  PROVE  /\ \A s \in Sessions \cup {Nobody} : [arg EXCEPT ![c].session = s] \in [Threads -> Args]
         /\ \A readers \in SUBSET Readers : [arg EXCEPT ![c].readers = readers] \in [Threads -> Args]
         /\ \A s \in Sessions \cup {Nobody}, e \in BOOLEAN :
              [arg EXCEPT ![c].session = s, ![c].engine = e] \in [Threads -> Args]
<1>1. \A a \in Args, s \in Sessions \cup {Nobody}, e \in BOOLEAN : [a EXCEPT !.session = s, !.engine = e] \in Args
  BY DEF Args
<1>2. \A s \in Sessions \cup {Nobody} : [arg EXCEPT ![c].session = s] \in [Threads -> Args]
  BY DEF Args
<1>3. \A readers \in SUBSET Readers : [arg EXCEPT ![c].readers = readers] \in [Threads -> Args]
  BY DEF Args
<1>4. \A s \in Sessions \cup {Nobody}, e \in BOOLEAN :
        [arg EXCEPT ![c].session = s, ![c].engine = e] \in [Threads -> Args]
  BY <1>1
<1> QED BY <1>2, <1>3, <1>4

LEMMA SubTypesKept ==
  ASSUME SubTypes, ThreadTypes, NEW c \in Threads, StartSub(c) \/ CloseSub(c)
  PROVE  SubTypes'
<1>0. /\ started \in [Hosts -> 0..3] /\ up \in [Hosts -> SUBSET Names] /\ on[c] \in Hosts
  BY LastSub DEF SubTypes, ThreadTypes
<1>r. returned' = returned /\ returned \subseteq Hosts
  BY DEF SubTypes, StartSub, CloseSub, subVars
<1>1. CASE StartSub(c)
  <2>1. CASE UNCHANGED subVars
    BY <2>1 DEF subVars, SubTypes
  <2>2. CASE ~(UNCHANGED subVars)
    <3>1. /\ started[on[c]] < 3 /\ started' = [started EXCEPT ![on[c]] = @ + 1]
          /\ up' = [up EXCEPT ![on[c]] = @ \cup {Subsystems[started'[on[c]]]}]
      BY <1>1, <2>2, LastSub DEF StartSub
    <3>2. started' \in [Hosts -> 0..3] /\ started'[on[c]] \in 1..3
      BY <3>1, <1>0
    <3>3. Subsystems[started'[on[c]]] \in Names
      BY <3>2, LastSub DEF Names
    <3> QED BY <3>1, <3>2, <3>3, <1>0, <1>r, LastSub DEF SubTypes
  <2> QED BY <2>1, <2>2
<1>2. CASE CloseSub(c)
  <2>1. started[on[c]] > 0 /\ started' = [started EXCEPT ![on[c]] = @ - 1]
    BY <1>2 DEF CloseSub
  <2>2. up' = [up EXCEPT ![on[c]] = @ \ {Subsystems[started[on[c]]]}] \/ up' = up
    BY <1>2 DEF CloseSub
  <2> QED BY <2>1, <2>2, <1>0, <1>r, LastSub DEF SubTypes
<1> QED BY <1>1, <1>2

LEMMA ThreadTypesKept ==
  ASSUME FeedTypeOK, HostTypes, ConsoleTypes, ThreadTypes, NEW c \in Threads, ThreadStep(c)
  PROVE  ThreadTypes'
<1>0. /\ pc \in [Threads -> Places] /\ on \in [Threads -> Hosts] /\ arg \in [Threads -> Args]
      /\ calls \in 0..MaxCalls /\ host \in Hosts
  BY DEF ThreadTypes, HostTypes
<1>1. pc' \in [Threads -> Places]
  <2>1. \A p \in Places : [pc EXCEPT ![c] = p] \in [Threads -> Places]
    BY <1>0
  <2>2. pc' = pc \/ \E p \in Places : pc' = [pc EXCEPT ![c] = p]
    BY DEF ThreadStep, GetHost, Start, BindFeed, StartSub, Started, CloseSub, CloseFeed, FeedClosed, Close,
           Wait, Register, Listen, ClearHandles, GetEngine, RunningFeed, Publish, Go, Then,
           threadVars, Places, Stopping, Undoing
  <2> QED BY <2>1, <2>2, <1>0
<1>2. on' \in [Threads -> Hosts]
  <2>1. on' = on \/ (host' \in Hosts /\ on' = [on EXCEPT ![c] = host'])
    BY <1>0 DEF ThreadStep, GetHost, Start, BindFeed, StartSub, Started, CloseSub, CloseFeed, FeedClosed, Close,
           Wait, Register, Listen, ClearHandles, GetEngine, RunningFeed, Publish, threadVars, HostLeft
  <2> QED BY <2>1, <1>0
<1>3. arg' \in [Threads -> Args]
  <2>1. CASE CloseFeed(c) \/ Publish(c)
    <3> DEFINE With(readers) == [arg EXCEPT ![c].readers = readers]
    <3>1. \A readers \in SUBSET Readers : With(readers) \in [Threads -> Args]
      BY <1>0, ArgMoves
    <3>2. subs[on[c]] \in SUBSET Readers /\ arg[c].readers \in SUBSET Readers
      BY <1>0 DEF FeedTypeOK, Args
    <3>3. \/ arg' = arg \/ arg' = With(subs[on[c]])
          \/ \E r \in arg[c].readers : arg' = With(arg[c].readers \ {r})
      BY <2>1 DEF CloseFeed, Publish
    <3>4. \A r : arg[c].readers \ {r} \in SUBSET Readers
      BY <3>2
    <3> HIDE DEF With
    <3> QED BY <3>1, <3>2, <3>3, <3>4, <1>0
  <2>2. CASE Close(c)
    <3>1. done[on[c]] \in Sessions \cup {Nobody} /\ engine[on[c]] \in BOOLEAN
      BY <1>0 DEF ConsoleTypes, HostTypes
    <3> DEFINE With(s, e) == [arg EXCEPT ![c].session = s, ![c].engine = e]
    <3>2. \A s \in Sessions \cup {Nobody}, e \in BOOLEAN : With(s, e) \in [Threads -> Args]
      BY <1>0, ArgMoves
    <3>3. arg' = arg \/ arg' = With(done[on[c]], engine[on[c]])
      BY <2>2 DEF Close
    <3> HIDE DEF With
    <3> QED BY <3>1, <3>2, <3>3, <1>0
  <2>3. CASE Register(c)
    <3> DEFINE new == CHOOSE x \in Sessions : session[x] = "none"
               With(s) == [arg EXCEPT ![c].session = s]
    <3>1. new \in Sessions
      BY <2>3 DEF Register
    <3>2. \A s \in Sessions \cup {Nobody} : With(s) \in [Threads -> Args]
      BY <1>0, ArgMoves
    <3>3. arg' = arg \/ arg' = With(new)
      BY <2>3 DEF Register
    <3> HIDE DEF With, new
    <3> QED BY <3>1, <3>2, <3>3, <1>0
  <2>4. CASE ~(CloseFeed(c) \/ Publish(c) \/ Close(c) \/ Register(c))
    BY <2>4, <1>0 DEF ThreadStep, GetHost, Start, BindFeed, StartSub, Started, CloseSub, FeedClosed,
           Wait, Listen, ClearHandles, GetEngine, RunningFeed, threadVars
  <2> QED BY <2>1, <2>2, <2>3, <2>4
<1>4. calls' = calls
  BY DEF ThreadStep, GetHost, Start, BindFeed, StartSub, Started, CloseSub, CloseFeed, FeedClosed, Close,
         Wait, Register, Listen, ClearHandles, GetEngine, RunningFeed, Publish
<1> QED BY <1>0, <1>1, <1>2, <1>3, <1>4 DEF ThreadTypes

LEMMA HostTypesKept ==
  ASSUME HostTypes, ThreadTypes, NEW c \in Threads, ThreadStep(c)
  PROVE  HostTypes'
<1>0. /\ host \in Hosts /\ amu \in Threads \cup {Nobody} /\ hmu \in [Hosts -> Threads \cup {Nobody}]
      /\ closed \in [Hosts -> BOOLEAN] /\ engine \in [Hosts -> BOOLEAN] /\ on[c] \in Hosts
  BY DEF HostTypes, ThreadTypes
<1>1. CASE GetHost(c)
  BY <1>1, <1>0 DEF GetHost, HostLeft, HostTypes
<1>2. CASE Start(c) \/ BindFeed(c) \/ Started(c) \/ FeedClosed(c)
  BY <1>2, <1>0 DEF Start, BindFeed, Started, FeedClosed, HostTypes
<1>3. CASE Close(c) \/ Wait(c)
  BY <1>3, <1>0 DEF Close, Wait, HostTypes
<1>4. CASE UNCHANGED hostVars
  BY <1>4 DEF hostVars, HostTypes
<1> QED
  BY <1>1, <1>2, <1>3, <1>4
     DEF ThreadStep, StartSub, CloseSub, CloseFeed, Register, Listen, ClearHandles, GetEngine, RunningFeed, Publish

LEMMA ConsoleTypesKept ==
  ASSUME ConsoleTypes, ThreadTypes, Consoles, NEW c \in Threads, ThreadStep(c)
  PROVE  ConsoleTypes'
<1>0. /\ cancel \in [Hosts -> Sessions \cup {Nobody}] /\ done \in [Hosts -> Sessions \cup {Nobody}]
      /\ session \in [Sessions -> {"none", "bind", "listen", "client", "end", "ended"}]
      /\ owner \in [Sessions -> Hosts \cup {NoHost}] /\ on[c] \in Hosts
      /\ cancelled \subseteq Sessions /\ lost \subseteq Sessions /\ socket \in Sessions \cup {Nobody}
  BY DEF ConsoleTypes, ThreadTypes
<1>1. CASE Close(c)
  BY <1>1, <1>0 DEF Close, ConsoleTypes
<1>2. CASE Wait(c)
  <2>1. arg[c].session \in Sessions \cup {Nobody}
    BY DEF ThreadTypes, Args
  <2>2. lost' \subseteq Sessions
    BY <1>2, <1>0, <2>1 DEF Wait
  <2> QED BY <1>2, <1>0, <2>2 DEF Wait, ConsoleTypes
<1>3. CASE Register(c)
  <2> DEFINE s == CHOOSE x \in Sessions : session[x] = "none"
  <2>1. s \in Sessions
    BY <1>3 DEF Register
  <2>2. CASE UNCHANGED consoleVars
    BY <2>2 DEF consoleVars, ConsoleTypes
  <2>3. CASE ~(UNCHANGED consoleVars)
    <3>1. /\ cancelled' = cancelled \cup ({cancel[on[c]]} \ {Nobody})
          /\ lost' = lost \cup ({done[on[c]]} \ {Nobody})
          /\ cancel' = [cancel EXCEPT ![on[c]] = s] /\ done' = [done EXCEPT ![on[c]] = s]
          /\ session' = [session EXCEPT ![s] = "bind"] /\ owner' = [owner EXCEPT ![s] = on[c]]
          /\ socket' = socket
      BY <1>3, <2>3 DEF Register
    <3> HIDE DEF s
    <3> QED BY <3>1, <2>1, <1>0 DEF ConsoleTypes
  <2> QED BY <2>2, <2>3
<1>4. CASE Listen(c)
  <2>1. arg[c].session \in Sessions
    BY <1>4 DEF Listen, Consoles, Binds, Binding
  <2> QED BY <1>4, <1>0, <2>1 DEF Listen, ConsoleTypes
<1>5. CASE ClearHandles(c)
  <2>1. arg[c].session \in Sessions
    BY <1>5 DEF ClearHandles, Consoles, Binds, Binding
  <2> QED BY <1>5, <1>0, <2>1 DEF ClearHandles, ConsoleTypes
<1>6. CASE UNCHANGED consoleVars
  BY <1>6 DEF consoleVars, ConsoleTypes
<1> QED
  BY <1>1, <1>2, <1>3, <1>4, <1>5, <1>6
     DEF ThreadStep, GetHost, Start, BindFeed, StartSub, Started, CloseSub, CloseFeed, FeedClosed,
         GetEngine, RunningFeed, Publish

-----------------------------------------------------------------------------
(***************************************************************************)
(* Locks and order: what a step of one thread does to the others.          *)
(***************************************************************************)

\* The other threads stay where they are.
LEMMA OthersStay ==
  ASSUME ThreadTypes, NEW c \in Threads, ThreadStep(c), NEW d \in Threads \ {c}
  PROVE  pc'[d] = pc[d] /\ on'[d] = on[d] /\ arg'[d] = arg[d]
<1>1. pc'[d] = pc[d]
  BY DEF ThreadTypes, ThreadStep, GetHost, Start, BindFeed, StartSub, Started, CloseSub, CloseFeed, FeedClosed,
         Close, Wait, Register, Listen, ClearHandles, GetEngine, RunningFeed, Publish, Go, Then, threadVars
<1>2. on'[d] = on[d]
  BY DEF ThreadTypes, ThreadStep, GetHost, Start, BindFeed, StartSub, Started, CloseSub, CloseFeed, FeedClosed,
         Close, Wait, Register, Listen, ClearHandles, GetEngine, RunningFeed, Publish, threadVars
<1>3. arg'[d] = arg[d]
  BY DEF ThreadTypes, ThreadStep, GetHost, Start, BindFeed, StartSub, Started, CloseSub, CloseFeed, FeedClosed,
         Close, Wait, Register, Listen, ClearHandles, GetEngine, RunningFeed, Publish, threadVars
<1> QED BY <1>1, <1>2, <1>3

LEMMA AmuKept ==
  ASSUME AmuHeld, NEW c \in Threads, \A d \in Threads \ {c} : pc'[d] = pc[d],
         \/ amu' = amu /\ (pc'[c] \in HoldsAmu <=> pc[c] \in HoldsAmu)
         \/ amu = c /\ amu' = Nobody /\ pc'[c] \notin HoldsAmu
         \/ amu = Nobody /\ amu' = c /\ pc'[c] \in HoldsAmu
  PROVE  AmuHeld'
<1> SUFFICES ASSUME NEW d \in Threads PROVE (amu = d <=> pc[d] \in HoldsAmu)'
  BY DEF AmuHeld
<1>1. CASE d = c
  BY <1>1, NobodyAssumption DEF AmuHeld, HoldsAmu
<1>2. CASE d # c
  BY <1>2, NobodyAssumption DEF AmuHeld, HoldsAmu
<1> QED BY <1>1, <1>2

LEMMA HmuKept ==
  ASSUME HmuHeld, HostTypes, ThreadTypes, NEW c \in Threads,
         \A d \in Threads \ {c} : pc'[d] = pc[d] /\ on'[d] = on[d],
         \/ hmu' = hmu /\ on'[c] = on[c] /\ (pc'[c] \in HoldsHmu <=> pc[c] \in HoldsHmu)
         \/ hmu' = hmu /\ pc'[c] \notin HoldsHmu /\ pc[c] \notin HoldsHmu
         \/ /\ hmu' = [hmu EXCEPT ![on[c]] = Nobody] /\ on'[c] = on[c]
            /\ pc[c] \in HoldsHmu /\ pc'[c] \notin HoldsHmu
         \/ /\ hmu[on[c]] = Nobody /\ hmu' = [hmu EXCEPT ![on[c]] = c] /\ on'[c] = on[c]
            /\ pc'[c] \in HoldsHmu
  PROVE  HmuHeld'
<1> SUFFICES ASSUME NEW d \in Threads, NEW h \in Hosts
             PROVE  (hmu[h] = d <=> on[d] = h /\ pc[d] \in HoldsHmu)'
  BY DEF HmuHeld
<1>0. /\ hmu[h] = d <=> on[d] = h /\ pc[d] \in HoldsHmu
      /\ hmu[h] = c <=> on[c] = h /\ pc[c] \in HoldsHmu
      /\ hmu[on[c]] = c <=> pc[c] \in HoldsHmu
      /\ hmu \in [Hosts -> Threads \cup {Nobody}] /\ on[c] \in Hosts /\ Nobody \notin Threads
  BY NobodyAssumption DEF HmuHeld, HostTypes, ThreadTypes
<1> HIDE DEF HoldsHmu
<1>1. CASE d = c
  BY <1>1, <1>0
<1>2. CASE d # c
  BY <1>2, <1>0
<1> QED BY <1>1, <1>2

LEMMA LocksKept ==
  ASSUME HostTypes, ThreadTypes, Locks, NEW c \in Threads, ThreadStep(c)
  PROVE  Locks'
<1>a. \A d \in Threads \ {c} : pc'[d] = pc[d] /\ on'[d] = on[d]
  BY OthersStay
<1>b. /\ amu = c <=> pc[c] \in HoldsAmu
      /\ \A p : Go(c, p) => pc'[c] = p
      /\ on[c] \in Hosts
  BY DEF Locks, AmuHeld, Go, ThreadTypes
<1>1. AmuHeld'
  <2>1. \/ amu' = amu /\ (pc'[c] \in HoldsAmu <=> pc[c] \in HoldsAmu)
        \/ amu = c /\ amu' = Nobody /\ pc'[c] \notin HoldsAmu
    BY <1>b DEF ThreadStep, GetHost, Start, BindFeed, StartSub, Started, CloseSub, CloseFeed, FeedClosed,
       Close, Wait, Register, Listen, ClearHandles, GetEngine, RunningFeed, Publish, Then, threadVars, hostVars,
       HoldsAmu, Stopping, Undoing
  <2> QED BY <2>1, <1>a, AmuKept DEF Locks
<1>2. HmuHeld'
  <2>1. CASE GetHost(c)
    <3>1. hmu' = hmu /\ pc'[c] \notin HoldsHmu /\ pc[c] \notin HoldsHmu
      BY <2>1, <1>b DEF GetHost, HoldsHmu, Undoing
    <3> QED BY <3>1, <1>a, HmuKept DEF Locks
  <2>2. CASE ~GetHost(c)
    <3>1. on' = on
      BY <2>2 DEF ThreadStep, Start, BindFeed, StartSub, Started, CloseSub, CloseFeed, FeedClosed,
         Close, Wait, Register, Listen, ClearHandles, GetEngine, RunningFeed, Publish, threadVars
    <3>2. \/ hmu' = hmu /\ (pc'[c] \in HoldsHmu <=> pc[c] \in HoldsHmu)
          \/ hmu' = [hmu EXCEPT ![on[c]] = Nobody] /\ pc[c] \in HoldsHmu /\ pc'[c] \notin HoldsHmu
          \/ hmu[on[c]] = Nobody /\ hmu' = [hmu EXCEPT ![on[c]] = c] /\ pc'[c] \in HoldsHmu
      BY <2>2, <1>b DEF ThreadStep, Start, BindFeed, StartSub, Started, CloseSub, CloseFeed, FeedClosed,
         Close, Wait, Register, Listen, ClearHandles, GetEngine, RunningFeed, Publish, Then, threadVars, hostVars,
         HoldsHmu, Stopping, Undoing, Free
    <3> QED BY <3>1, <3>2, <1>a, HmuKept DEF Locks
  <2> QED BY <2>1, <2>2
<1> QED BY <1>1, <1>2 DEF Locks

LEMMA OrderKept ==
  ASSUME HostTypes, ThreadTypes, Locks, Order, Phases, NEW c \in Threads, ThreadStep(c)
  PROVE  Order'
<1>0. /\ host \in Hosts /\ Hosts \subseteq Nat
      /\ closed \in [Hosts -> BOOLEAN] /\ engine \in [Hosts -> BOOLEAN]
      /\ pc \in [Threads -> Places] /\ on \in [Threads -> Hosts]
  BY HostsAssumption DEF HostTypes, ThreadTypes
<1>a. \A d \in Threads \ {c} : pc'[d] = pc[d] /\ on'[d] = on[d]
  BY OthersStay
<1>b. \A d \in Threads \ {c} : pc[c] \in HoldsAmu => pc[d] \notin HoldsAmu
  BY DEF Locks, AmuHeld
<1>n. host \in Nat /\ (\A h \in Hosts : h \in Nat) /\ (\A d \in Threads : on[d] \in Hosts)
  BY <1>0
<1>o. /\ \A h \in Hosts : h < host => closed[h]
      /\ \A h \in Hosts : engine[h] => h = host /\ ~closed[h]
      /\ \A d \in Threads : on[d] <= host
      /\ \A d \in Threads : pc[d] \in HoldsAmu \ {"get"} => on[d] = host
  BY DEF Order
<1>1. CASE GetHost(c)
  <2>a. /\ closed' = closed /\ engine' = engine
        /\ host' = IF closed[host] THEN host + 1 ELSE host
        /\ closed[host] => host + 1 \in Hosts
        /\ on' = [on EXCEPT ![c] = host'] /\ pc' = [pc EXCEPT ![c] = "start"] /\ pc[c] = "get"
    BY <1>1 DEF GetHost, HostLeft, Go
  <2>b. pc'[c] = "start" /\ on'[c] = host'
    BY <2>a, <1>0
  <2>c. host' = host \/ (closed[host] /\ host' = host + 1)
    BY <2>a
  <2>d. host' \in Nat /\ host \in Nat
    <3>1. closed[host] => host + 1 \in Nat
      BY <2>a, <1>n
    <3> QED BY <3>1, <2>c, <1>n
  <2>1. /\ closed' = closed /\ engine' = engine /\ pc'[c] = "start" /\ on'[c] = host' /\ host' \in Nat
        /\ host' = host \/ (closed[host] /\ host' = host + 1)
    BY <2>a, <2>b, <2>c, <2>d
  <2>3. \A d \in Threads : pc'[d] \notin HoldsAmu
    BY <2>a, <2>1, <1>a, <1>b DEF HoldsAmu, Stopping
  <2>4. ASSUME NEW h \in Hosts, h < host' PROVE closed[h]
    <3>1. h < host \/ h = host
      <4>1. h \in Nat
        BY <1>n
      <4>2. CASE host' = host
        BY <2>4, <4>2, <4>1, <1>n
      <4>3. CASE host' = host + 1
        BY <2>4, <4>3, <4>1, <1>n
      <4> QED BY <4>2, <4>3, <2>c
    <3>2. CASE h = host
      <4>1. host' # host
        BY <2>4, <3>2, <2>d
      <4> QED BY <3>2, <4>1, <2>c
    <3> QED BY <3>1, <3>2, <1>o
  <2>5. ASSUME NEW d \in Threads PROVE on'[d] <= host'
    <3>1. on[d] <= host /\ on[d] \in Nat
      BY <1>n, <1>o
    <3>2. CASE d = c
      <4>1. on'[d] = host'
        BY <3>2, <2>b
      <4> QED BY <4>1, <2>d
    <3>3. CASE d # c
      <4>1. on'[d] = on[d]
        BY <3>3, <1>a
      <4>2. host' = host \/ host' = host + 1
        BY <2>c
      <4> QED BY <3>1, <4>1, <4>2, <1>n
    <3> QED BY <3>2, <3>3
  <2>6. ASSUME NEW h \in Hosts, engine[h] PROVE h = host' /\ ~closed[h]
    <3>1. h = host /\ ~closed[host]
      BY <2>6, <1>o
    <3> QED BY <3>1, <2>c
  <2>7. \A h \in Hosts : (engine'[h] <=> engine[h]) /\ (closed'[h] <=> closed[h])
    BY <2>1
  <2> QED BY <2>3, <2>4, <2>5, <2>6, <2>7 DEF Order
<1>2. CASE Started(c)
  <2>1. ~closed[on[c]]
    BY <1>2 DEF Started, Phases, Phase, HoldsHmu
  <2>2. on[c] = host
    <3>1. ~(on[c] < host) /\ on[c] <= host
      BY <2>1, <1>n, <1>o
    <3> QED BY <3>1, <1>n
  <2>3. /\ closed' = closed /\ host' = host /\ on' = on /\ pc'[c] = "idle"
        /\ \A h \in Hosts : engine'[h] => engine[h] \/ h = on[c]
    BY <1>2, <1>0 DEF Started, Go
  <2>4. \A h \in Hosts : engine'[h] => h = host /\ ~closed[h]
    BY <1>o, <2>1, <2>2, <2>3
  <2>5. \A d \in Threads : pc'[d] \in HoldsAmu \ {"get"} => on[d] = host
    BY <1>o, <1>a, <2>3 DEF HoldsAmu, Stopping
  <2> QED BY <1>o, <2>3, <2>4, <2>5 DEF Order
<1>3. CASE Close(c)
  BY <1>3, <1>0, <1>a DEF Close, Order, HoldsAmu, Stopping, Go
<1>4. CASE Start(c) \/ BindFeed(c) \/ FeedClosed(c) \/ Wait(c)
  BY <1>4, <1>0, <1>a DEF Start, BindFeed, FeedClosed, Wait, Order, HoldsAmu, Stopping, Go
<1>5. CASE StartSub(c) \/ CloseSub(c) \/ CloseFeed(c)
  BY <1>5, <1>0, <1>a DEF StartSub, CloseSub, CloseFeed, Then, Undoing, hostVars, threadVars, Order, HoldsAmu, Stopping, Go
<1>6. CASE Register(c) \/ Listen(c) \/ ClearHandles(c) \/ GetEngine(c) \/ RunningFeed(c) \/ Publish(c)
  BY <1>6, <1>0, <1>a DEF Register, Listen, ClearHandles, GetEngine, RunningFeed, Publish, hostVars, Order, HoldsAmu, Stopping, Go
<1> QED BY <1>1, <1>2, <1>3, <1>4, <1>5, <1>6 DEF ThreadStep

-----------------------------------------------------------------------------
(***************************************************************************)
(* Where a thread is in a start or a stop.                                 *)
(***************************************************************************)

\* Where a thread keeps others off its host.
Busy == {"feed", "subs", "wait"} \cup Stopping \cup Undoing

LEMMA Alone ==
  ASSUME Locks, Phases, HostTypes, ThreadTypes, NEW c \in Threads, NEW d \in Threads \ {c},
         pc[c] \in Busy, pc[d] \in Busy
  PROVE  on[c] # on[d]
<1> SUFFICES ASSUME on[c] = on[d] PROVE FALSE
  OBVIOUS
<1>1. Busy \subseteq HoldsHmu \cup ({"wait"} \cup Stopping) /\ {"wait"} \cup Stopping \subseteq HoldsAmu
  BY DEF Busy, HoldsHmu, HoldsAmu
<1>2. ~(pc[c] \in HoldsHmu /\ pc[d] \in HoldsHmu)
  <2>1. on[c] \in Hosts
    BY DEF ThreadTypes
  <2> QED BY <2>1 DEF Locks, HmuHeld
<1>3. ~(pc[c] \in HoldsAmu /\ pc[d] \in HoldsAmu)
  BY DEF Locks, AmuHeld
<1>4. /\ pc[c] \in HoldsHmu => ~closed[on[c]]
      /\ pc[d] \in HoldsHmu => ~closed[on[c]]
      /\ pc[c] \in {"wait"} \cup Stopping => closed[on[c]]
      /\ pc[d] \in {"wait"} \cup Stopping => closed[on[c]]
  BY DEF Phases, Phase
<1> HIDE DEF Busy, HoldsHmu, HoldsAmu
<1> QED BY <1>1, <1>2, <1>3, <1>4

\* A step of a thread changes its own host only.
LEMMA HostsStay ==
  ASSUME FeedTypeOK, HostTypes, SubTypes, ConsoleTypes, ThreadTypes, NEW c \in Threads, ThreadStep(c),
         NEW h \in Hosts \ {on[c]}
  PROVE  /\ feed'[h] = feed[h] /\ started'[h] = started[h] /\ up'[h] = up[h]
         /\ closed'[h] = closed[h] /\ engine'[h] = engine[h]
         /\ done'[h] = done[h]
<1>1. feed'[h] = feed[h]
  BY DEF FeedTypeOK, ThreadStep, GetHost, Start, BindFeed, StartSub, Started, CloseSub, CloseFeed, FeedClosed,
         Close, Wait, Register, Listen, ClearHandles, GetEngine, RunningFeed, Publish,
         FeedOpens, FeedCloses, FeedReleases, FeedWaits, Deliver, feedVars
<1>2. started'[h] = started[h] /\ up'[h] = up[h]
  BY DEF SubTypes, ThreadStep, GetHost, Start, BindFeed, StartSub, Started, CloseSub, CloseFeed, FeedClosed,
         Close, Wait, Register, Listen, ClearHandles, GetEngine, RunningFeed, Publish, subVars
<1>3. closed'[h] = closed[h]
  BY DEF HostTypes, ThreadStep, GetHost, Start, BindFeed, StartSub, Started, CloseSub, CloseFeed, FeedClosed,
         Close, Wait, Register, Listen, ClearHandles, GetEngine, RunningFeed, Publish, hostVars
<1>4. engine'[h] = engine[h]
  BY DEF HostTypes, ThreadStep, GetHost, Start, BindFeed, StartSub, Started, CloseSub, CloseFeed, FeedClosed,
         Close, Wait, Register, Listen, ClearHandles, GetEngine, RunningFeed, Publish, hostVars
<1>5. done'[h] = done[h]
  BY DEF ConsoleTypes, ThreadStep, GetHost, Start, BindFeed, StartSub, Started, CloseSub, CloseFeed, FeedClosed,
         Close, Wait, Register, Listen, ClearHandles, GetEngine, RunningFeed, Publish, consoleVars
<1> QED BY <1>1, <1>2, <1>3, <1>4, <1>5

\* Only a busy thread touches the feed and the subsystems of its host.
LEMMA FreeHostStays ==
  ASSUME FeedTypeOK, NEW c \in Threads, ThreadStep(c), pc[c] \notin Busy
  PROVE  UNCHANGED <<feed, port, subVars, conn>>
BY DEF ThreadStep, GetHost, Start, BindFeed, StartSub, Started, CloseSub, CloseFeed, FeedClosed,
       Close, Wait, Register, Listen, ClearHandles, GetEngine, RunningFeed, Publish, Deliver, feedVars, Busy,
       Stopping, Undoing, subVars

\* A reader that has been accepted stays known.
LEMMA ConnStays ==
  ASSUME FeedTypeOK, NEW c \in Threads, ThreadStep(c), NEW r \in Readers, conn[r] # "none"
  PROVE  conn'[r] # "none"
BY DEF FeedTypeOK, ThreadStep, GetHost, Start, BindFeed, StartSub, Started, CloseSub, CloseFeed, FeedClosed,
       Close, Wait, Register, Listen, ClearHandles, GetEngine, RunningFeed, Publish,
       FeedOpens, FeedCloses, FeedReleases, FeedWaits, Deliver, feedVars

\* The port is let go, or taken by the host of the step.
LEMMA PortMoves ==
  ASSUME NEW c \in Threads, ThreadStep(c)
  PROVE  port' \in {port, NoHost, on[c]}
BY DEF ThreadStep, GetHost, Start, BindFeed, StartSub, Started, CloseSub, CloseFeed, FeedClosed,
       Close, Wait, Register, Listen, ClearHandles, GetEngine, RunningFeed, Publish,
       FeedOpens, FeedCloses, FeedReleases, FeedWaits, Deliver, feedVars

\* A host is closed by a thread that holds applianceMu, when nobody holds its
\* lock; its engine is set by a thread that holds it.
LEMMA ClosedStays ==
  ASSUME HostTypes, NEW c \in Threads, ThreadStep(c), NEW h \in Hosts
  PROVE  /\ closed[h] => closed'[h]
         /\ closed'[h] # closed[h] => pc[c] = "close" /\ on[c] = h /\ hmu[h] = Nobody
         /\ engine'[h] # engine[h] => \/ pc[c] = "close" /\ on[c] = h /\ hmu[h] = Nobody
                                      \/ pc[c] = "subs" /\ on[c] = h
<1>1. CASE Close(c)
  BY <1>1 DEF Close, HostTypes, Free
<1>2. CASE Started(c)
  BY <1>2 DEF Started, HostTypes
<1>3. CASE ~Close(c) /\ ~Started(c)
  BY <1>3 DEF ThreadStep, GetHost, Start, BindFeed, StartSub, CloseSub, CloseFeed, FeedClosed,
       Wait, Register, Listen, ClearHandles, GetEngine, RunningFeed, Publish, hostVars
<1> QED BY <1>1, <1>2, <1>3

\* What the others have left behind stays.
LEMMA PhasesOfOthers ==
  ASSUME FeedTypeOK, Types, Locks, Phases, NEW c \in Threads, ThreadStep(c), NEW d \in Threads \ {c}
  PROVE  Phase(d, on[d])'
<1>h. PICK h \in Hosts : h = on[d]
  BY DEF Types, ThreadTypes
<1>0. /\ pc'[d] = pc[d] /\ on'[d] = h /\ on[d] = h /\ arg'[d] = arg[d]
      /\ h # NoHost /\ Phase(d, h) /\ Nobody \notin Threads
  BY <1>h, OthersStay, HostsAssumption, NobodyAssumption DEF Phases, ThreadTypes, Types
<1>r. \A r \in arg[d].readers : r \in Readers
  BY DEF Types, ThreadTypes, Args
<1>c. \A r \in Readers : conn[r] # "none" => conn'[r] # "none"
  BY ConnStays
<1>p. port' \in {port, NoHost, on[c]}
  BY PortMoves
<1>1. CASE pc[d] \notin Busy
  BY <1>0, <1>1 DEF Phase, Busy, HoldsHmu, Stopping, Undoing
<1>2. CASE pc[d] \in Busy /\ on[c] # h
  <2>1. closed'[h] = closed[h] /\ engine'[h] = engine[h] /\ feed'[h] = feed[h] /\ started'[h] = started[h]
    BY <1>0, <1>2, HostsStay DEF Types
  <2>2. port # h => port' # h
    BY <1>p, <1>2, <1>0
  <2>3. Phase(d, h)'
    BY <1>0, <1>r, <1>c, <2>1, <2>2 DEF Phase
  <2> QED BY <2>3, <1>0 DEF Phase
<1>3. CASE pc[d] \in Busy /\ on[c] = h
  <2>1. pc[c] \notin Busy
    BY <1>3, <1>h, Alone DEF Types
  <2>2. feed' = feed /\ port' = port /\ started' = started
    BY <2>1, FreeHostStays DEF subVars
  <2>3. closed'[h] = closed[h] /\ engine'[h] = engine[h]
    <3>1. pc[d] \in HoldsHmu => hmu[h] = d
      BY <1>0 DEF Locks, HmuHeld
    <3>2. pc[d] \in {"wait"} \cup Stopping => pc[c] # "close"
      BY DEF Locks, AmuHeld, HoldsAmu
    <3>3. pc[d] \in HoldsHmu \/ pc[d] \in {"wait"} \cup Stopping
      BY <1>3 DEF Busy, HoldsHmu
    <3>4. pc[c] # "subs"
      BY <2>1 DEF Busy
    <3>5. ~(pc[c] = "close" /\ hmu[h] = Nobody)
      BY <3>1, <3>2, <3>3, <1>0
    <3> QED BY <3>4, <3>5, <1>0, ClosedStays DEF Types
  <2>4. Phase(d, h)'
    BY <1>0, <1>r, <1>c, <2>2, <2>3 DEF Phase
  <2> QED BY <2>4, <1>0 DEF Phase
<1> QED BY <1>1, <1>2, <1>3

\* Nobody works on a host with an engine.
LEMMA EngineRests ==
  ASSUME Order, Phases, Idle, NEW h \in Hosts, engine[h]
  PROVE  AtRest(h) /\ \A d \in Threads : ~Works(d, h)
<1>1. ASSUME NEW d \in Threads, Works(d, h) PROVE FALSE
  <2>1. ~closed[h]
    BY DEF Order
  <2>2. on[d] = h /\ Phase(d, on[d])
    BY <1>1 DEF Works, Phases
  <2>3. pc[d] \notin HoldsHmu /\ pc[d] \notin {"wait"} \cup Stopping
    BY <2>1, <2>2 DEF Phase
  <2> QED BY <1>1, <2>3 DEF Works, HoldsHmu
<1> QED BY <1>1 DEF Idle

LEMMA PhaseOfOne ==
  ASSUME FeedInv, Types, Order, Phases, Idle, NEW c \in Threads, ThreadStep(c)
  PROVE  Phase(c, on[c])'
<1>h. PICK h \in Hosts : h = on[c]
  BY DEF Types, ThreadTypes
<1>0. /\ h = on[c] /\ h # NoHost /\ Phase(c, h)
      /\ pc \in [Threads -> Places] /\ on \in [Threads -> Hosts] /\ arg \in [Threads -> Args]
      /\ feed \in [Hosts -> {"none", "open", "closed", "gone"}] /\ closed \in [Hosts -> BOOLEAN]
      /\ engine \in [Hosts -> BOOLEAN]
  BY <1>h, HostsAssumption DEF Types, ThreadTypes, HostTypes, FeedInv, FeedTypeOK, Phases
<1>1. CASE GetHost(c)
  BY <1>1, <1>0 DEF GetHost, Go, Phase, HoldsHmu, Stopping, Undoing
<1>2. CASE Start(c) \/ StartSub(c) \/ Started(c) \/ FeedClosed(c)
  BY <1>2, <1>0 DEF Start, StartSub, Started, FeedClosed, Go, Phase, HoldsHmu, Stopping, Undoing,
     feedVars, hostVars
<1>3. CASE BindFeed(c)
  BY <1>3, <1>0 DEF BindFeed, FeedOpens, Go, Phase, HoldsHmu, Stopping, Undoing
<1>4. CASE CloseSub(c)
  BY <1>4, <1>0 DEF CloseSub, Phase, HoldsHmu, Stopping, Undoing, feedVars, hostVars, threadVars
<1>5. CASE CloseFeed(c)
  <2>a. closed' = closed /\ engine' = engine /\ started' = started /\ on' = on
    BY <1>5 DEF CloseFeed, hostVars, subVars
  <2>1. CASE pc[c] \in {"stop subs", "undo subs"}
    <3>1. /\ started[h] = 0 /\ feed' = [feed EXCEPT ![h] = "closed"] /\ conn' = conn
          /\ arg' = [arg EXCEPT ![c].readers = subs[h]]
          /\ pc' = [pc EXCEPT ![c] = IF pc[c] \in Stopping THEN "stop release" ELSE "undo release"]
      BY <1>5, <2>1, <1>0 DEF CloseFeed, FeedCloses, Then, Go
    <3>2. arg'[c].readers = subs[h] /\ feed'[h] = "closed"
      BY <3>1, <1>0 DEF Args
    <3>3. \A r \in subs[h] : conn[r] # "none"
      <4> SUFFICES ASSUME NEW r \in subs[h] PROVE conn[r] # "none"
        OBVIOUS
      <4>1. feedOf[r] = h /\ r \in Readers
        BY DEF FeedInv, SubsKnown, FeedTypeOK
      <4> QED BY <4>1, <1>0 DEF FeedInv, ReadersKnown
    <3>4. pc'[c] = IF pc[c] \in Stopping THEN "stop release" ELSE "undo release"
      BY <3>1, <1>0
    <3>5. on'[c] = h /\ started'[h] = 0
      BY <2>a, <3>1, <1>0
    <3>6. closed'[h] = closed[h] /\ engine'[h] = engine[h]
      BY <2>a
    <3> QED BY <3>1, <3>2, <3>3, <3>4, <3>5, <3>6, <2>1, <1>0 DEF Phase, HoldsHmu, Stopping, Undoing
  <2>2. CASE pc[c] \in {"stop release", "undo release"}
    <3>1. /\ port' = NoHost /\ feed' = feed
          /\ pc'[c] = IF pc[c] \in Stopping THEN "stop wait" ELSE "undo wait"
      BY <1>5, <2>2, <1>0 DEF CloseFeed, FeedReleases, Then, Go
    <3> QED BY <3>1, <2>2, <2>a, <1>0 DEF Phase, HoldsHmu, Stopping, Undoing
  <2> QED BY <1>5, <2>1, <2>2 DEF CloseFeed
<1>6. CASE Close(c)
  <2>1. CASE closed[h]
    BY <1>6, <2>1, <1>0 DEF Close, Go, Phase, HoldsHmu, Stopping, Undoing
  <2>2. CASE ~closed[h]
    <3>1. /\ closed' = [closed EXCEPT ![h] = TRUE]
          /\ arg' = [arg EXCEPT ![c].session = done[h], ![c].engine = engine[h]]
          /\ pc'[c] = "wait" /\ feed' = feed /\ on' = on
      BY <1>6, <2>2, <1>0 DEF Close, Go, feedVars
    <3>2. arg'[c].engine = engine[h] /\ closed'[h]
      BY <3>1, <1>0 DEF Args
    <3>3. engine[h] => feed[h] = "open"
      BY EngineRests DEF AtRest
    <3> QED BY <3>1, <3>2, <3>3, <1>0 DEF Phase, HoldsHmu, Stopping, Undoing
  <2> QED BY <2>1, <2>2
<1>7. CASE Wait(c)
  BY <1>7, <1>0 DEF Wait, Go, Phase, HoldsHmu, Stopping, Undoing, feedVars
<1>8. CASE Register(c) \/ Listen(c) \/ ClearHandles(c) \/ GetEngine(c) \/ RunningFeed(c) \/ Publish(c)
  <2>1. pc'[c] \in {"idle", "listen", "clear", "running", "publish", "deliver"}
    BY <1>8, <1>0 DEF Register, Listen, ClearHandles, GetEngine, RunningFeed, Publish, Go
  <2> QED BY <2>1 DEF Phase, HoldsHmu, Stopping, Undoing
<1> QED BY <1>1, <1>2, <1>3, <1>4, <1>5, <1>6, <1>7, <1>8 DEF ThreadStep

LEMMA PhasesKept ==
  ASSUME FeedInv, Types, Locks, Order, Phases, Idle, NEW c \in Threads, ThreadStep(c)
  PROVE  Phases'
<1>1. FeedTypeOK
  BY DEF FeedInv
<1>2. \A d \in Threads \ {c} : Phase(d, on[d])'
  BY <1>1, PhasesOfOthers
<1>3. Phase(c, on[c])'
  BY PhaseOfOne
<1> QED BY <1>2, <1>3 DEF Phases

LEMMA IdleKept ==
  ASSUME FeedInv, Types, Order, Phases, Idle, NEW c \in Threads, ThreadStep(c)
  PROVE  Idle'
<1> SUFFICES ASSUME NEW h \in Hosts, \A d \in Threads : ~Works(d, h)' PROVE AtRest(h)'
  BY DEF Idle
<1>0. /\ on[c] \in Hosts /\ Phase(c, on[c])
      /\ pc \in [Threads -> Places] /\ on \in [Threads -> Hosts] /\ arg \in [Threads -> Args]
      /\ feed \in [Hosts -> {"none", "open", "closed", "gone"}] /\ closed \in [Hosts -> BOOLEAN]
      /\ engine \in [Hosts -> BOOLEAN]
  BY DEF Types, ThreadTypes, HostTypes, FeedInv, FeedTypeOK, Phases
<1>a. \A d \in Threads \ {c} : Works(d, h)' = Works(d, h)
  BY OthersStay DEF Works, Types
\* Where c did not work before, and the host is as it was.
<1>b. ASSUME ~Works(c, h), feed'[h] = feed[h], started'[h] = started[h], engine'[h] = engine[h]
      PROVE  AtRest(h)'
  <2>1. AtRest(h)
    BY <1>a, <1>b DEF Idle
  <2> QED BY <2>1, <1>b DEF AtRest
<1>1. CASE h # on[c]
  <2>1. feed'[h] = feed[h] /\ started'[h] = started[h] /\ engine'[h] = engine[h]
    BY <1>1, HostsStay DEF FeedInv, Types
  <2> QED BY <1>1, <2>1, <1>b DEF Works
<1>2. CASE h = on[c] /\ (BindFeed(c) \/ StartSub(c) \/ CloseSub(c) \/ CloseFeed(c))
  <2>1. CASE pc'[c] = "idle"
    <3>1. BindFeed(c)
      BY <1>2, <2>1, <1>0 DEF StartSub, CloseSub, CloseFeed, Go, Then, threadVars, Stopping, Undoing
    <3>2. pc[c] = "feed" /\ feed' = feed /\ started' = started /\ engine' = engine
      BY <3>1, <2>1, <1>0 DEF BindFeed, Go, feedVars, subVars
    <3> QED BY <3>2, <1>b DEF Works, Stopping, Undoing
  <2>2. CASE pc'[c] # "idle"
    <3>1. on'[c] = h
      BY <1>2, <1>0 DEF BindFeed, StartSub, CloseSub, CloseFeed, threadVars
    <3>2. pc'[c] \in {"subs"} \cup Stopping \cup Undoing
      BY <1>2, <2>2, <1>0 DEF BindFeed, StartSub, CloseSub, CloseFeed, Go, Then, threadVars, Stopping, Undoing
    <3>3. Works(c, h)'
      BY <3>1, <3>2 DEF Works
    <3> QED BY <3>3
  <2> QED BY <2>1, <2>2
<1>3. CASE h = on[c] /\ Started(c)
  <2>1. started[h] = 3 /\ feed[h] = "open" /\ started' = started /\ feed' = feed /\ engine'[h]
    BY <1>3, <1>0, LastSub DEF Started, Phase, subVars, feedVars
  <2> QED BY <2>1 DEF AtRest
<1>4. CASE h = on[c] /\ FeedClosed(c)
  <2>1. started[h] = 0 /\ started' = started /\ feed'[h] = "gone" /\ engine' = engine
    BY <1>4, <1>0 DEF FeedClosed, FeedWaits, Phase, subVars
  <2>2. ~engine[h]
    <3>1. pc[c] = "stop wait" => closed[h]
      BY <1>4, <1>0 DEF Phase, Stopping
    <3>2. pc[c] = "undo wait" => ~engine[h]
      BY <1>4, <1>0 DEF Phase, HoldsHmu, Undoing
    <3> QED BY <1>4, <3>1, <3>2 DEF FeedClosed, Order
  <2> QED BY <2>1, <2>2 DEF AtRest
<1>5. CASE h = on[c] /\ Close(c)
  <2>0. ~Works(c, h) /\ feed' = feed /\ started' = started /\ on' = on
    BY <1>5 DEF Close, Works, Stopping, Undoing, feedVars, subVars
  <2>1. CASE engine'[h] = engine[h]
    BY <2>0, <2>1, <1>b
  <2>2. CASE engine'[h] # engine[h]
    <3>1. ~closed[h] /\ engine[h]
      BY <1>5, <2>2, <1>0 DEF Close
    <3>2. pc'[c] = "wait" /\ arg' = [arg EXCEPT ![c].session = done[h], ![c].engine = engine[h]]
      BY <1>5, <3>1, <1>0 DEF Close, Go
    <3>3. arg'[c].engine
      BY <3>1, <3>2, <1>0 DEF Args
    <3>4. Works(c, h)'
      BY <3>2, <3>3, <2>0, <1>5 DEF Works
    <3> QED BY <3>4
  <2> QED BY <2>1, <2>2
<1>6. CASE h = on[c] /\ Wait(c)
  <2>0. feed' = feed /\ started' = started /\ engine' = engine /\ on' = on /\ pc[c] = "wait"
    BY <1>6 DEF Wait, feedVars, subVars
  <2>1. CASE arg[c].engine
    <3>1. pc'[c] = "stop subs"
      BY <1>6, <2>1, <1>0 DEF Wait, Go
    <3>2. Works(c, h)'
      BY <3>1, <2>0, <1>6 DEF Works, Stopping
    <3> QED BY <3>2
  <2>2. CASE ~arg[c].engine
    BY <2>0, <2>2, <1>b DEF Works, Stopping, Undoing
  <2> QED BY <2>1, <2>2
<1>7. CASE GetHost(c) \/ Start(c) \/ Register(c) \/ Listen(c) \/ ClearHandles(c) \/ GetEngine(c)
           \/ RunningFeed(c) \/ Publish(c)
  <2>1. ~Works(c, h)
    BY <1>7 DEF Works, GetHost, Start, Register, Listen, ClearHandles, GetEngine, RunningFeed, Publish,
       Stopping, Undoing
  <2>2. feed' = feed /\ started' = started /\ engine' = engine
    BY <1>7 DEF GetHost, Start, Register, Listen, ClearHandles, GetEngine, RunningFeed, Publish, Deliver,
       feedVars, subVars, hostVars
  <2> QED BY <2>1, <2>2, <1>b
<1> QED BY <1>1, <1>2, <1>3, <1>4, <1>5, <1>6, <1>7 DEF ThreadStep

LEMMA CoreOf ==
  /\ Core(0) = {} /\ Core(1) = {"transport"}
  /\ Core(2) = {"transport", "hub"} /\ Core(3) = {"transport", "hub"}
BY DEF Core

LEMMA SubsKept ==
  ASSUME SubTypes, ThreadTypes, Subs, NEW c \in Threads, ThreadStep(c)
  PROVE  Subs'
<1>0. /\ started \in [Hosts -> 0..3] /\ up \in [Hosts -> SUBSET Names] /\ on[c] \in Hosts
      /\ \A h \in Hosts : Runs(h)
  BY LastSub DEF SubTypes, ThreadTypes, Subs
<1>r. returned' = returned
  BY DEF ThreadStep, GetHost, Start, BindFeed, StartSub, Started, CloseSub, CloseFeed, FeedClosed,
         Close, Wait, Register, Listen, ClearHandles, GetEngine, RunningFeed, Publish, subVars
<1>1. CASE UNCHANGED subVars
  BY <1>0, <1>1 DEF Subs, Runs, subVars
<1>2. ASSUME NEW m \in 0..3, started' = [started EXCEPT ![on[c]] = m], NEW S, up' = [up EXCEPT ![on[c]] = S],
             S \ {"bot"} = Core(m), m = 3 => "bot" \in S
      PROVE  Subs'
  BY <1>0, <1>2, <1>r DEF Subs, Runs
<1>3. CASE StartSub(c) /\ ~(UNCHANGED subVars)
  <2> DEFINE n == started[on[c]]
             S == up[on[c]] \cup {Subsystems[n + 1]}
  <2>1. /\ n < 3 /\ n \in 0..3
        /\ started' = [started EXCEPT ![on[c]] = n + 1]
        /\ started'[on[c]] = n + 1
    BY <1>3, <1>0, LastSub DEF StartSub
  <2>2. up' = [up EXCEPT ![on[c]] = S]
    BY <1>3, <2>1, <1>0 DEF StartSub
  <2>3. up[on[c]] \ {"bot"} = Core(n)
    BY <1>0 DEF Runs
  <2>4. S \ {"bot"} = Core(n + 1) /\ (n + 1 = 3 => "bot" \in S)
    <3>1. CASE n = 0
      BY <2>3, <3>1, LastSub, CoreOf
    <3>2. CASE n = 1
      BY <2>3, <3>2, LastSub, CoreOf
    <3>3. CASE n = 2
      BY <2>3, <3>3, LastSub, CoreOf
    <3> QED BY <2>1, <3>1, <3>2, <3>3
  <2>5. n + 1 \in 0..3
    BY <2>1
  <2> HIDE DEF n, S
  <2> QED BY <2>1, <2>2, <2>4, <2>5, <1>2
<1>4. CASE CloseSub(c)
  <2> DEFINE n == started[on[c]]
  <2>1. n > 0 /\ n \in 0..3 /\ started' = [started EXCEPT ![on[c]] = n - 1]
    BY <1>4, <1>0 DEF CloseSub
  <2>2. up[on[c]] \ {"bot"} = Core(n)
    BY <1>0 DEF Runs
  <2>3. PICK S : /\ up' = [up EXCEPT ![on[c]] = S]
                 /\ S = up[on[c]] \ {Subsystems[n]} \/ (Subsystems[n] = "bot" /\ S = up[on[c]])
    <3>1. up = [up EXCEPT ![on[c]] = up[on[c]]]
      BY <1>0
    <3> QED BY <1>4, <3>1 DEF CloseSub
  <2>4. S \ {"bot"} = Core(n - 1)
    <3>1. CASE n = 1
      BY <2>2, <2>3, <3>1, LastSub, CoreOf
    <3>2. CASE n = 2
      BY <2>2, <2>3, <3>2, LastSub, CoreOf
    <3>3. CASE n = 3
      BY <2>2, <2>3, <3>3, LastSub, CoreOf
    <3> QED BY <2>1, <3>1, <3>2, <3>3
  <2>5. n - 1 \in 0..3 /\ n - 1 # 3
    BY <2>1
  <2> HIDE DEF n
  <2> QED BY <2>1, <2>3, <2>4, <2>5, <1>2
<1> QED BY <1>1, <1>3, <1>4
     DEF ThreadStep, GetHost, Start, BindFeed, Started, CloseFeed, FeedClosed,
         Close, Wait, Register, Listen, ClearHandles, GetEngine, RunningFeed, Publish

LEMMA PortKept ==
  ASSUME FeedInv, ThreadTypes, Phases, PortOwned, NEW c \in Threads, ThreadStep(c)
  PROVE  PortOwned'
<1> SUFFICES ASSUME NEW h \in Hosts, port' = h PROVE feed'[h] \in {"open", "closed"}
  BY DEF PortOwned
<1>0. /\ on[c] \in Hosts /\ h # NoHost /\ Phase(c, on[c])
      /\ feed \in [Hosts -> {"none", "open", "closed", "gone"}]
  BY HostsAssumption DEF ThreadTypes, FeedInv, FeedTypeOK, Phases
<1>1. CASE BindFeed(c) \/ CloseFeed(c)
  BY <1>0, <1>1 DEF BindFeed, CloseFeed, FeedOpens, FeedCloses, FeedReleases, PortOwned, feedVars
<1>2. CASE FeedClosed(c)
  BY <1>0, <1>2 DEF FeedClosed, FeedWaits, PortOwned, Phase
<1>3. CASE UNCHANGED <<port, feed>>
  BY <1>3 DEF PortOwned
<1> QED BY <1>1, <1>2, <1>3
     DEF ThreadStep, GetHost, Start, StartSub, Started, CloseSub,
         Close, Wait, Register, Listen, ClearHandles, GetEngine, RunningFeed, Publish, Deliver, feedVars

-----------------------------------------------------------------------------
(***************************************************************************)
(* The consoles.                                                           *)
(***************************************************************************)

\* A thread that registers no console, and waits for none.
LEMMA ConsolesStay ==
  ASSUME Consoles, NEW c \in Threads, UNCHANGED <<session, owner, lost, done>>,
         \A d \in Threads \ {c} : pc'[d] = pc[d] /\ on'[d] = on[d] /\ arg'[d] = arg[d],
         pc'[c] \notin Binding, Leaving(c)'
  PROVE  Consoles'
<1>1. Owned' /\ Registered' /\ Apart'
  BY DEF Consoles, Owned, Registered, Apart
<1>2. \A d \in Threads : Binds(d)'
  BY DEF Consoles, Binds
<1>3. \A d \in Threads : Leaving(d)'
  BY DEF Consoles, Leaving
<1> QED BY <1>1, <1>2, <1>3 DEF Consoles, Owned, Registered, Apart, Binds, Leaving

LEMMA ConsolesKept ==
  ASSUME Types, Phases, Consoles, NEW c \in Threads, ThreadStep(c)
  PROVE  Consoles'
<1>h. PICK h \in Hosts : h = on[c]
  BY DEF Types, ThreadTypes
<1>0. /\ h = on[c] /\ h # NoHost /\ Leaving(c) /\ Binds(c)
      /\ pc \in [Threads -> Places] /\ on \in [Threads -> Hosts] /\ arg \in [Threads -> Args]
      /\ done \in [Hosts -> Sessions \cup {Nobody}] /\ lost \subseteq Sessions
      /\ session \in [Sessions -> {"none", "bind", "listen", "client", "end", "ended"}]
      /\ owner \in [Sessions -> Hosts \cup {NoHost}] /\ Nobody \notin Sessions
  BY <1>h, HostsAssumption, NobodyAssumption DEF Types, ThreadTypes, ConsoleTypes, Consoles
<1>a. \A d \in Threads \ {c} : pc'[d] = pc[d] /\ on'[d] = on[d] /\ arg'[d] = arg[d]
  BY OthersStay DEF Types
<1>p. Owned /\ Registered /\ Apart /\ \A d \in Threads : Binds(d) /\ Leaving(d)
  BY DEF Consoles
<1>o. \A s \in Sessions : session[s] # "none" => owner[s] \in Hosts
  BY <1>0, <1>p DEF Owned
<1>1. CASE GetHost(c) \/ Start(c) \/ BindFeed(c) \/ StartSub(c) \/ Started(c) \/ CloseSub(c) \/ CloseFeed(c)
           \/ FeedClosed(c) \/ GetEngine(c) \/ RunningFeed(c) \/ Publish(c)
  <2>1. UNCHANGED consoleVars
    BY <1>1 DEF GetHost, Start, BindFeed, StartSub, Started, CloseSub, CloseFeed, FeedClosed, GetEngine,
       RunningFeed, Publish
  <2>2. /\ pc'[c] \notin Binding \cup {"wait"}
        /\ pc'[c] \in Stopping => pc[c] \in Stopping /\ on'[c] = on[c]
    BY <1>1, <1>0 DEF GetHost, Start, BindFeed, StartSub, Started, CloseSub, CloseFeed, FeedClosed, GetEngine,
       RunningFeed, Publish, Go, Then, threadVars, Stopping, Undoing, Binding
  <2>3. Leaving(c)'
    BY <2>1, <2>2, <1>0 DEF Leaving, consoleVars
  <2> QED BY <2>1, <2>2, <2>3, <1>a, ConsolesStay DEF consoleVars
<1>2. CASE Close(c)
  <2>1. UNCHANGED <<session, owner, lost, done, on>>
    BY <1>2 DEF Close
  <2>2. pc'[c] \in {"idle", "wait"}
    BY <1>2, <1>0 DEF Close, Go
  <2>3. CASE pc'[c] = "wait"
    <3>1. arg' = [arg EXCEPT ![c].session = done[h], ![c].engine = engine[h]]
      BY <1>2, <2>3, <1>0 DEF Close, Go
    <3>2. arg'[c].session = done[h]
      BY <3>1, <1>0 DEF Args
    <3>3. Leaving(c)'
      BY <2>1, <2>3, <3>2, <1>0 DEF Leaving, Stopping
    <3> QED BY <2>1, <2>3, <3>3, <1>a, ConsolesStay DEF Binding
  <2>4. CASE pc'[c] = "idle"
    <3>1. Leaving(c)'
      BY <2>4 DEF Leaving, Stopping
    <3> QED BY <2>1, <2>4, <3>1, <1>a, ConsolesStay DEF Binding
  <2> QED BY <2>2, <2>3, <2>4
<1>3. CASE Wait(c)
  <2>1. /\ UNCHANGED <<session, owner, on, arg>> /\ lost \subseteq lost'
        /\ done' = [done EXCEPT ![h] = Nobody] /\ pc'[c] \in {"idle", "stop subs"} /\ pc[c] = "wait"
    BY <1>3, <1>0 DEF Wait, Go
  <2>2. arg[c].session # Nobody => session[arg[c].session] = "ended" \/ arg[c].session \in lost'
    BY <1>3 DEF Wait
  <2>3. Owned' /\ Apart' /\ \A d \in Threads : Binds(d)'
    <3>1. \A d \in Threads : pc'[d] \in Binding => pc[d] \in Binding
      BY <2>1, <1>a DEF Binding
    <3>2. session' = session /\ owner' = owner /\ on' = on /\ arg' = arg
      BY <2>1
    <3> QED BY <3>1, <3>2, <1>p DEF Owned, Apart, Binds
  <2>4. Registered'
    <3> SUFFICES ASSUME NEW s \in Sessions, session[s] \notin {"none", "ended"}, s \notin lost'
                 PROVE  done'[owner[s]] = s
      BY <2>1 DEF Registered
    <3>1. done[owner[s]] = s /\ owner[s] \in Hosts
      BY <2>1, <1>p, <1>o DEF Registered
    <3>2. owner[s] # h
      <4> SUFFICES ASSUME owner[s] = h PROVE FALSE
        OBVIOUS
      <4>1. s = arg[c].session
        BY <3>1, <2>1, <1>0 DEF Leaving
      <4> QED BY <4>1, <2>2, <1>0
    <3> QED BY <3>1, <3>2, <2>1, <1>0
  <2>5. ASSUME NEW d \in Threads PROVE Leaving(d)'
    <3>1. on[d] \in Hosts /\ Leaving(d)
      BY <1>0, <1>p
    <3>2. done'[on[d]] = Nobody \/ (done'[on[d]] = done[on[d]] /\ d # c)
      BY <3>1, <2>1, <1>0
    <3> QED BY <3>1, <3>2, <2>1, <1>a DEF Leaving
  <2> QED BY <2>3, <2>4, <2>5 DEF Consoles, Owned, Registered, Apart, Binds, Leaving
<1>4. CASE Register(c)
  <2>1. CASE closed[h]
    <3>1. UNCHANGED consoleVars /\ pc'[c] = "idle"
      BY <1>4, <2>1, <1>0 DEF Register, Go
    <3>2. Leaving(c)'
      BY <3>1 DEF Leaving, Stopping
    <3> QED BY <3>1, <3>2, <1>a, ConsolesStay DEF consoleVars, Binding
  <2>2. CASE ~closed[h]
    <3>1. PICK s \in Sessions :
            /\ session[s] = "none"
            /\ lost' = lost \cup ({done[h]} \ {Nobody}) /\ done' = [done EXCEPT ![h] = s]
            /\ session' = [session EXCEPT ![s] = "bind"] /\ owner' = [owner EXCEPT ![s] = h]
            /\ arg' = [arg EXCEPT ![c].session = s] /\ pc'[c] = "listen" /\ on' = on
      <4>1. session[CHOOSE x \in Sessions : session[x] = "none"] = "none"
            /\ (CHOOSE x \in Sessions : session[x] = "none") \in Sessions
        BY <1>4 DEF Register
      <4> DEFINE s == CHOOSE x \in Sessions : session[x] = "none"
      <4>2. /\ lost' = lost \cup ({done[h]} \ {Nobody}) /\ done' = [done EXCEPT ![h] = s]
            /\ session' = [session EXCEPT ![s] = "bind"] /\ owner' = [owner EXCEPT ![s] = h]
            /\ arg' = [arg EXCEPT ![c].session = s] /\ pc'[c] = "listen" /\ on' = on
        BY <1>4, <2>2, <1>0 DEF Register, Go
      <4> QED BY <4>1, <4>2
    <3>2. arg'[c].session = s
      BY <3>1, <1>0 DEF Args
    <3>3. session'[s] = "bind" /\ owner'[s] = h
          /\ \A x \in Sessions \ {s} : session'[x] = session[x] /\ owner'[x] = owner[x]
      BY <3>1, <1>0
    <3>4. Owned'
      BY <3>3, <1>0, <1>p DEF Owned
    <3>5. Registered'
      <4> SUFFICES ASSUME NEW x \in Sessions, session'[x] \notin {"none", "ended"}, x \notin lost'
                   PROVE  done'[owner'[x]] = x
        BY DEF Registered
      <4>1. CASE x = s
        BY <4>1, <3>1, <3>3, <1>0
      <4>2. CASE x # s
        <5>1. done[owner[x]] = x /\ owner[x] \in Hosts /\ owner'[x] = owner[x]
          BY <4>2, <3>1, <3>3, <1>p, <1>o DEF Registered
        <5>2. owner[x] # h
          BY <5>1, <3>1, <1>0
        <5> QED BY <5>1, <5>2, <3>1
      <4> QED BY <4>1, <4>2
    <3>6. ASSUME NEW d \in Threads PROVE Binds(d)'
      <4>1. CASE d = c
        BY <4>1, <3>1, <3>2, <3>3, <1>0 DEF Binds
      <4>2. CASE d # c
        <5>1. pc'[d] = pc[d] /\ on'[d] = on[d] /\ arg'[d] = arg[d] /\ Binds(d)
          BY <4>2, <1>a, <1>p
        <5> QED BY <5>1, <3>1, <3>3 DEF Binds
      <4> QED BY <4>1, <4>2
    <3>7. Apart'
      <4>1. \A d \in Threads \ {c} : pc'[d] \in Binding => arg'[d].session # s
        BY <1>a, <1>p, <3>1 DEF Binds
      <4> QED BY <4>1, <3>2, <1>a, <1>p DEF Apart
    <3>8. ASSUME NEW d \in Threads PROVE Leaving(d)'
      <4>1. CASE d = c
        BY <4>1, <3>1 DEF Leaving, Stopping
      <4>2. CASE d # c
        <5>1. pc'[d] = pc[d] /\ on'[d] = on[d] /\ arg'[d] = arg[d] /\ Leaving(d) /\ on[d] \in Hosts
          BY <4>2, <1>a, <1>p, <1>0
        <5>2. pc[d] \in {"wait"} \cup Stopping => on[d] # h
          BY <2>2 DEF Phases, Phase
        <5> QED BY <5>1, <5>2, <3>1 DEF Leaving
      <4> QED BY <4>1, <4>2
    <3> QED BY <3>4, <3>5, <3>6, <3>7, <3>8 DEF Consoles, Owned, Registered, Apart, Binds, Leaving
  <2> QED BY <2>1, <2>2
<1>5. CASE Listen(c) \/ ClearHandles(c)
  <2> DEFINE s == arg[c].session
  <2>1. /\ s \in Sessions /\ session[s] = "bind" /\ owner[s] = h
        /\ pc[c] \in Binding
    BY <1>5, <1>0 DEF Listen, ClearHandles, Binds, Binding
  <2>2. /\ UNCHANGED <<owner, on, arg>>
        /\ pc'[c] = "idle" \/ (pc'[c] = "clear" /\ session' = session)
        /\ \/ session' = session
           \/ \E to \in {"listen", "ended"} : session' = [session EXCEPT ![s] = to]
    BY <1>5, <1>0 DEF Listen, ClearHandles, Go
  <2>3. \A x \in Sessions : (session'[x] = session[x] \/ (x = s /\ session'[x] \in {"listen", "ended"}))
    BY <2>2, <1>0
  <2>4. Owned'
    BY <2>1, <2>2, <2>3, <1>p DEF Owned
  <2>5. \A d \in Threads \ {c} : pc[d] \in Binding => arg[d].session # s
    BY <2>1, <1>p DEF Apart
  <2>6. Apart'
    BY <2>1, <2>2, <2>5, <1>a, <1>p DEF Apart, Binding
  <2>7. \A d \in Threads : Binds(d)'
    <3>1. Binds(c)'
      BY <2>1, <2>2, <1>0 DEF Binds, Binding
    <3>2. ASSUME NEW d \in Threads \ {c} PROVE Binds(d)'
      <4>1. pc'[d] = pc[d] /\ on'[d] = on[d] /\ arg'[d] = arg[d] /\ Binds(d)
        BY <1>a, <1>p
      <4>2. pc[d] \in Binding => session'[arg[d].session] = session[arg[d].session]
        BY <4>1, <2>3, <2>5 DEF Binds
      <4> QED BY <4>1, <4>2, <2>2 DEF Binds
    <3> QED BY <3>1, <3>2
  <2>8. /\ lost \subseteq lost'
        /\ \/ done' = done
           \/ /\ done' = [done EXCEPT ![h] = Nobody] /\ session'[s] = "ended"
              /\ done[h] \in lost' \cup {Nobody, s}
    BY <1>5, <2>1, <1>0 DEF Listen, ClearHandles
  <2>9. Registered'
    <3> SUFFICES ASSUME NEW x \in Sessions, session'[x] \notin {"none", "ended"}, x \notin lost'
                 PROVE  done'[owner[x]] = x
      BY <2>2 DEF Registered
    <3>1. done[owner[x]] = x /\ owner[x] \in Hosts
      BY <2>1, <2>3, <2>8, <1>p, <1>o DEF Registered
    <3>2. CASE done' = done
      BY <3>1, <3>2
    <3>3. CASE done' # done
      <4>1. owner[x] # h
        BY <3>1, <3>3, <2>8, <1>0
      <4> QED BY <3>1, <3>3, <4>1, <2>8, <1>0
    <3> QED BY <3>2, <3>3
  <2>10. ASSUME NEW d \in Threads PROVE Leaving(d)'
    <3>1. CASE d = c
      BY <3>1, <2>2 DEF Leaving, Stopping
    <3>2. CASE d # c
      <4>1. pc'[d] = pc[d] /\ on'[d] = on[d] /\ arg'[d] = arg[d] /\ Leaving(d) /\ on[d] \in Hosts
        BY <3>2, <1>a, <1>p, <1>0
      <4>2. done'[on[d]] \in {Nobody, done[on[d]]}
        BY <4>1, <2>8, <1>0
      <4> QED BY <4>1, <4>2 DEF Leaving
    <3> QED BY <3>1, <3>2
  <2> QED BY <2>4, <2>6, <2>7, <2>9, <2>10 DEF Consoles, Owned, Registered, Apart, Binds, Leaving
<1> QED BY <1>1, <1>2, <1>3, <1>4, <1>5 DEF ThreadStep

-----------------------------------------------------------------------------
(***************************************************************************)
(* All steps.                                                              *)
(***************************************************************************)

\* A thread that is about to open the feed has its host to itself.
LEMMA FeedIsNew ==
  ASSUME Types, Locks, Phases, Idle, NEW c \in Threads, pc[c] = "feed"
  PROVE  AtRest(on[c]) /\ ~engine[on[c]] /\ ~closed[on[c]]
<1>h. PICK h \in Hosts : h = on[c]
  BY DEF Types, ThreadTypes
<1>1. ~engine[h] /\ ~closed[h]
  BY <1>h DEF Phases, Phase, HoldsHmu
<1>2. ASSUME NEW d \in Threads, Works(d, h) PROVE FALSE
  <2>1. pc[d] \in Busy /\ on[d] = h
    BY <1>2 DEF Works, Busy
  <2>2. pc[c] \in Busy
    BY DEF Busy
  <2>3. d # c
    BY <1>2 DEF Works, Stopping, Undoing
  <2> QED BY <1>h, <2>1, <2>2, <2>3, Alone DEF Types
<1> QED BY <1>h, <1>1, <1>2 DEF Idle

LEMMA FeedSame == ASSUME FeedInv, UNCHANGED feedVars PROVE FeedInv'
<1>0. /\ port' = port /\ feed' = feed /\ accept' = accept /\ hand' = hand /\ subs' = subs /\ wg' = wg
      /\ feedOf' = feedOf /\ conn' = conn /\ stopped' = stopped /\ server' = server /\ chunks' = chunks
  BY DEF feedVars
<1>1. FeedTypeOK'
  BY <1>0 DEF FeedInv, FeedTypeOK
<1>2. Counted'
  BY <1>0 DEF FeedInv, Counted, Accepts, Served
<1>3. InHand' /\ FeedPhase' /\ ReadersKnown' /\ SubsKnown'
  BY <1>0 DEF FeedInv, InHand, FeedPhase, ReadersKnown, SubsKnown, Served
<1> QED BY <1>1, <1>2, <1>3 DEF FeedInv

LEMMA FeedKept ==
  ASSUME FeedInv, Types, Locks, Phases, Idle, NEW c \in Threads, ThreadStep(c)
  PROVE  FeedInv'
<1>0. /\ on[c] \in Hosts /\ Phase(c, on[c]) /\ arg[c].readers \in SUBSET Readers
  BY DEF Types, ThreadTypes, Args, Phases
<1>1. CASE UNCHANGED feedVars
  BY <1>1, FeedSame
<1>2. CASE BindFeed(c) /\ ~(UNCHANGED feedVars)
  <2>1. FeedOpens(on[c]) /\ pc[c] = "feed"
    BY <1>2 DEF BindFeed
  <2>2. feed[on[c]] \in {"none", "gone"}
    BY <2>1, FeedIsNew DEF AtRest
  <2> QED BY <2>1, <2>2, <1>0, OpensKeeps
<1>3. CASE CloseFeed(c)
  <2>1. CASE pc[c] \in {"stop subs", "undo subs"}
    <3>1. FeedCloses(on[c]) /\ feed[on[c]] = "open"
      BY <1>3, <2>1, <1>0 DEF CloseFeed, Phase
    <3> QED BY <3>1, <1>0, ClosesKeeps
  <2>2. CASE pc[c] \in {"stop release", "undo release"}
    <3>1. FeedReleases(on[c], arg[c].readers) /\ \A r \in arg[c].readers : conn[r] # "none"
      BY <1>3, <2>2, <1>0 DEF CloseFeed, Phase
    <3> QED BY <3>1, <1>0, ReleasesKeeps
  <2> QED BY <1>3, <2>1, <2>2 DEF CloseFeed
<1>4. CASE FeedClosed(c)
  <2>1. FeedWaits(on[c]) /\ feed[on[c]] = "closed"
    BY <1>4, <1>0 DEF FeedClosed, Phase
  <2> QED BY <2>1, <1>0, WaitsKeeps
<1>5. CASE Publish(c) /\ ~(UNCHANGED feedVars)
  <2>1. PICK r \in arg[c].readers : Deliver(r)
    BY <1>5 DEF Publish
  <2> QED BY <2>1, <1>0, DeliverKeeps
<1> QED BY <1>1, <1>2, <1>3, <1>4, <1>5
     DEF ThreadStep, GetHost, Start, StartSub, Started, CloseSub,
         Close, Wait, Register, Listen, ClearHandles, GetEngine, RunningFeed

LEMMA ThreadKeeps ==
  ASSUME IInv, NEW c \in Threads, ThreadStep(c)
  PROVE  IInv'
<1>1. FeedInv'
  BY FeedKept DEF IInv, Work
<1>2. Types'
  <2>1. SubTypes'
    <3>1. CASE UNCHANGED subVars
      BY <3>1 DEF IInv, Types, SubTypes, subVars
    <3>2. CASE StartSub(c) \/ CloseSub(c)
      BY <3>2, SubTypesKept DEF IInv, Types
    <3> QED BY <3>1, <3>2
         DEF ThreadStep, GetHost, Start, BindFeed, Started, CloseFeed, FeedClosed,
             Close, Wait, Register, Listen, ClearHandles, GetEngine, RunningFeed, Publish
  <2>2. HostTypes' /\ ThreadTypes' /\ ConsoleTypes'
    BY HostTypesKept, ThreadTypesKept, ConsoleTypesKept DEF IInv, Types, FeedInv
  <2> QED BY <2>1, <2>2 DEF Types
<1>3. Locks' /\ Order'
  BY LocksKept, OrderKept DEF IInv, Types, Work
<1>4. Phases' /\ Idle'
  BY PhasesKept, IdleKept DEF IInv, Work
<1>5. Subs' /\ PortOwned'
  BY SubsKept, PortKept DEF IInv, Types, Work
<1>6. Consoles'
  BY ConsolesKept DEF IInv, Work
<1> QED BY <1>1, <1>2, <1>3, <1>4, <1>5, <1>6 DEF IInv, Work

\* The application's calls.
LEMMA AsksKeeps ==
  ASSUME IInv, NEW c \in Threads, Asks(c)
  PROVE  IInv'
<1>0. /\ pc \in [Threads -> Places] /\ on \in [Threads -> Hosts] /\ arg \in [Threads -> Args]
      /\ calls \in 0..MaxCalls /\ host \in Hosts /\ host \in Nat
      /\ FeedInv /\ Types /\ Locks /\ Order /\ Phases /\ Idle /\ Subs /\ PortOwned /\ Consoles
  BY HostsAssumption DEF IInv, Types, ThreadTypes, HostTypes, Work
<1>1. PICK place \in {"get", "close", "console", "sample"} :
        /\ Call(c, place) /\ UNCHANGED <<feedVars, host, hmu, closed, engine, subVars, consoleVars>>
        /\ IF place \in {"get", "close"} THEN amu' = c ELSE amu' = amu
  BY DEF Asks, StartAppliance, StopAppliance, StartConsole, FeedSample, hostVars
<1>2. /\ pc[c] = "idle" /\ amu = Nobody /\ calls' = calls + 1 /\ calls' \in 0..MaxCalls
      /\ pc' = [pc EXCEPT ![c] = place] /\ on' = [on EXCEPT ![c] = host] /\ arg' = [arg EXCEPT ![c] = Nothing]
  BY <1>0, <1>1, MaxCallsAssumption DEF Call, Go
<1>3. /\ pc'[c] = place /\ on'[c] = host
      /\ \A d \in Threads \ {c} : pc'[d] = pc[d] /\ on'[d] = on[d] /\ arg'[d] = arg[d]
  BY <1>0, <1>2
<1>4. FeedInv'
  BY <1>0, <1>1, FeedSame
<1>5. Types'
  <2>1. Nothing \in Args /\ place \in Places
    BY DEF Nothing, Args, Places
  <2>2. ThreadTypes'
    BY <2>1, <1>0, <1>2 DEF ThreadTypes
  <2>3. HostTypes'
    BY <1>0, <1>1 DEF Types, HostTypes
  <2>4. SubTypes' /\ ConsoleTypes'
    BY <1>0, <1>1 DEF Types, SubTypes, ConsoleTypes, subVars, consoleVars
  <2> QED BY <2>2, <2>3, <2>4 DEF Types
<1>6. Locks'
  <2>1. AmuHeld'
    <3>1. \/ amu' = amu /\ (pc'[c] \in HoldsAmu <=> pc[c] \in HoldsAmu)
          \/ amu = Nobody /\ amu' = c /\ pc'[c] \in HoldsAmu
      BY <1>1, <1>2, <1>3 DEF HoldsAmu, Stopping
    <3> QED BY <3>1, <1>0, <1>3, AmuKept DEF Locks
  <2>2. HmuHeld'
    <3>1. hmu' = hmu /\ pc'[c] \notin HoldsHmu /\ pc[c] \notin HoldsHmu
      BY <1>1, <1>2, <1>3 DEF HoldsHmu, Undoing
    <3> QED BY <3>1, <1>0, <1>3, HmuKept DEF Locks, Types
  <2> QED BY <2>1, <2>2 DEF Locks
<1>7. Order'
  <2>1. host' = host /\ closed' = closed /\ engine' = engine
    BY <1>1
  <2>2. \A d \in Threads : on'[d] <= host /\ (pc'[d] \in HoldsAmu \ {"get"} => on'[d] = host)
    BY <1>0, <1>3 DEF Order
  <2> QED BY <1>0, <2>1, <2>2 DEF Order
<1>8. Phases'
  <2> SUFFICES ASSUME NEW d \in Threads PROVE Phase(d, on[d])'
    BY DEF Phases
  <2>1. CASE d = c
    BY <2>1, <1>3 DEF Phase, HoldsHmu, Stopping, Undoing
  <2>2. CASE d # c
    <3>1. closed' = closed /\ engine' = engine /\ feed' = feed /\ started' = started /\ port' = port /\ conn' = conn
      BY <1>1 DEF feedVars, subVars
    <3>2. pc'[d] = pc[d] /\ on'[d] = on[d] /\ arg'[d] = arg[d]
      BY <2>2, <1>3
    <3> QED BY <1>0, <3>1, <3>2 DEF Phases, Phase
  <2> QED BY <2>1, <2>2
<1>9. Idle'
  <2>1. \A d \in Threads, h \in Hosts : Works(d, h)' = Works(d, h)
    BY <1>2, <1>3 DEF Works, Stopping, Undoing
  <2>2. engine' = engine /\ started' = started /\ feed' = feed
    BY <1>1 DEF feedVars, subVars
  <2>3. \A h \in Hosts : AtRest(h)' = AtRest(h)
    BY <2>2 DEF AtRest
  <2> QED BY <1>0, <2>1, <2>3 DEF Idle
<1>10. Subs' /\ PortOwned'
  <2>1. up' = up /\ started' = started /\ returned' = returned /\ port' = port /\ feed' = feed
    BY <1>1 DEF feedVars, subVars
  <2> QED BY <1>0, <2>1 DEF Subs, Runs, PortOwned
<1>11. Consoles'
  <2>1. UNCHANGED <<session, owner, lost, done>>
    BY <1>1 DEF consoleVars
  <2>2. pc'[c] \notin Binding /\ Leaving(c)'
    BY <1>3 DEF Leaving, Binding, Stopping
  <2> QED BY <2>1, <2>2, <1>0, <1>3, ConsolesStay
<1> QED BY <1>4, <1>5, <1>6, <1>7, <1>8, <1>9, <1>10, <1>11 DEF IInv, Work

\* Steps of the feed's goroutines, of readers and of consoles.
LEMMA WorkSame ==
  ASSUME Types, Locks, Order, Phases, Idle, PortOwned, UNCHANGED <<hostVars, threadVars, started, feed, port>>,
         \A r \in Readers : conn[r] # "none" => conn'[r] # "none"
  PROVE  Locks' /\ Order' /\ Phases' /\ Idle' /\ PortOwned'
<1>0. /\ host' = host /\ amu' = amu /\ hmu' = hmu /\ closed' = closed /\ engine' = engine
      /\ pc' = pc /\ on' = on /\ arg' = arg /\ started' = started /\ feed' = feed /\ port' = port
  BY DEF hostVars, threadVars
<1>1. Locks' /\ Order' /\ PortOwned'
  BY <1>0 DEF Locks, AmuHeld, HmuHeld, Order, PortOwned
<1>2. Phases'
  <2> SUFFICES ASSUME NEW d \in Threads PROVE Phase(d, on[d])'
    BY DEF Phases
  <2>1. arg[d].readers \subseteq Readers
    BY DEF Types, ThreadTypes, Args
  <2> QED BY <1>0, <2>1 DEF Phases, Phase
<1>3. Idle'
  BY <1>0 DEF Idle, Works, AtRest
<1> QED BY <1>1, <1>2, <1>3

LEMMA FeedStepKeeps ==
  ASSUME IInv, FeedGoroutines \/ FeedReaders, UNCHANGED <<hostVars, subVars, consoleVars, threadVars, calls>>
  PROVE  IInv'
<1>0. FeedInv /\ Types /\ Locks /\ Order /\ Phases /\ Idle /\ Subs /\ PortOwned /\ Consoles
  BY DEF IInv, Work
<1>1. FeedInv'
  <2>1. ASSUME NEW h \in Hosts, Add(h) \/ Serve(h) \/ AcceptFails(h) PROVE FeedInv'
    BY <2>1, <1>0, AddKeeps, ServeKeeps, AcceptFailsKeeps
  <2>2. ASSUME NEW r \in Readers, Take(r) \/ Leave(r) \/ Written(r) PROVE FeedInv'
    BY <2>2, <1>0, ServerKeeps
  <2>3. ASSUME NEW r \in Readers, Drop(r) \/ ReaderGoes(r) PROVE FeedInv'
    BY <2>3, <1>0, DropKeeps, ReaderGoesKeeps
  <2>4. ASSUME NEW r \in Readers, NEW h \in Hosts, Dials(r, h) PROVE FeedInv'
    BY <2>4, <1>0, DialsKeeps
  <2> QED BY <2>1, <2>2, <2>3, <2>4 DEF FeedGoroutines, FeedReaders
<1>2. feed' = feed /\ port' = port
  BY DEF FeedGoroutines, FeedReaders, Add, Serve, AcceptFails, Take, Leave, Drop, Written, ReaderGoes, Dials
<1>3. \A r \in Readers : conn[r] # "none" => conn'[r] # "none"
  BY <1>0 DEF FeedGoroutines, FeedReaders, Add, Serve, AcceptFails, Take, Leave, Drop, Written, ReaderGoes, Dials,
     FeedInv, FeedTypeOK
<1>4. started' = started /\ up' = up
  BY DEF subVars
<1>5. Locks' /\ Order' /\ Phases' /\ Idle' /\ PortOwned'
  BY <1>0, <1>2, <1>3, <1>4, WorkSame
<1>6. Types' /\ Subs'
  BY <1>0, <1>4 DEF Types, HostTypes, SubTypes, ConsoleTypes, ThreadTypes, Subs, Runs, hostVars, subVars, consoleVars, threadVars
<1>7. Consoles'
  BY <1>0 DEF Consoles, Owned, Registered, Apart, Binds, Leaving, Binding, consoleVars, threadVars
<1> QED BY <1>1, <1>5, <1>6, <1>7 DEF IInv, Work

LEMMA SessionKeeps ==
  ASSUME IInv, NEW s \in Sessions, SessionStep(s) \/ DialConsole(s) \/ ClientEnds(s)
  PROVE  IInv'
<1>0. FeedInv /\ Types /\ Locks /\ Order /\ Phases /\ Idle /\ Subs /\ PortOwned /\ Consoles
  BY DEF IInv, Work
<1>1. PICK to \in {"client", "end", "ended"} :
        /\ session[s] \in {"listen", "client", "end"}
        /\ session' = [session EXCEPT ![s] = to]
        /\ UNCHANGED <<feedVars, hostVars, subVars, cancel, done, owner, lost, threadVars, calls>>
        /\ cancelled' \in {cancelled, cancelled \cup {s}} /\ socket' \in {socket, Nobody}
  BY DEF SessionStep, StopAccepting, SessionEnds, DialConsole, ClientEnds
<1>2. FeedInv'
  BY <1>0, <1>1, FeedSame
<1>3. Locks' /\ Order' /\ Phases' /\ Idle' /\ PortOwned'
  <2>1. feed' = feed /\ port' = port /\ started' = started /\ conn' = conn
    BY <1>1 DEF feedVars, subVars
  <2>2. UNCHANGED <<hostVars, threadVars>>
    BY <1>1
  <2> QED BY <1>0, <2>1, <2>2, WorkSame
<1>4. HostTypes' /\ SubTypes' /\ ThreadTypes' /\ Subs'
  BY <1>0, <1>1 DEF Types, HostTypes, SubTypes, ThreadTypes, Subs, Runs, hostVars, subVars, threadVars
<1>5. ConsoleTypes'
  BY <1>0, <1>1 DEF Types, ConsoleTypes
<1>6. Consoles'
  <2>1. \A x \in Sessions : \/ session'[x] = session[x]
                            \/ x = s /\ session'[x] \in {"client", "end", "ended"}
    BY <1>0, <1>1 DEF Types, ConsoleTypes
  <2>2. owner' = owner /\ lost' = lost /\ done' = done /\ pc' = pc /\ on' = on /\ arg' = arg
    BY <1>1 DEF threadVars
  <2>3. Owned' /\ Registered'
    BY <1>0, <1>1, <2>1, <2>2 DEF Consoles, Owned, Registered
  <2>4. Apart' /\ \A c \in Threads : Leaving(c)'
    BY <1>0, <2>2 DEF Consoles, Apart, Leaving
  <2>5. \A c \in Threads : Binds(c)'
    BY <1>0, <1>1, <2>1, <2>2 DEF Consoles, Binds
  <2> QED BY <2>3, <2>4, <2>5 DEF Consoles, Owned, Registered, Apart, Binds, Leaving
<1> QED BY <1>2, <1>3, <1>4, <1>5, <1>6 DEF IInv, Work, Types

LEMMA BotKeeps ==
  ASSUME IInv, NEW h \in Hosts, BotEnds(h)
  PROVE  IInv'
<1>0. FeedInv /\ Types /\ Locks /\ Order /\ Phases /\ Idle /\ Subs /\ PortOwned /\ Consoles
  BY DEF IInv, Work
<1>1. /\ started' = started /\ up' = [up EXCEPT ![h] = @ \ {"bot"}]
      /\ returned' = IF started[h] = 3 THEN returned \cup {h} ELSE returned
      /\ UNCHANGED <<feedVars, hostVars, consoleVars, threadVars, calls>>
  BY LastSub DEF BotEnds
<1>2. FeedInv'
  BY <1>0, <1>1, FeedSame
<1>3. Locks' /\ Order' /\ Phases' /\ Idle' /\ PortOwned'
  <2>1. feed' = feed /\ port' = port /\ conn' = conn
    BY <1>1 DEF feedVars
  <2> QED BY <1>0, <1>1, <2>1, WorkSame
<1>4. HostTypes' /\ ConsoleTypes' /\ ThreadTypes' /\ Consoles'
  BY <1>0, <1>1 DEF Types, HostTypes, ConsoleTypes, ThreadTypes, Consoles, Owned, Registered, Apart, Binds, Leaving, Binding, hostVars, consoleVars, threadVars
<1>5. SubTypes'
  BY <1>0, <1>1 DEF Types, SubTypes
<1>6. Subs'
  <2> SUFFICES ASSUME NEW g \in Hosts PROVE Runs(g)'
    BY DEF Subs
  <2>1. up'[g] \ {"bot"} = up[g] \ {"bot"} /\ (g # h => up'[g] = up[g])
    BY <1>0, <1>1 DEF Types, SubTypes
  <2> QED BY <1>0, <1>1, <2>1 DEF Subs, Runs
<1> QED BY <1>2, <1>3, <1>4, <1>5, <1>6 DEF IInv, Work, Types

-----------------------------------------------------------------------------
(***************************************************************************)
(* The theorems.                                                           *)
(***************************************************************************)

LEMMA InitIInv == Init => IInv
<1> SUFFICES ASSUME Init PROVE IInv
  OBVIOUS
<1>h. Hosts \subseteq Nat /\ NoHost \notin Hosts /\ 1 \in Hosts /\ Nobody \notin Threads /\ Nobody \notin Sessions
  BY HostsAssumption, FirstHostAssumption, NobodyAssumption
<1>1. FeedInv
  <2>1. FeedInit
    BY DEF Init
  <2>2. FeedTypeOK
    BY <2>1, FeedBufferAssumption DEF FeedInit, FeedTypeOK
  <2>3. \A h \in Hosts : Served(h) = {} /\ Accepts(h) = 0
    BY <2>1 DEF FeedInit, Served, Accepts
  <2>4. Counted
    BY <2>1, <2>3, FS_EmptySet DEF FeedInit, Counted
  <2>5. InHand /\ FeedPhase /\ ReadersKnown /\ SubsKnown
    BY <2>1, <2>3 DEF FeedInit, InHand, FeedPhase, ReadersKnown, SubsKnown
  <2> QED BY <2>2, <2>4, <2>5 DEF FeedInv
<1>2. HostTypes /\ SubTypes /\ ConsoleTypes
  BY <1>h, LastSub DEF Init, HostTypes, SubTypes, ConsoleTypes
<1>3. ThreadTypes
  <2>1. Nothing \in Args /\ "idle" \in Places
    BY DEF Nothing, Args, Places
  <2> QED BY <2>1, <1>h, MaxCallsAssumption DEF Init, ThreadTypes
<1>4. Locks
  BY <1>h DEF Init, Locks, AmuHeld, HmuHeld, HoldsAmu, HoldsHmu, Stopping, Undoing
<1>5. Order
  <2>1. \A h \in Hosts : ~(h < 1)
    BY <1>h DEF NoHost
  <2> QED BY <2>1 DEF Init, Order, HoldsAmu, Stopping
<1>6. Phases
  BY DEF Init, Phases, Phase, HoldsHmu, Stopping, Undoing
<1>7. Idle
  BY DEF Init, FeedInit, Idle, AtRest
<1>8. Subs /\ PortOwned
  BY <1>h, CoreOf DEF Init, FeedInit, Subs, Runs, PortOwned
<1>9. Consoles
  BY DEF Init, Consoles, Owned, Registered, Apart, Binds, Leaving, Binding, Stopping
<1> QED BY <1>1, <1>2, <1>3, <1>4, <1>5, <1>6, <1>7, <1>8, <1>9 DEF IInv, Types, Work

LEMMA NextIInv == IInv /\ [Next]_vars => IInv'
<1> SUFFICES ASSUME IInv, [Next]_vars PROVE IInv'
  OBVIOUS
<1>1. ASSUME NEW c \in Threads, ThreadStep(c) \/ Asks(c) PROVE IInv'
  BY <1>1, ThreadKeeps, AsksKeeps
<1>2. ASSUME NEW s \in Sessions, SessionStep(s) \/ DialConsole(s) \/ ClientEnds(s) PROVE IInv'
  BY <1>2, SessionKeeps
<1>3. CASE FeedStep \/ (FeedReaders /\ UNCHANGED <<hostVars, subVars, consoleVars, threadVars, calls>>)
  BY <1>3, FeedStepKeeps DEF FeedStep
<1>4. ASSUME NEW h \in Hosts, BotEnds(h) PROVE IInv'
  BY <1>4, BotKeeps
<1>5. CASE UNCHANGED vars
  <2>0. FeedInv /\ Types /\ Locks /\ Order /\ Phases /\ Idle /\ Subs /\ PortOwned /\ Consoles
    BY DEF IInv, Work
  <2>1. /\ UNCHANGED feedVars /\ UNCHANGED <<hostVars, threadVars>>
        /\ subVars' = subVars /\ consoleVars' = consoleVars /\ calls' = calls
    BY <1>5 DEF vars
  <2>2. feed' = feed /\ port' = port /\ conn' = conn
        /\ started' = started /\ up' = up /\ returned' = returned
    BY <2>1 DEF feedVars, subVars
  <2>3. FeedInv' /\ Locks' /\ Order' /\ Phases' /\ Idle' /\ PortOwned'
    BY <2>0, <2>1, <2>2, FeedSame, WorkSame
  <2>4. Types' /\ Subs'
    BY <2>0, <2>1, <2>2 DEF Types, HostTypes, SubTypes, ConsoleTypes, ThreadTypes, Subs, Runs, hostVars, consoleVars, threadVars
  <2>5. Consoles'
    BY <2>0, <2>1 DEF Consoles, Owned, Registered, Apart, Binds, Leaving, Binding, consoleVars, threadVars
  <2> QED BY <2>3, <2>4, <2>5 DEF IInv, Work
<1> QED BY <1>1, <1>2, <1>3, <1>4, <1>5 DEF Next, Outside

\* The inductive invariant holds in every state of the appliance.
LEMMA Invariant == Spec => []IInv
BY InitIInv, NextIInv, PTL DEF Spec

\* Whatever the threads and the goroutines do, Host, Engine, Feed and the handles
\* of the package hold what their types allow.
THEOREM TypesHold == Spec => []TypeOK
<1>1. IInv => TypeOK
  BY DEF IInv, FeedInv, Types, TypeOK
<1> QED BY <1>1, Invariant, PTL

\* Where a thread is about to start the engine, all other hosts are at rest.
LEMMA OthersAtRest ==
  ASSUME IInv, NEW c \in Threads, pc[c] \in {"feed", "subs"}, NEW g \in Hosts, g # on[c]
  PROVE  started[g] = 0 /\ feed[g] \in {"none", "gone"}
<1>0. /\ on[c] \in Hosts /\ host \in Hosts /\ Hosts \subseteq Nat
      /\ Locks /\ Order /\ Phases /\ Idle
  BY HostsAssumption DEF IInv, Types, ThreadTypes, HostTypes, Work
<1>1. on[c] = host
  <2>1. ~closed[on[c]]
    BY <1>0 DEF Phases, Phase, HoldsHmu
  <2>2. ~(on[c] < host) /\ on[c] <= host
    BY <2>1, <1>0 DEF Order
  <2>3. on[c] \in Nat /\ host \in Nat
    BY <1>0
  <2> QED BY <2>2, <2>3
<1>2. ~engine[g]
  BY <1>0, <1>1 DEF Order
<1>3. ASSUME NEW d \in Threads, Works(d, g) PROVE FALSE
  <2>1. on[d] = g /\ Phase(d, on[d]) /\ on[d] <= host
    BY <1>0, <1>3 DEF Works, Phases, Order
  <2>2. on[d] < host
    <3>1. on[d] \in Nat /\ host \in Nat /\ on[d] # host
      BY <1>0, <1>1, <2>1
    <3> QED BY <3>1, <2>1
  <2>3. closed[g]
    BY <2>1, <2>2, <1>0 DEF Order
  <2>4. pc[d] \notin HoldsHmu
    BY <2>1, <2>3 DEF Phase
  <2>5. pc[d] \notin HoldsAmu \ {"get"}
    BY <2>1, <1>0, <1>1 DEF Order
  <2> QED BY <1>3, <2>4, <2>5 DEF Works, HoldsHmu, HoldsAmu, Stopping
<1> QED BY <1>2, <1>3, <1>0 DEF Idle, AtRest

\* StartAppliance, StopAppliance: where a thread binds the feed's port no other
\* feed has it, and where it starts a subsystem none of another run is up.
THEOREM RunsDoNotOverlap == Spec => []OneAtATime
<1>1. ASSUME IInv PROVE OneAtATime
  <2> SUFFICES ASSUME NEW c \in Threads, pc[c] \in {"feed", "subs"}
               PROVE  /\ pc[c] = "feed" => port = NoHost
                      /\ \A g \in Hosts \ {on[c]} : up[g] \cap {"transport", "hub"} = {}
    BY DEF OneAtATime
  <2>0. /\ FeedInv /\ Types /\ Locks /\ Phases /\ Idle /\ Subs /\ PortOwned
        /\ port \in Hosts \cup {NoHost}
    BY <1>1 DEF IInv, Work, FeedInv, FeedTypeOK
  <2>1. ASSUME pc[c] = "feed", port # NoHost PROVE FALSE
    <3>1. port \in Hosts /\ feed[port] \in {"open", "closed"}
      BY <2>0, <2>1 DEF PortOwned
    <3>2. CASE port = on[c]
      BY <2>0, <2>1, <3>1, <3>2, FeedIsNew DEF AtRest
    <3>3. CASE port # on[c]
      BY <1>1, <3>1, <3>3, OthersAtRest
    <3> QED BY <3>2, <3>3
  <2>2. ASSUME NEW g \in Hosts \ {on[c]} PROVE up[g] \cap {"transport", "hub"} = {}
    <3>1. started[g] = 0
      BY <1>1, <2>2, OthersAtRest
    <3>2. up[g] \ {"bot"} = {}
      BY <2>0, <3>1, CoreOf DEF Subs, Runs
    <3> QED BY <3>2
  <2> QED BY <2>1, <2>2
<1> QED BY <1>1, Invariant, PTL

\* Engine.Start undoes what it started, and Engine.Close stops all: a host that no
\* thread is starting or stopping has its feed and all subsystems, or none, but
\* for a bot that came back of itself or that does not come back (Bot.Close).
THEOREM NothingHalfStarted == Spec => []AllOrNothing
<1>1. ASSUME IInv PROVE AllOrNothing
  <2> SUFFICES ASSUME NEW h \in Hosts,
                      \A c \in Threads : on[c] = h => pc[c] \notin Stopping \cup Undoing \cup {"subs", "wait"}
               PROVE  IF engine[h] THEN feed[h] = "open" /\ \A sub \in Names \ up[h] : sub = "bot" /\ h \in returned
                                   ELSE feed[h] \in {"none", "gone"} /\ up[h] \subseteq {"bot"}
    BY DEF AllOrNothing
  <2>0. Types /\ Idle /\ Subs
    BY <1>1 DEF IInv, Work
  <2>1. \A c \in Threads : ~Works(c, h)
    BY DEF Works
  <2>2. AtRest(h) /\ Runs(h) /\ up[h] \subseteq Names
    BY <2>0, <2>1 DEF Idle, Subs, Types, SubTypes
  <2>3. CASE engine[h]
    <3>1. /\ feed[h] = "open" /\ up[h] \ {"bot"} = {"transport", "hub"}
          /\ "bot" \in up[h] \/ h \in returned
      BY <2>2, <2>3, CoreOf DEF AtRest, Runs
    <3>2. ASSUME NEW sub \in Names \ up[h] PROVE sub = "bot" /\ h \in returned
      <4>1. sub = "bot"
        BY <3>1 DEF Names
      <4> QED BY <3>1, <4>1
    <3>3. \A sub \in Names \ up[h] : sub = "bot" /\ h \in returned
      BY <3>2
    <3> QED BY <3>1, <3>3, <2>3
  <2>4. CASE ~engine[h]
    <3>1. feed[h] \in {"none", "gone"} /\ up[h] \ {"bot"} = {}
      BY <2>2, <2>4, CoreOf DEF AtRest, Runs
    <3> QED BY <3>1, <2>4
  <2> QED BY <2>3, <2>4
<1> QED BY <1>1, Invariant, PTL

\* Engine.closeSubsLocked stops in reverse order, and Host.Close waits for its
\* console first: neither the hub nor a console that was not given up lacks it.
THEOREM TransportIsLast == Spec => []TransportGoesLast
<1>1. ASSUME IInv PROVE TransportGoesLast
  <2>0. Types /\ Subs /\ Consoles
    BY <1>1 DEF IInv, Work
  <2>1. ASSUME NEW h \in Hosts, "hub" \in up[h] PROVE "transport" \in up[h]
    <3>1. up[h] \ {"bot"} = Core(started[h])
      BY <2>0 DEF Subs, Runs
    <3>2. Core(started[h]) \in {{}, {"transport"}, {"transport", "hub"}}
      BY DEF Core
    <3> QED BY <2>1, <3>1, <3>2
  <2>2. ASSUME NEW c \in Threads, pc[c] \in Stopping, NEW s \in Sessions, owner[s] = on[c]
        PROVE  session[s] = "ended" \/ s \in lost
    <3>1. done[on[c]] = Nobody /\ on[c] # NoHost /\ s # Nobody
      BY <2>0, <2>2, HostsAssumption, NobodyAssumption DEF Consoles, Leaving, Types, ThreadTypes
    <3>2. session[s] # "none"
      BY <2>0, <2>2, <3>1 DEF Consoles, Owned
    <3> QED BY <2>0, <2>2, <3>1, <3>2 DEF Consoles, Registered
  <2> QED BY <2>1, <2>2 DEF TransportGoesLast
<1> QED BY <1>1, Invariant, PTL

\* Feed.Close: when it has returned the port is free, the accept loop and every
\* goroutine that served a reader have ended, and every connection is closed.
THEOREM FeedLeavesNobody == Spec => []NobodyOutlivesTheFeed
<1>1. ASSUME IInv PROVE NobodyOutlivesTheFeed
  <2>0. FeedInv /\ PortOwned
    BY <1>1 DEF IInv, Work
  <2> SUFFICES ASSUME NEW h \in Hosts, feed[h] = "gone"
               PROVE  /\ accept[h] = "ended" /\ port # h
                      /\ \A r \in Readers : feedOf[r] = h => conn[r] = "closed" /\ server[r] \in {"none", "ended"}
    BY DEF NobodyOutlivesTheFeed
  <2>1. accept[h] = "ended" /\ Served(h) = {} /\ hand[h] = {} /\ h # NoHost
    BY <2>0, HostsAssumption DEF FeedInv, FeedPhase, InHand
  <2>2. port # h
    BY <2>0 DEF PortOwned
  <2>3. ASSUME NEW r \in Readers, feedOf[r] = h
        PROVE  conn[r] = "closed" /\ server[r] \in {"none", "ended"}
    <3>1. server[r] \in {"none", "ended"}
      BY <2>0, <2>1, <2>3 DEF FeedInv, FeedTypeOK, Served
    <3> QED BY <2>0, <2>1, <2>3, <3>1 DEF FeedInv, ReadersKnown
  <2> QED BY <2>1, <2>2, <2>3
<1> QED BY <1>1, Invariant, PTL
=============================================================================
