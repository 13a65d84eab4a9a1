-------------------------- MODULE DirectoryProofs --------------------------
(***************************************************************************)
(* Proofs about Directory, for any nodes, operators, handlers and bounds.  *)
(***************************************************************************)
EXTENDS Directory, FiniteSetTheorems, SequenceTheorems, TLAPS

-----------------------------------------------------------------------------
(***************************************************************************)
(* Saving.  The invariant says nothing of who saves or how often: whoever  *)
(* changes an entry is about to save, and whoever saves last writes the    *)
(* entries as they are then.                                               *)
(***************************************************************************)

Placed == DOMAIN pc = Goroutines

Unreadable == ~file.whole => DOMAIN file.entries = {}

SavedInv == Placed /\ Unreadable /\ SavedWhenQuiet

Saving == {"remember", "save", "writing"}

LEMMA NoneSaved == DOMAIN NoEntries = {}
BY DEF NoEntries

LEMMA SavedInit == Init => SavedInv
BY NoneSaved DEF Init, SavedInv, Placed, Unreadable, SavedWhenQuiet

\* A step that leaves the entries and the file alone, and takes nobody out of
\* a save.
LEMMA NobodySaved ==
  ASSUME SavedInv, Placed', UNCHANGED <<entries, file>>,
         \A g \in Goroutines : pc[g] \in Saving => pc'[g] \in Saving
  PROVE  SavedInv'
BY DEF SavedInv, Placed, Unreadable, SavedWhenQuiet, Quiet, Saving

LEMMA SavedGoroutine ==
  ASSUME SavedInv, NEW g \in Goroutines, GoroutineStep(g)
  PROVE  SavedInv'
<1>1. CASE Remember(g)
  BY <1>1 DEF Remember, Go, SavedInv, Placed, Unreadable, SavedWhenQuiet, Quiet
<1>2. CASE SaveBegins(g)
  BY <1>2, NoneSaved DEF SaveBegins, Go, SavedInv, Placed, Unreadable, SavedWhenQuiet, Quiet
<1>3. CASE SaveEnds(g)
  BY <1>3 DEF SaveEnds, Go, SavedInv, Placed, Unreadable, SavedWhenQuiet
<1>4. CASE Select(g)
  BY <1>4, NobodySaved DEF Select, Go, SavedInv, Placed, Saving, dirVars
<1>5. CASE List(g)
  BY <1>5, NobodySaved DEF List, Go, SavedInv, Placed, Saving, dirVars
<1>6. CASE Push(g)
  BY <1>6, NobodySaved DEF Push, Go, SavedInv, Placed, Saving, dirVars
<1>7. CASE Check(g)
  BY <1>7, NobodySaved DEF Check, Go, SavedInv, Placed, Saving, dirVars
<1>8. CASE Find(g)
  BY <1>8, NobodySaved DEF Find, Go, SavedInv, Placed, Saving, dirVars
<1> QED
  BY <1>1, <1>2, <1>3, <1>4, <1>5, <1>6, <1>7, <1>8 DEF GoroutineStep

LEMMA SavedUser == ASSUME SavedInv, UserStep PROVE SavedInv'
<1>u. "ui" \in Goroutines /\ DOMAIN pc = Goroutines
  BY DEF Goroutines, SavedInv, Placed
<1>1. ASSUME NEW h \in Hashes, Forget(h) PROVE SavedInv'
  <2>1. DOMAIN entries' \subseteq DOMAIN entries /\ \A x \in DOMAIN entries' : entries'[x] = entries[x]
    BY <1>1 DEF Forget, Drop
  <2> QED
    BY <1>1, <2>1 DEF Forget, goVars, SavedInv, Placed, Unreadable, SavedWhenQuiet, Quiet
<1>2. ASSUME NEW h \in Hashes, NEW e \in Entry, SaveEntry(h, e) PROVE SavedInv'
  BY <1>2, <1>u, NobodySaved DEF SaveEntry, Edit, Go, Placed, Saving, dirVars
<1>3. ASSUME NEW h \in Hashes, NEW t \in Trusts, SetTrust(h, t) PROVE SavedInv'
  BY <1>3, <1>u DEF SetTrust, Edit, Go, SavedInv, Placed, Unreadable, SavedWhenQuiet, Quiet
<1>4. ASSUME NEW p \in PNs \cup {NoHash}, SelectPN(p) PROVE SavedInv'
  BY <1>4, <1>u, NobodySaved DEF SelectPN, Edit, Go, Placed, Saving, dirVars
<1>5. ASSUME NEW h \in Hashes, Block(h) PROVE SavedInv'
  BY <1>5, <1>u, NobodySaved DEF Block, Edit, Go, Placed, Saving, dirVars
<1>6. ASSUME NEW h \in Hashes, Unblock(h) PROVE SavedInv'
  BY <1>6, <1>u, NobodySaved DEF Unblock, Edit, Go, Placed, Saving, dirVars
<1>7. ASSUME NEW i \in 1..StreamMax, Move(i) PROVE SavedInv'
  BY <1>7, <1>u, NobodySaved DEF Move, Placed, Saving, dirVars, goVars
<1>8. CASE Refresh
  BY <1>8, <1>u, NobodySaved DEF Refresh, Placed, Saving, dirVars, goVars
<1>9. CASE DeleteRow
  BY <1>9, <1>u, NobodySaved DEF DeleteRow, Placed, Saving, goVars
<1>10. CASE Persist
  BY <1>10, <1>u, NobodySaved DEF Persist, Go, Placed, Saving, dirVars
<1>11. CASE TellRouter
  BY <1>11, <1>u, NobodySaved DEF TellRouter, Go, Placed, Saving, dirVars
<1>12. CASE Shutdown
  BY <1>12, <1>u, NobodySaved DEF Shutdown, Go, Placed, Saving, dirVars
<1> QED
  BY <1>1, <1>2, <1>3, <1>4, <1>5, <1>6, <1>7, <1>8, <1>9, <1>10, <1>11, <1>12 DEF UserStep

LEMMA SavedNext == SavedInv /\ [Next]_vars => SavedInv'
<1> SUFFICES ASSUME SavedInv, [Next]_vars PROVE SavedInv'
  OBVIOUS
<1>i. "init" \in Goroutines /\ DOMAIN pc = Goroutines
  BY DEF Goroutines, SavedInv, Placed
<1>1. CASE Start
  BY <1>1 DEF Start, SavedInv, Placed, Unreadable, SavedWhenQuiet
<1>2. CASE ProcessEnds
  BY <1>2, NoneSaved DEF ProcessEnds, SavedInv, Placed, Unreadable, SavedWhenQuiet
<1>3. CASE SetRouter
  BY <1>3, <1>i, NobodySaved DEF SetRouter, Go, Placed, Saving, dirVars
<1>4. CASE ApplyBegins
  BY <1>4, <1>i, NobodySaved DEF ApplyBegins, Go, Placed, Saving, dirVars
<1>5. CASE Apply
  BY <1>5, <1>i, NobodySaved DEF Apply, Go, Placed, Saving, dirVars
<1>6. CASE UserStep
  BY <1>6, SavedUser
<1>7. ASSUME NEW g \in Goroutines, GoroutineStep(g) PROVE SavedInv'
  BY <1>7, SavedGoroutine
<1>8. ASSUME NEW g \in Handlers, NEW k \in Kinds, NEW src \in Nodes \cup PNs, Announce(g, k, src)
      PROVE  SavedInv'
  BY <1>8, <1>i, NobodySaved DEF Announce, Go, Placed, Saving, Goroutines
<1>9. CASE UNCHANGED vars
  BY <1>9, <1>i, NobodySaved DEF vars, dirVars, goVars, Placed, Saving
<1> QED
  BY <1>1, <1>2, <1>3, <1>4, <1>5, <1>6, <1>7, <1>8, <1>9 DEF Next

(***************************************************************************)
(* The file holds every entry whenever nobody is about to save (Remember,  *)
(* SaveToDisk), for any number of goroutines that remember at once.        *)
(***************************************************************************)
THEOREM SavedHolds == Spec => []SavedWhenQuiet
<1>1. Spec => []SavedInv
  BY SavedInit, SavedNext, PTL DEF Spec
<1>2. SavedInv => SavedWhenQuiet
  BY DEF SavedInv
<1> QED
  BY <1>1, <1>2, PTL

-----------------------------------------------------------------------------
(***************************************************************************)
(* The router's copy of the ignored list.  What is in neither is pending:  *)
(* the user interface is about to tell the router, or initRNS has yet to   *)
(* hand it over.                                                           *)
(***************************************************************************)

Telling == {"persist", "ignore", "unignore"}
Pending == IF pc["ui"] \in Telling THEN {arg["ui"].hash} ELSE {}
Before  == {"none", "router"}
After   == {"select", "list", "push", "ended"}

UIArg == /\ DOMAIN arg = Goroutines
         /\ DOMAIN arg["ui"] = {"hash", "entry", "then"}
         /\ arg["ui"].then \in {"idle", "select", "ended"}

Asked == /\ pc["ui"] = "ignore" => arg["ui"].hash \in ignored
         /\ pc["ui"] = "unignore" => arg["ui"].hash \notin ignored

InitAt == /\ pc["init"] \in Before \cup {"apply", "applying"} \cup After
          /\ ~up => pc["init"] = "none"

NotBegun == pc["init"] \in Before => router = FALSE /\ routerIgnored = {} /\ disturbed = FALSE

Scanned == /\ disturbed \in BOOLEAN
           /\ pc["init"] # "applying" => scan = {}
           /\ pc["init"] = "apply" => disturbed = FALSE
           /\ disturbed = FALSE => scan \subseteq ignored

Told ==
  pc["init"] \notin Before =>
    /\ router
    /\ disturbed = FALSE =>
         /\ pc["init"] # "apply" => ignored \subseteq routerIgnored \cup scan \cup Pending
         /\ routerIgnored \subseteq ignored \cup Pending

RouterInv == Placed /\ UIArg /\ Asked /\ InitAt /\ NotBegun /\ Scanned /\ Told

LEMMA RouterInit == Init => RouterInv
<1> SUFFICES ASSUME Init PROVE RouterInv
  OBVIOUS
<1>1. /\ pc = [g \in Goroutines |-> "none"] /\ arg = [g \in Goroutines |-> Nothing]
      /\ ignored = {} /\ router = FALSE /\ routerIgnored = {} /\ scan = {} /\ disturbed = FALSE
  BY DEF Init
<1>2. Placed /\ pc["ui"] = "none" /\ pc["init"] = "none"
  BY <1>1 DEF Placed, Goroutines
<1>3. UIArg
  BY <1>1 DEF UIArg, Goroutines, Nothing
<1>4. Asked /\ InitAt /\ NotBegun
  BY <1>1, <1>2 DEF Asked, InitAt, Before, NotBegun
<1>5. Scanned /\ Told
  BY <1>1, <1>2 DEF Scanned, Told, Before
<1> QED
  BY <1>2, <1>3, <1>4, <1>5 DEF RouterInv

\* A step about something else.
LEMMA NobodyTold ==
  ASSUME RouterInv, Placed', UIArg', UNCHANGED <<up, blockVars>>,
         pc'["init"] = pc["init"] \/ (pc["init"] \in After /\ pc'["init"] \in After),
         pc["ui"] \in Telling \/ pc'["ui"] \in Telling
           => pc'["ui"] = pc["ui"] /\ arg'["ui"] = arg["ui"]
  PROVE  RouterInv'
<1>1. Pending' = Pending /\ Asked'
  BY DEF RouterInv, Pending, Asked, Telling, blockVars
<1>2. InitAt' /\ (pc'["init"] \in Before <=> pc["init"] \in Before)
      /\ (pc'["init"] = "apply" <=> pc["init"] = "apply")
      /\ (pc'["init"] = "applying" <=> pc["init"] = "applying")
  BY DEF RouterInv, InitAt, Before, After
<1>3. NotBegun' /\ Scanned'
  BY <1>2 DEF RouterInv, NotBegun, Scanned, blockVars
<1>4. Told'
  BY <1>1, <1>2 DEF RouterInv, Told, blockVars
<1> QED
  BY <1>1, <1>2, <1>3, <1>4 DEF RouterInv

\* A goroutine goes on with something else.
LEMMA GoesOn ==
  ASSUME RouterInv, NEW g \in Goroutines, NEW place, pc' = [pc EXCEPT ![g] = place],
         pc[g] \notin Telling, place \notin Telling,
         g = "init" => pc[g] \in After /\ place \in After,
         arg'["ui"] = arg["ui"] \/ g = "ui", UIArg', UNCHANGED <<up, blockVars>>
  PROVE  RouterInv'
<1>1. DOMAIN pc = Goroutines /\ "ui" \in Goroutines /\ "init" \in Goroutines
  BY DEF RouterInv, Placed, Goroutines
<1>2. Placed' /\ pc'[g] = place /\ \A k \in Goroutines \ {g} : pc'[k] = pc[k]
  BY <1>1 DEF Placed
<1>3. pc'["init"] = pc["init"] \/ (pc["init"] \in After /\ pc'["init"] \in After)
  <2>1. CASE g = "init"
    <3>1. pc["init"] \in After /\ place \in After
      BY <2>1
    <3>2. pc'["init"] = place
      BY <1>2, <2>1
    <3> QED
      BY <3>1, <3>2
  <2>2. CASE g # "init"
    BY <1>1, <1>2, <2>2
  <2> QED
    BY <2>1, <2>2
<1>4. pc["ui"] \in Telling \/ pc'["ui"] \in Telling
        => pc'["ui"] = pc["ui"] /\ arg'["ui"] = arg["ui"]
  BY <1>1, <1>2
<1> QED
  BY <1>2, <1>3, <1>4, NobodyTold

LEMMA RouterGoroutine ==
  ASSUME RouterInv, NEW g \in Goroutines, GoroutineStep(g)
  PROVE  RouterInv'
<1>g. "ui" \in Goroutines /\ "init" \in Goroutines /\ DOMAIN pc = Goroutines /\ DOMAIN arg = Goroutines
  BY DEF Goroutines, RouterInv, Placed, UIArg
<1>p. g = "init" => pc[g] \in Before \cup {"apply", "applying"} \cup After
  BY DEF RouterInv, InitAt
<1>1. CASE Remember(g)
  <2>1. pc' = [pc EXCEPT ![g] = "save"] /\ pc[g] = "remember" /\ UNCHANGED <<up, blockVars, arg>>
    BY <1>1 DEF Remember, Go
  <2>2. g # "init" /\ UIArg'
    BY <2>1, <1>p DEF Before, After, RouterInv, UIArg
  <2> QED
    BY <2>1, <2>2, GoesOn DEF Telling
<1>2. CASE SaveBegins(g)
  <2>1. pc' = [pc EXCEPT ![g] = "writing"] /\ pc[g] = "save" /\ UNCHANGED <<up, blockVars, arg>>
    BY <1>2 DEF SaveBegins, Go
  <2>2. g # "init" /\ UIArg'
    BY <2>1, <1>p DEF Before, After, RouterInv, UIArg
  <2> QED
    BY <2>1, <2>2, GoesOn DEF Telling
<1>3. CASE SaveEnds(g)
  <2>1. pc' = [pc EXCEPT ![g] = arg[g].then] /\ pc[g] = "writing" /\ UNCHANGED <<up, blockVars, arg>>
    BY <1>3 DEF SaveEnds, Go
  <2>2. g # "init" /\ UIArg' /\ (g = "ui" => arg[g].then \notin Telling)
    BY <2>1, <1>p DEF Before, After, RouterInv, UIArg, Telling
  <2>3. CASE g = "ui"
    BY <2>1, <2>2, <2>3, GoesOn DEF Telling
  <2>4. CASE g # "ui"
    <3>1. pc'["init"] = pc["init"] /\ pc'["ui"] = pc["ui"] /\ Placed'
      BY <2>1, <2>2, <2>4, <1>g DEF Placed
    <3>2. UNCHANGED <<up, blockVars>> /\ arg'["ui"] = arg["ui"] /\ UIArg'
      BY <2>1, <2>2
    <3> QED
      BY <3>1, <3>2, NobodyTold
  <2> QED
    BY <2>3, <2>4
<1>4. CASE Select(g)
  <2>1. PICK place \in {"push", "list"} : pc' = [pc EXCEPT ![g] = place]
    BY <1>4 DEF Select, Go
  <2>2. /\ pc[g] = "select" /\ UNCHANGED <<up, blockVars>>
        /\ UNCHANGED arg \/ arg' = [arg EXCEPT ![g].hash = selected]
    BY <1>4 DEF Select
  <2>3. UIArg' /\ (arg'["ui"] = arg["ui"] \/ g = "ui")
    BY <2>2, <1>g DEF RouterInv, UIArg
  <2>4. place \notin Telling /\ (g = "init" => pc[g] \in After /\ place \in After)
    BY <2>1, <2>2, <1>p DEF Before, After, Idle, Telling
  <2> QED
    BY <2>1, <2>2, <2>3, <2>4, GoesOn DEF Telling
<1>5. CASE List(g)
  <2>1. PICK place \in {"push", Idle(g)} : pc' = [pc EXCEPT ![g] = place]
    BY <1>5 DEF List, Go
  <2>2. /\ pc[g] = "list" /\ UNCHANGED <<up, blockVars>>
        /\ UNCHANGED arg \/ \E n \in Nodes : arg' = [arg EXCEPT ![g].hash = n]
    BY <1>5 DEF List
  <2>3. UIArg' /\ (arg'["ui"] = arg["ui"] \/ g = "ui")
    BY <2>2, <1>g DEF RouterInv, UIArg
  <2>4. place \notin Telling /\ (g = "init" => pc[g] \in After /\ place \in After)
    BY <2>1, <2>2, <1>p DEF Before, After, Idle, Telling
  <2> QED
    BY <2>1, <2>2, <2>3, <2>4, GoesOn DEF Telling
<1>6. CASE Push(g)
  <2>1. PICK place \in {Idle(g)} : pc' = [pc EXCEPT ![g] = place]
    BY <1>6 DEF Push, Go
  <2>2. /\ pc[g] = "push" /\ UNCHANGED <<up, blockVars>>
        /\ UNCHANGED arg
    BY <1>6 DEF Push
  <2>3. UIArg' /\ (arg'["ui"] = arg["ui"] \/ g = "ui")
    BY <2>2, <1>g DEF RouterInv, UIArg
  <2>4. place \notin Telling /\ (g = "init" => pc[g] \in After /\ place \in After)
    BY <2>1, <2>2, <1>p DEF Before, After, Idle, Telling
  <2> QED
    BY <2>1, <2>2, <2>3, <2>4, GoesOn DEF Telling
<1>7. CASE Check(g)
  <2>1. PICK place \in {"find", "idle"} : pc' = [pc EXCEPT ![g] = place]
    BY <1>7 DEF Check, Go
  <2>2. /\ pc[g] = "check" /\ UNCHANGED <<up, blockVars>>
        /\ UNCHANGED arg
    BY <1>7 DEF Check
  <2>3. UIArg' /\ (arg'["ui"] = arg["ui"] \/ g = "ui")
    BY <2>2, <1>g DEF RouterInv, UIArg
  <2>4. place \notin Telling /\ (g = "init" => pc[g] \in After /\ place \in After)
    BY <2>1, <2>2, <1>p DEF Before, After, Idle, Telling
  <2> QED
    BY <2>1, <2>2, <2>3, <2>4, GoesOn DEF Telling
<1>8. CASE Find(g)
  <2>1. PICK place \in {"idle", "remember"} : pc' = [pc EXCEPT ![g] = place]
    BY <1>8 DEF Find, Go
  <2>2. /\ pc[g] = "find" /\ UNCHANGED <<up, blockVars>>
        /\ UNCHANGED arg \/ arg' = [arg EXCEPT ![g].entry = [trust |-> "trusted", hosts |-> TRUE]]
    BY <1>8 DEF Find
  <2>3. UIArg' /\ (arg'["ui"] = arg["ui"] \/ g = "ui")
    BY <2>2, <1>g DEF RouterInv, UIArg
  <2>4. place \notin Telling /\ (g = "init" => pc[g] \in After /\ place \in After)
    BY <2>1, <2>2, <1>p DEF Before, After, Idle, Telling
  <2> QED
    BY <2>1, <2>2, <2>3, <2>4, GoesOn DEF Telling
<1> QED
  BY <1>1, <1>2, <1>3, <1>4, <1>5, <1>6, <1>7, <1>8 DEF GoroutineStep

\* The user blocks: the hash is pending until the router is told.
LEMMA RouterBlock ==
  ASSUME RouterInv, NEW h \in Hashes, Block(h)
  PROVE  RouterInv'
<1>g. "ui" \in Goroutines /\ "init" \in Goroutines /\ DOMAIN pc = Goroutines /\ DOMAIN arg = Goroutines
  BY DEF Goroutines, RouterInv, Placed, UIArg
<1>1. /\ pc["ui"] = "idle" /\ UNCHANGED <<up, router, routerIgnored, scan, disturbed>>
      /\ ignored' = ignored \cup {h}
      /\ arg' = [arg EXCEPT !["ui"] = [Nothing EXCEPT !.hash = h]]
  BY DEF Block, Edit
<1>2. PICK place \in {"ignore", "persist"} : pc' = [pc EXCEPT !["ui"] = place]
  BY DEF Block, Go
<1>3. Placed' /\ pc'["ui"] = place /\ pc'["init"] = pc["init"]
  BY <1>2, <1>g DEF Placed
<1>4. UIArg' /\ arg'["ui"].hash = h
  BY <1>1, <1>g DEF UIArg, Nothing
<1>5. Asked'
  BY <1>1, <1>2, <1>3, <1>4 DEF Asked
<1>6. InitAt' /\ NotBegun' /\ Scanned'
  BY <1>1, <1>3 DEF RouterInv, InitAt, NotBegun, Scanned
<1>7. Pending = {} /\ Pending' = {h}
  BY <1>1, <1>2, <1>3, <1>4 DEF Pending, Telling
<1>8. Told'
  BY <1>1, <1>3, <1>7 DEF RouterInv, Told
<1> QED
  BY <1>3, <1>4, <1>5, <1>6, <1>8 DEF RouterInv

LEMMA RouterUnblock ==
  ASSUME RouterInv, NEW h \in Hashes, Unblock(h)
  PROVE  RouterInv'
<1>g. "ui" \in Goroutines /\ "init" \in Goroutines /\ DOMAIN pc = Goroutines /\ DOMAIN arg = Goroutines
  BY DEF Goroutines, RouterInv, Placed, UIArg
<1>1. /\ pc["ui"] = "idle" /\ UNCHANGED <<up, router, routerIgnored>>
      /\ ignored' = ignored \ {h} /\ scan' \subseteq scan
      /\ arg' = [arg EXCEPT !["ui"] = [Nothing EXCEPT !.hash = h]]
      /\ pc' = [pc EXCEPT !["ui"] = "persist"]
  BY DEF Unblock, Edit, Go
<1>2. disturbed' = (disturbed \/ pc["init"] = "applying")
  BY DEF Unblock
<1>3. Placed' /\ pc'["ui"] = "persist" /\ pc'["init"] = pc["init"]
  BY <1>1, <1>g DEF Placed
<1>4. UIArg' /\ arg'["ui"].hash = h
  BY <1>1, <1>g DEF UIArg, Nothing
<1>5. Asked' /\ InitAt'
  BY <1>1, <1>3 DEF RouterInv, Asked, InitAt
<1>5b. disturbed' \in BOOLEAN /\ (pc["init"] # "applying" /\ disturbed = FALSE => disturbed' = FALSE)
  BY <1>2
<1>6. disturbed' = FALSE => disturbed = FALSE /\ pc["init"] # "applying"
  <2>1. disturbed \in BOOLEAN
    BY DEF RouterInv, Scanned
  <2> QED
    BY <1>2, <2>1, Zenon
<1>7. NotBegun' /\ Scanned'
  BY <1>1, <1>3, <1>5b, <1>6 DEF RouterInv, NotBegun, Scanned, Before
<1>8. Pending = {} /\ Pending' = {h}
  BY <1>1, <1>3, <1>4 DEF Pending, Telling
<1>9. Told'
  BY <1>1, <1>3, <1>6, <1>8 DEF RouterInv, Told, Scanned
<1> QED
  BY <1>3, <1>4, <1>5, <1>7, <1>9 DEF RouterInv

LEMMA RouterPersist ==
  ASSUME RouterInv, Persist
  PROVE  RouterInv'
<1>g. "ui" \in Goroutines /\ "init" \in Goroutines /\ DOMAIN pc = Goroutines
  BY DEF Goroutines, RouterInv, Placed
<1>1. /\ pc["ui"] = "persist" /\ UNCHANGED <<up, arg, ignored, router, routerIgnored, scan, disturbed>>
      /\ pc' = [pc EXCEPT !["ui"] = IF arg["ui"].hash \in ignored THEN "ignore" ELSE "unignore"]
  BY DEF Persist, Go
<1>3. /\ Placed' /\ pc'["init"] = pc["init"]
      /\ pc'["ui"] = IF arg["ui"].hash \in ignored THEN "ignore" ELSE "unignore"
  BY <1>1, <1>g DEF Placed
<1>4. UIArg' /\ Asked' /\ Pending' = Pending
  BY <1>1, <1>3 DEF RouterInv, UIArg, Asked, Pending, Telling
<1>5. InitAt' /\ NotBegun' /\ Scanned' /\ Told'
  BY <1>1, <1>3, <1>4 DEF RouterInv, InitAt, NotBegun, Scanned, Told
<1> QED
  BY <1>3, <1>4, <1>5 DEF RouterInv

LEMMA RouterTell ==
  ASSUME RouterInv, TellRouter
  PROVE  RouterInv'
<1>g. "ui" \in Goroutines /\ "init" \in Goroutines /\ DOMAIN pc = Goroutines
  BY DEF Goroutines, RouterInv, Placed
<1>1. /\ pc["ui"] \in {"ignore", "unignore"} /\ UNCHANGED <<up, arg, ignored, router, scan, disturbed>>
      /\ pc' = [pc EXCEPT !["ui"] = "idle"]
  BY DEF TellRouter, Go
<1>2. /\ pc["ui"] = "ignore" =>
           routerIgnored' = IF router THEN routerIgnored \cup {arg["ui"].hash} ELSE routerIgnored
      /\ pc["ui"] = "unignore" =>
           routerIgnored' = IF router THEN routerIgnored \ {arg["ui"].hash} ELSE routerIgnored
  BY DEF TellRouter
<1>3. Placed' /\ pc'["init"] = pc["init"] /\ pc'["ui"] = "idle"
  BY <1>1, <1>g DEF Placed
<1>4. UIArg' /\ Asked' /\ Pending' = {} /\ Pending = {arg["ui"].hash}
  BY <1>1, <1>3 DEF RouterInv, UIArg, Asked, Pending, Telling
<1>5. InitAt' /\ Scanned'
  BY <1>1, <1>3 DEF RouterInv, InitAt, Scanned
<1>6. NotBegun'
  BY <1>1, <1>2, <1>3 DEF RouterInv, NotBegun
<1>7. Told'
  BY <1>1, <1>2, <1>3, <1>4 DEF RouterInv, Told, Asked
<1> QED
  BY <1>3, <1>4, <1>5, <1>6, <1>7 DEF RouterInv

LEMMA RouterStart ==
  ASSUME RouterInv, Start
  PROVE  RouterInv'
<1>1. /\ ~up /\ up' = TRUE
      /\ pc' = [g \in Goroutines |-> IF g = "init" THEN "router" ELSE "idle"]
      /\ UNCHANGED <<router, routerIgnored, scan, disturbed, arg>>
  BY DEF Start
<1>2. pc["init"] = "none"
  BY <1>1 DEF RouterInv, InitAt
<1>3. Placed' /\ pc'["init"] = "router" /\ pc'["ui"] = "idle"
  BY <1>1 DEF Placed, Goroutines
<1>4. UIArg' /\ Asked' /\ InitAt'
  BY <1>1, <1>3 DEF RouterInv, UIArg, Asked, InitAt, Before
<1>5. NotBegun' /\ Scanned' /\ Told'
  BY <1>1, <1>2, <1>3 DEF RouterInv, NotBegun, Scanned, Told, Before
<1> QED
  BY <1>3, <1>4, <1>5 DEF RouterInv

LEMMA RouterSet ==
  ASSUME RouterInv, SetRouter
  PROVE  RouterInv'
<1>g. "ui" \in Goroutines /\ "init" \in Goroutines /\ DOMAIN pc = Goroutines
  BY DEF Goroutines, RouterInv, Placed
<1>1. /\ pc["init"] = "router" /\ pc' = [pc EXCEPT !["init"] = "apply"] /\ router' = TRUE
      /\ UNCHANGED <<up, arg, ignored, routerIgnored, scan, disturbed>>
  BY DEF SetRouter, Go
<1>3. Placed' /\ pc'["init"] = "apply" /\ pc'["ui"] = pc["ui"]
  BY <1>1, <1>g DEF Placed
<1>4. UIArg' /\ Asked' /\ InitAt' /\ Pending' = Pending
  BY <1>1, <1>3 DEF RouterInv, UIArg, Asked, InitAt, Pending
<1>5. NotBegun' /\ Scanned' /\ Told'
  BY <1>1, <1>3 DEF RouterInv, NotBegun, Scanned, Told, Before
<1> QED
  BY <1>3, <1>4, <1>5 DEF RouterInv

LEMMA RouterApplyBegins ==
  ASSUME RouterInv, ApplyBegins
  PROVE  RouterInv'
<1>g. "ui" \in Goroutines /\ "init" \in Goroutines /\ DOMAIN pc = Goroutines
  BY DEF Goroutines, RouterInv, Placed
<1>1. /\ pc["init"] = "apply" /\ pc' = [pc EXCEPT !["init"] = "applying"] /\ scan' = ignored
      /\ UNCHANGED <<up, arg, ignored, routerIgnored, router, disturbed>>
  BY DEF ApplyBegins, Go
<1>3. Placed' /\ pc'["init"] = "applying" /\ pc'["ui"] = pc["ui"]
  BY <1>1, <1>g DEF Placed
<1>4. UIArg' /\ Asked' /\ InitAt' /\ Pending' = Pending
  BY <1>1, <1>3 DEF RouterInv, UIArg, Asked, InitAt, Pending
<1>5. NotBegun' /\ Scanned' /\ Told'
  BY <1>1, <1>3, <1>4 DEF RouterInv, NotBegun, Scanned, Told, Before
<1> QED
  BY <1>3, <1>4, <1>5 DEF RouterInv

LEMMA RouterApply ==
  ASSUME RouterInv, Apply
  PROVE  RouterInv'
<1>g. "ui" \in Goroutines /\ "init" \in Goroutines /\ DOMAIN pc = Goroutines
  BY DEF Goroutines, RouterInv, Placed
<1>0. pc["init"] = "applying" /\ UNCHANGED <<up, arg, ignored, router, disturbed>>
  BY DEF Apply
<1>1. CASE \E n \in scan : /\ routerIgnored' = routerIgnored \cup {n} /\ scan' = scan \ {n}
                         /\ UNCHANGED pc
  <2>1. PICK n \in scan : routerIgnored' = routerIgnored \cup {n} /\ scan' = scan \ {n} /\ UNCHANGED pc
    BY <1>1
  <2>2. Placed' /\ UIArg' /\ Asked' /\ InitAt' /\ NotBegun' /\ Pending' = Pending
    BY <1>0, <2>1 DEF RouterInv, Placed, UIArg, Asked, InitAt, NotBegun, Before, Pending
  <2>3. Scanned' /\ Told'
    BY <1>0, <2>1, <2>2 DEF RouterInv, Scanned, Told
  <2> QED
    BY <2>2, <2>3 DEF RouterInv
<1>2. CASE scan = {} /\ Go("init", "select") /\ UNCHANGED <<routerIgnored, scan>>
  <2>1. Placed' /\ pc'["init"] = "select" /\ pc'["ui"] = pc["ui"]
    BY <1>2, <1>g DEF Placed, Go, RouterInv
  <2>2. UIArg' /\ Asked' /\ InitAt' /\ NotBegun' /\ Pending' = Pending
    BY <1>0, <1>2, <2>1 DEF RouterInv, UIArg, Asked, InitAt, After, NotBegun, Before, Pending
  <2>3. Scanned' /\ Told'
    BY <1>0, <1>2, <2>1, <2>2 DEF RouterInv, Scanned, Told, Before
  <2> QED
    BY <2>1, <2>2, <2>3 DEF RouterInv
<1> QED
  BY <1>1, <1>2 DEF Apply

LEMMA RouterUser ==
  ASSUME RouterInv, UserStep
  PROVE  RouterInv'
<1>g. "ui" \in Goroutines /\ "init" \in Goroutines /\ DOMAIN pc = Goroutines /\ DOMAIN arg = Goroutines
  BY DEF Goroutines, RouterInv, Placed, UIArg
<1>a. DOMAIN arg["ui"] = {"hash", "entry", "then"} /\ arg["ui"].then \in {"idle", "select", "ended"}
  BY DEF RouterInv, UIArg
<1>n. DOMAIN Nothing = {"hash", "entry", "then"} /\ Nothing.then = "idle"
  BY DEF Nothing
<1>1. ASSUME NEW h \in Hashes, Forget(h) PROVE RouterInv'
  <2>1. UNCHANGED <<up, blockVars, pc, arg>>
    BY <1>1 DEF Forget, goVars
  <2> QED
    BY <2>1, NobodyTold DEF RouterInv, Placed, UIArg
<1>2. ASSUME NEW h \in Hashes, NEW e \in Entry, SaveEntry(h, e) PROVE RouterInv'
  <2>1. /\ pc["ui"] = "idle" /\ pc' = [pc EXCEPT !["ui"] = "remember"] /\ UNCHANGED <<up, blockVars>>
        /\ arg' = [arg EXCEPT !["ui"] = [hash |-> h, entry |-> e,
                                        then |-> IF e.trust = "trusted" THEN "select" ELSE "idle"]]
    BY <1>2 DEF SaveEntry, Edit, Go
  <2>2. UIArg'
    BY <2>1, <1>g DEF UIArg
  <2> QED
    BY <2>1, <2>2, <1>g, GoesOn DEF Telling
<1>3. ASSUME NEW h \in Hashes, NEW t \in Trusts, SetTrust(h, t) PROVE RouterInv'
  <2>1. /\ pc["ui"] = "idle" /\ pc' = [pc EXCEPT !["ui"] = "remember"] /\ UNCHANGED <<up, blockVars>>
        /\ \E e : arg' = [arg EXCEPT !["ui"] = [hash |-> h, entry |-> e, then |-> "idle"]]
    BY <1>3 DEF SetTrust, Edit, Go
  <2>2. UIArg'
    BY <2>1, <1>g DEF UIArg
  <2> QED
    BY <2>1, <2>2, <1>g, GoesOn DEF Telling
<1>4. ASSUME NEW p \in PNs \cup {NoHash}, SelectPN(p) PROVE RouterInv'
  <2>1. pc["ui"] = "idle" /\ pc' = [pc EXCEPT !["ui"] = "select"] /\ UNCHANGED <<up, blockVars, arg>>
    BY <1>4 DEF SelectPN, Edit, Go
  <2>2. UIArg'
    BY <2>1 DEF RouterInv, UIArg
  <2> QED
    BY <2>1, <2>2, <1>g, GoesOn DEF Telling
<1>5. ASSUME NEW i \in 1..StreamMax, Move(i) PROVE RouterInv'
  <2>1. UNCHANGED <<up, blockVars, pc, arg>>
    BY <1>5 DEF Move, goVars
  <2> QED
    BY <2>1, NobodyTold DEF RouterInv, Placed, UIArg
<1>6. CASE Refresh
  <2>1. UNCHANGED <<up, blockVars, pc, arg>>
    BY <1>6 DEF Refresh, goVars
  <2> QED
    BY <2>1, NobodyTold DEF RouterInv, Placed, UIArg
<1>7. CASE DeleteRow
  <2>1. UNCHANGED <<up, blockVars, pc, arg>>
    BY <1>7 DEF DeleteRow, goVars
  <2> QED
    BY <2>1, NobodyTold DEF RouterInv, Placed, UIArg
<1>8. CASE Shutdown
  <2>1. /\ pc["ui"] = "idle" /\ pc' = [pc EXCEPT !["ui"] = "save"] /\ UNCHANGED <<up, blockVars>>
        /\ arg' = [arg EXCEPT !["ui"] = [Nothing EXCEPT !.then = "ended"]]
    BY <1>8 DEF Shutdown, Go
  <2>2. UIArg'
    BY <2>1, <1>g, <1>n DEF UIArg
  <2> QED
    BY <2>1, <2>2, <1>g, GoesOn DEF Telling
<1>9. ASSUME NEW h \in Hashes, Block(h) PROVE RouterInv'
  BY <1>9, RouterBlock
<1>10. ASSUME NEW h \in Hashes, Unblock(h) PROVE RouterInv'
  BY <1>10, RouterUnblock
<1>11. CASE Persist
  BY <1>11, RouterPersist
<1>12. CASE TellRouter
  BY <1>12, RouterTell
<1> QED
  BY <1>1, <1>2, <1>3, <1>4, <1>5, <1>6, <1>7, <1>8, <1>9, <1>10, <1>11, <1>12 DEF UserStep

LEMMA RouterNext == RouterInv /\ [Next]_vars => RouterInv'
<1> SUFFICES ASSUME RouterInv, [Next]_vars PROVE RouterInv'
  OBVIOUS
<1>g. "ui" \in Goroutines /\ "init" \in Goroutines /\ DOMAIN pc = Goroutines /\ DOMAIN arg = Goroutines
  BY DEF Goroutines, RouterInv, Placed, UIArg
<1>1. CASE Start
  BY <1>1, RouterStart
<1>2. CASE ProcessEnds
  BY <1>2 DEF ProcessEnds, RouterInv, Placed, UIArg, Asked, InitAt, NotBegun, Scanned, Told, Pending,
              Before, After, Telling, Goroutines, Nothing
<1>3. CASE SetRouter
  BY <1>3, RouterSet
<1>4. CASE ApplyBegins
  BY <1>4, RouterApplyBegins
<1>5. CASE Apply
  BY <1>5, RouterApply
<1>6. CASE UserStep
  BY <1>6, RouterUser
<1>7. ASSUME NEW g \in Goroutines, GoroutineStep(g) PROVE RouterInv'
  BY <1>7, RouterGoroutine
<1>8. ASSUME NEW g \in Handlers, NEW k \in Kinds, NEW src \in Nodes \cup PNs, Announce(g, k, src)
      PROVE  RouterInv'
  <2>1. /\ g # "ui" /\ g # "init" /\ g \in Goroutines /\ pc[g] = "idle"
        /\ UNCHANGED <<up, blockVars>>
        /\ arg' = [arg EXCEPT ![g] = [Nothing EXCEPT !.hash = src]]
    BY <1>8, HandlersAssumption DEF Announce, Goroutines
  <2>2. PICK place \in {"check", "select"} : pc' = [pc EXCEPT ![g] = place]
    BY <1>8 DEF Announce, Go
  <2>3. arg'["ui"] = arg["ui"] /\ UIArg'
    BY <2>1, <1>g DEF RouterInv, UIArg
  <2> QED
    BY <2>1, <2>2, <2>3, GoesOn DEF Telling
<1>9. CASE UNCHANGED vars
  BY <1>9, NobodyTold DEF vars, goVars, RouterInv, Placed, UIArg
<1> QED
  BY <1>1, <1>2, <1>3, <1>4, <1>5, <1>6, <1>7, <1>8, <1>9 DEF Next

(***************************************************************************)
(* The router ignores what the list says when both the user interface and  *)
(* initRNS are done (BlockDestination, UnblockDestination,                 *)
(* applyIgnoredDestinations), whatever the order of their steps.           *)
(***************************************************************************)
THEOREM RouterHolds == Spec => []RouterIgnoresTheList
<1>1. Spec => []RouterInv
  BY RouterInit, RouterNext, PTL DEF Spec
<1>2. RouterInv => RouterIgnoresTheList
  BY DEF RouterInv, RouterIgnoresTheList, Told, Scanned, Pending, Telling, Before
<1> QED
  BY <1>1, <1>2, PTL

-----------------------------------------------------------------------------
(***************************************************************************)
(* Keep.  The ranks of the places kept are 1 to their number, each once,   *)
(* and in the order of the places, so each of these is kept.               *)
(***************************************************************************)

LEMMA RankBounds ==
  ASSUME NEW n \in Nat, NEW I \in SUBSET (1..n)
  PROVE  /\ IsFiniteSet(I)
         /\ Cardinality(I) \in 0..n
         /\ \A i \in I : Rank(I, i) \in 1..Cardinality(I) /\ Rank(I, i) <= i
<1>1. IsFiniteSet(1..n) /\ Cardinality(1..n) = n
  BY FS_Interval
<1>2. IsFiniteSet(I) /\ Cardinality(I) <= n /\ Cardinality(I) \in Nat
  BY <1>1, FS_Subset, FS_CardinalityType
<1>3. ASSUME NEW i \in I
      PROVE  Rank(I, i) \in 1..Cardinality(I) /\ Rank(I, i) <= i
  <2> DEFINE J == {j \in I : j <= i}
  <2>a. i \in Nat /\ \A x \in I : x \in Nat /\ x >= 1
    OBVIOUS
  <2>b. i \in J /\ J \in SUBSET I
    BY <2>a
  <2>c. \A x \in J : x \in 1..i
    BY <2>a
  <2>1. J \in SUBSET I /\ J \in SUBSET (1..i) /\ i \in J
    BY <2>b, <2>c
  <2>2. IsFiniteSet(J) /\ Cardinality(J) <= Cardinality(I) /\ Cardinality(J) \in Nat
    BY <1>2, <2>1, FS_Subset, FS_CardinalityType
  <2>3. IsFiniteSet(1..i) /\ Cardinality(1..i) = i
    BY FS_Interval
  <2>4. Cardinality(J) <= i
    BY <2>1, <2>3, FS_Subset
  <2>5. Cardinality(J) # 0
    BY <2>1, <2>2, FS_EmptySet
  <2> QED
    BY <1>2, <2>2, <2>4, <2>5 DEF Rank
<1> QED
  BY <1>2, <1>3

LEMMA RankGrows ==
  ASSUME NEW n \in Nat, NEW I \in SUBSET (1..n), NEW i \in I, NEW j \in I, i < j
  PROVE  Rank(I, i) < Rank(I, j)
<1> DEFINE A == {x \in I : x <= i}
           B == {x \in I : x <= j}
<1>1. IsFiniteSet(B) /\ Cardinality(B) \in Nat
  <2>1. B \in SUBSET I
    OBVIOUS
  <2> QED
    BY <2>1, RankBounds, FS_Subset, FS_CardinalityType
<1>2. A \in SUBSET B /\ A # B
  <2>1. i \in Nat /\ j \in Nat /\ \A x \in I : x \in Nat
    OBVIOUS
  <2>2. j \in B /\ j \notin A
    BY <2>1
  <2>3. \A x \in A : x \in B
    BY <2>1
  <2> QED
    BY <2>2, <2>3
<1>3. IsFiniteSet(A) /\ Cardinality(A) <= Cardinality(B) /\ Cardinality(A) # Cardinality(B)
  BY <1>1, <1>2, FS_Subset
<1>4. Cardinality(A) \in Nat
  BY <1>3, FS_CardinalityType
<1> QED
  BY <1>1, <1>3, <1>4 DEF Rank

LEMMA RankOnce ==
  ASSUME NEW n \in Nat, NEW I \in SUBSET (1..n), NEW i \in I, NEW j \in I, Rank(I, i) = Rank(I, j)
  PROVE  i = j
<1>1. Rank(I, i) \in Nat /\ i \in Nat /\ j \in Nat
  BY RankBounds
<1>2. ~(i < j)
  BY <1>1, RankGrows
<1>3. ~(j < i)
  BY <1>1, RankGrows
<1> QED
  BY <1>1, <1>2, <1>3

LEMMA RankOnto ==
  ASSUME NEW n \in Nat, NEW I \in SUBSET (1..n), NEW k \in 1..Cardinality(I)
  PROVE  \E i \in I : Rank(I, i) = k
<1> DEFINE f == [i \in I |-> Rank(I, i)]
           T == 1..Cardinality(I)
<1>1. f \in [I -> T]
  BY RankBounds
<1>2. IsInjective(f)
  BY RankOnce DEF IsInjective
<1>3. f \in Injection(I, T)
  BY <1>1, <1>2 DEF Injection
<1>4. IsFiniteSet(T) /\ Cardinality(T) = Cardinality(I)
  <2>1. Cardinality(I) \in Nat
    BY RankBounds
  <2> QED
    BY <2>1, FS_Interval
<1>5. f \in Surjection(I, T)
  BY <1>3, <1>4, FS_Injection
<1> QED
  BY <1>5 DEF Surjection

\* A sequence of what is in s, no longer than s; what is kept has moved to its rank.
LEMMA KeepIsKept ==
  ASSUME NEW T, NEW s \in Seq(T), NEW I \in SUBSET DOMAIN s
  PROVE  /\ Keep(s, I) \in Seq(T)
         /\ Len(Keep(s, I)) = Cardinality(I)
         /\ Cardinality(I) \in 0..Len(s)
         /\ \A k \in 1..Cardinality(I) : \E i \in I : Rank(I, i) = k /\ Keep(s, I)[k] = s[i]
         /\ \A i \in I : Rank(I, i) \in 1..Cardinality(I) /\ Rank(I, i) <= i /\ Keep(s, I)[Rank(I, i)] = s[i]
<1> DEFINE at(k) == CHOOSE i \in I : Rank(I, i) = k
<1>1. Len(s) \in Nat /\ I \in SUBSET (1..Len(s)) /\ \A i \in 1..Len(s) : s[i] \in T
  OBVIOUS
<1>2. Cardinality(I) \in 0..Len(s) /\ Cardinality(I) \in Nat
  BY <1>1, RankBounds
<1>3. ASSUME NEW k \in 1..Cardinality(I) PROVE at(k) \in I /\ Rank(I, at(k)) = k
  BY <1>1, RankOnto
<1>4. Keep(s, I) = [k \in 1..Cardinality(I) |-> s[at(k)]]
  BY DEF Keep
<1> HIDE DEF at
<1>5. \A k \in 1..Cardinality(I) : s[at(k)] \in T
  BY <1>1, <1>3
<1>6. Keep(s, I) \in Seq(T) /\ Len(Keep(s, I)) = Cardinality(I)
  BY <1>2, <1>4, <1>5
<1>7. ASSUME NEW i \in I
      PROVE  Rank(I, i) \in 1..Cardinality(I) /\ Rank(I, i) <= i /\ Keep(s, I)[Rank(I, i)] = s[i]
  <2>1. Rank(I, i) \in 1..Cardinality(I) /\ Rank(I, i) <= i
    BY <1>1, RankBounds
  <2>2. at(Rank(I, i)) = i
    BY <1>1, <1>3, <2>1, RankOnce
  <2> QED
    BY <1>4, <2>1, <2>2
<1>8. \A k \in 1..Cardinality(I) : \E i \in I : Rank(I, i) = k /\ Keep(s, I)[k] = s[i]
  BY <1>3, <1>4
<1> QED
  BY <1>2, <1>6, <1>7, <1>8

-----------------------------------------------------------------------------
(***************************************************************************)
(* What the operators on streams and directories return, and what they     *)
(* keep.                                                                   *)
(***************************************************************************)

LEMMA IsDirectory ==
  ASSUME NEW d PROVE d \in Directories <=> (DOMAIN d \subseteq Hashes /\ d \in [DOMAIN d -> Entry])
<1>1. ASSUME d \in Directories PROVE DOMAIN d \subseteq Hashes /\ d \in [DOMAIN d -> Entry]
  BY <1>1 DEF Directories
<1>2. ASSUME DOMAIN d \subseteq Hashes, d \in [DOMAIN d -> Entry] PROVE d \in Directories
  BY <1>2 DEF Directories
<1> QED
  BY <1>1, <1>2

LEMMA NoEntriesTyped == NoEntries \in Directories
BY IsDirectory DEF NoEntries

LEMMA PutTyped ==
  ASSUME NEW x \in Directories, NEW h \in Hashes, NEW e \in Entry PROVE Put(x, h, e) \in Directories
BY IsDirectory DEF Put

LEMMA DropTyped == ASSUME NEW x \in Directories, NEW h PROVE Drop(x, h) \in Directories
BY IsDirectory DEF Drop

LEMMA WithNodeTyped ==
  ASSUME NEW x \in Directories, NEW h, NEW e \in Entry PROVE WithNode(x, h, e) \in Directories
<1>1. \A y \in DOMAIN x : [x[y] EXCEPT !.trust = e.trust] \in Entry /\ x[y] \in Entry
  BY IsDirectory DEF Entry
<1>2. DOMAIN WithNode(x, h, e) = DOMAIN x /\ \A y \in DOMAIN x : WithNode(x, h, e)[y] \in Entry
  BY <1>1 DEF WithNode
<1>3. WithNode(x, h, e) \in [DOMAIN x -> Entry]
  BY <1>2 DEF WithNode
<1> QED
  BY <1>2, <1>3, IsDirectory

LEMMA EmptyStream == IsStream(<<>>) /\ \A x : ~In(x, <<>>)
BY StreamMaxAssumption DEF IsStream, In

LEMMA ClampTyped ==
  ASSUME NEW s, IsStream(s), NEW i \in Nat PROVE Clamp(s, i) \in Nat
BY DEF Clamp, IsStream

\* Nothing but the new announce comes in; only its source and the last place go.
LEMMA RecordedKeeps ==
  ASSUME NEW k, NEW a \in Announces, IsStream(stream[k])
  PROVE  /\ IsStream(Recorded(k, a))
         /\ Recorded(k, a)[1] = a
         /\ \A x : In(x, Recorded(k, a)) => x = a \/ In(x, stream[k])
         /\ \A i \in DOMAIN stream[k] :
              \/ In(stream[k][i], Recorded(k, a))
              \/ i = StreamMax
              \/ stream[k][i].src = a.src
<1> DEFINE s == stream[k]
           I == {i \in DOMAIN s : s[i].src # a.src}
           rest == IF Compact THEN Keep(s, I) ELSE s
           new == <<a>> \o rest
<1>1. s \in Seq(Announces) /\ Len(s) \in Nat /\ Len(s) <= StreamMax /\ StreamMax \in Nat \ {0}
  BY StreamMaxAssumption DEF IsStream
<1>2. /\ rest \in Seq(Announces)
      /\ Len(rest) <= Len(s)
      /\ \A j \in 1..Len(rest) : \E i \in DOMAIN s : rest[j] = s[i]
      /\ \A i \in DOMAIN s : s[i].src # a.src => \E j \in 1..Len(rest) : j <= i /\ rest[j] = s[i]
  <2>1. I \in SUBSET DOMAIN s
    OBVIOUS
  <2>2. CASE Compact
    <3>1. rest = Keep(s, I)
      BY <2>2
    <3> HIDE DEF I, rest
    <3>2. /\ rest \in Seq(Announces)
          /\ Len(rest) = Cardinality(I)
          /\ Cardinality(I) \in 0..Len(s)
          /\ \A j \in 1..Cardinality(I) : \E i \in I : rest[j] = s[i]
          /\ \A i \in I : Rank(I, i) \in 1..Cardinality(I) /\ Rank(I, i) <= i /\ rest[Rank(I, i)] = s[i]
      BY <1>1, <2>1, <3>1, KeepIsKept
    <3>3. \A i \in I : \E j \in 1..Len(rest) : j <= i /\ rest[j] = s[i]
      BY <3>2
    <3>4. \A i \in DOMAIN s : s[i].src # a.src => i \in I
      BY DEF I
    <3> QED
      BY <1>1, <2>1, <3>2, <3>3, <3>4
  <2>3. CASE ~Compact
    BY <1>1, <2>3
  <2> QED
    BY <2>2, <2>3
<1> HIDE DEF rest
<1>3. /\ new \in Seq(Announces)
      /\ Len(rest) \in Nat
      /\ Len(new) = 1 + Len(rest)
      /\ new[1] = a
      /\ \A j \in 1..Len(rest) : new[j + 1] = rest[j]
      /\ \A j \in 1..Len(new) : j = 1 \/ (j - 1 \in 1..Len(rest) /\ new[j] = rest[j - 1])
  BY <1>2
<1> DEFINE r == IF Len(new) > StreamMax THEN SubSeq(new, 1, StreamMax) ELSE new
<1>4. Recorded(k, a) = r
  BY DEF Recorded, Others, rest
<1>5. /\ r \in Seq(Announces)
      /\ Len(r) = IF Len(new) > StreamMax THEN StreamMax ELSE Len(new)
      /\ \A j \in 1..Len(r) : j \in 1..Len(new) /\ r[j] = new[j]
  <2> HIDE DEF new
  <2> QED
    BY <1>1, <1>3
<1> HIDE DEF new, r, s
<1>6. IsStream(r) /\ r[1] = a
  BY <1>1, <1>3, <1>5 DEF IsStream
<1>7. ASSUME NEW x, In(x, r) PROVE x = a \/ In(x, s)
  <2>1. PICK j \in 1..Len(r) : r[j] = x
    BY <1>5, <1>7 DEF In
  <2>2. j \in 1..Len(new) /\ x = new[j]
    BY <1>5, <2>1
  <2>3. CASE j = 1
    BY <1>3, <2>2, <2>3
  <2>4. CASE j # 1
    <3>1. j - 1 \in 1..Len(rest) /\ x = rest[j - 1]
      BY <1>3, <2>2, <2>4
    <3> QED
      BY <1>2, <3>1 DEF In
  <2> QED
    BY <2>3, <2>4
<1>8. ASSUME NEW i \in DOMAIN s, s[i].src # a.src, i # StreamMax PROVE In(s[i], r)
  <2>1. PICK j \in 1..Len(rest) : j <= i /\ rest[j] = s[i]
    BY <1>2, <1>8
  <2>2. i \in 1..Len(s) /\ i < StreamMax
    BY <1>1, <1>8
  <2>3. j + 1 \in 1..Len(r) /\ r[j + 1] = s[i]
    BY <1>1, <1>3, <1>5, <2>1, <2>2
  <2> QED
    BY <1>5, <2>3 DEF In
<1> QED
  BY <1>4, <1>6, <1>7, <1>8 DEF s

LEMMA VisibleKeeps ==
  ASSUME NEW s, IsStream(s)
  PROVE  IsStream(Visible(s)) /\ \A x : In(x, Visible(s)) => In(x, s)
<1> DEFINE I == {i \in DOMAIN s : s[i].src \notin ignored}
<1>1. s \in Seq(Announces) /\ Len(s) <= StreamMax /\ Len(s) \in Nat /\ StreamMax \in Nat
  BY StreamMaxAssumption DEF IsStream
<1>2. I \in SUBSET DOMAIN s
  OBVIOUS
<1>3. Visible(s) = Keep(s, I)
  BY DEF Visible
<1> HIDE DEF I
<1>4. /\ Keep(s, I) \in Seq(Announces)
      /\ Len(Keep(s, I)) = Cardinality(I)
      /\ Cardinality(I) \in 0..Len(s)
      /\ \A k \in 1..Cardinality(I) : \E i \in I : Keep(s, I)[k] = s[i]
  BY <1>1, <1>2, KeepIsKept
<1>5. DOMAIN Keep(s, I) = 1..Cardinality(I)
  BY <1>4
<1> QED
  BY <1>1, <1>2, <1>3, <1>4, <1>5 DEF IsStream, In

LEMMA RemoveAtKeeps ==
  ASSUME NEW T, NEW s \in Seq(T), NEW n \in 1..Len(s)
  PROVE  /\ RemoveAt(s, n) \in Seq(T)
         /\ Len(RemoveAt(s, n)) = Len(s) - 1
         /\ \A i \in 1..Len(s)-1 : RemoveAt(s, n)[i] = IF i < n THEN s[i] ELSE s[i + 1]
<1> DEFINE a == SubSeq(s, 1, n - 1)
           b == SubSeq(s, n + 1, Len(s))
<1>1. /\ a \in Seq(T) /\ Len(a) = n - 1 /\ \A i \in 1..n-1 : a[i] = s[i]
      /\ b \in Seq(T) /\ Len(b) = Len(s) - n /\ \A i \in 1..Len(s)-n : b[i] = s[n + i]
  OBVIOUS
<1>2. RemoveAt(s, n) = a \o b
  BY DEF RemoveAt
<1> HIDE DEF a, b
<1>3. /\ a \o b \in Seq(T) /\ Len(a \o b) = Len(a) + Len(b)
      /\ \A i \in 1..Len(a) + Len(b) : (a \o b)[i] = IF i <= Len(a) THEN a[i] ELSE b[i - Len(a)]
  BY <1>1, ConcatProperties
<1>4. ASSUME NEW i \in 1..Len(s)-1 PROVE RemoveAt(s, n)[i] = IF i < n THEN s[i] ELSE s[i + 1]
  <2>1. CASE i < n
    BY <1>1, <1>2, <1>3, <2>1
  <2>2. CASE i >= n
    <3>1. i - (n - 1) \in 1..Len(s)-n /\ n + (i - (n - 1)) = i + 1
      BY <2>2
    <3>2. b[i - (n - 1)] = s[i + 1]
      BY <1>1, <3>1
    <3> QED
      BY <1>1, <1>2, <1>3, <2>2, <3>2
  <2> QED
    BY <2>1, <2>2
<1> QED
  BY <1>1, <1>2, <1>3, <1>4

\* There is a first place with a given time, if there is any.
LEMMA FirstAt ==
  ASSUME NEW s, IsStream(s), NEW at, \E i \in DOMAIN s : s[i].at = at
  PROVE  \E i \in DOMAIN s : s[i].at = at /\ \A j \in 1..i-1 : s[j].at # at
<1>1. s \in Seq(Announces) /\ Len(s) \in Nat
  BY DEF IsStream
<1> DEFINE M == {i \in DOMAIN s : s[i].at = at}
<1>2. M \in SUBSET (1..Len(s)) /\ M # {}
  BY <1>1
<1> HIDE DEF M
<1>3. IsFiniteSet(M) /\ Cardinality(M) \in Nat
  BY <1>1, <1>2, RankBounds
<1>4. Cardinality(M) # 0
  BY <1>2, <1>3, FS_EmptySet
<1>5. 1 \in 1..Cardinality(M)
  BY <1>3, <1>4
<1>6. PICK i \in M : Rank(M, i) = 1
  BY <1>1, <1>2, <1>3, <1>5, RankOnto
<1>7. ASSUME NEW j \in M, j < i PROVE FALSE
  <2>1. Rank(M, j) < Rank(M, i)
    BY <1>1, <1>2, <1>7, RankGrows
  <2>2. Rank(M, j) \in 1..Cardinality(M)
    BY <1>1, <1>2, RankBounds
  <2> QED
    BY <1>3, <1>6, <2>1, <2>2
<1>8. i \in 1..Len(s) /\ \A j \in 1..i-1 : j \in 1..Len(s) /\ j < i
  BY <1>1, <1>2
<1> QED
  BY <1>1, <1>6, <1>7, <1>8 DEF M

\* All that goes has the time that was named.
LEMMA WithoutTimeKeeps ==
  ASSUME NEW s, IsStream(s), NEW at
  PROVE  /\ IsStream(WithoutTime(s, at))
         /\ \A x : In(x, WithoutTime(s, at)) => In(x, s)
         /\ \A i \in DOMAIN s : In(s[i], WithoutTime(s, at)) \/ s[i].at = at
<1>1. s \in Seq(Announces) /\ Len(s) <= StreamMax /\ Len(s) \in Nat /\ StreamMax \in Nat
  BY StreamMaxAssumption DEF IsStream
<1>2. CASE ~\E i \in DOMAIN s : s[i].at = at
  BY <1>2 DEF WithoutTime, In
<1>3. CASE \E i \in DOMAIN s : s[i].at = at
  <2> DEFINE P(i) == i \in DOMAIN s /\ s[i].at = at /\ \A j \in 1..i-1 : s[j].at # at
  <2>1. \E i \in DOMAIN s : P(i)
    BY <1>3, FirstAt
  <2>2. PICK n : /\ P(n) /\ WithoutTime(s, at) = RemoveAt(s, n)
    <3> DEFINE m == CHOOSE i \in DOMAIN s : s[i].at = at /\ \A j \in 1..i-1 : s[j].at # at
    <3>1. P(m)
      BY <2>1
    <3>2. WithoutTime(s, at) = RemoveAt(s, m)
      BY <1>3 DEF WithoutTime
    <3> QED
      BY <3>1, <3>2
  <2> DEFINE r == RemoveAt(s, n)
  <2>3. n \in 1..Len(s) /\ s[n].at = at
    BY <1>1, <2>2
  <2>5. /\ r \in Seq(Announces)
        /\ Len(r) = Len(s) - 1
        /\ \A i \in 1..Len(r) : r[i] = IF i < n THEN s[i] ELSE s[i + 1]
    BY <1>1, <2>3, RemoveAtKeeps
  <2> HIDE DEF r
  <2>6. IsStream(r)
    BY <1>1, <2>3, <2>5 DEF IsStream
  <2>7. \A x : In(x, r) => In(x, s)
    BY <1>1, <2>3, <2>5 DEF In
  <2>8. ASSUME NEW i \in DOMAIN s, i # n PROVE In(s[i], r)
    <3>1. CASE i < n
      <4>1. i \in 1..Len(r) /\ r[i] = s[i]
        BY <1>1, <2>3, <2>5, <2>8, <3>1
      <4> QED
        BY <2>5, <4>1 DEF In
    <3>2. CASE i > n
      <4>1. i - 1 \in 1..Len(r) /\ r[i - 1] = s[i]
        BY <1>1, <2>3, <2>5, <2>8, <3>2
      <4> QED
        BY <2>5, <4>1 DEF In
    <3> QED
      BY <1>1, <2>3, <2>8, <3>1, <3>2
  <2>9. WithoutTime(s, at) = r
    BY <2>2 DEF r
  <2> QED
    BY <2>3, <2>6, <2>7, <2>8, <2>9
<1> QED
  BY <1>2, <1>3

-----------------------------------------------------------------------------
(***************************************************************************)
(* The types.  What a goroutine carries is an entry's hash when it is      *)
(* about to be remembered, a node's when an announce is looked at, and a   *)
(* node's or a propagation node's when the router is to be told.           *)
(***************************************************************************)

Carries(g) ==
  /\ pc[g] \in {"remember", "persist", "ignore", "unignore"} => arg[g].hash \in Hashes
  /\ pc[g] \in {"check", "find"} => arg[g].hash \in Nodes
  /\ pc[g] = "push" => arg[g].hash \in Nodes \cup PNs

TInv == TypeOK /\ \A g \in Goroutines : Carries(g)

\* The types in groups, as the actions leave them alone.
DirTypes ==
  /\ file.whole \in BOOLEAN /\ entries \in Directories /\ file.entries \in Directories
  /\ writer \in Goroutines \cup {NoHash}
StreamTypes ==
  /\ DOMAIN stream = Kinds /\ \A k \in Kinds : IsStream(stream[k])
  /\ DOMAIN file.stream = Kinds /\ \A k \in Kinds : IsStream(file.stream[k])
RowTypes == IsStream(rows) /\ cursor \in Nat
BlockTypes ==
  /\ router \in BOOLEAN /\ disturbed \in BOOLEAN
  /\ ignored \subseteq Hashes /\ ignoredFile \subseteq Hashes
  /\ routerIgnored \subseteq Hashes /\ scan \subseteq Hashes
PNTypes == selected \in PNs \cup {NoHash} /\ outbound \in Nodes \cup PNs \cup {NoHash}
GoTypes ==
  /\ pc \in [Goroutines -> Places] /\ arg \in [Goroutines -> Args]
  /\ \A g \in Goroutines : Carries(g)
Counts == up \in BOOLEAN /\ edits \in Nat /\ announces \in Nat /\ runs \in Nat

LEMMA TypesInGroups ==
  TInv <=> DirTypes /\ StreamTypes /\ RowTypes /\ BlockTypes /\ PNTypes /\ GoTypes /\ Counts
BY DEF TInv, TypeOK, DirTypes, StreamTypes, RowTypes, BlockTypes, PNTypes, GoTypes, Counts

LEMMA TypesInGroupsNext ==
  TInv' <=> DirTypes' /\ StreamTypes' /\ RowTypes' /\ BlockTypes' /\ PNTypes' /\ GoTypes' /\ Counts'
BY DEF TInv, TypeOK, DirTypes, StreamTypes, RowTypes, BlockTypes, PNTypes, GoTypes, Counts

LEMMA SameDir == DirTypes /\ UNCHANGED <<entries, file, writer>> => DirTypes'
BY DEF DirTypes
LEMMA SameStream == StreamTypes /\ UNCHANGED <<stream, file>> => StreamTypes'
BY DEF StreamTypes
LEMMA SameRows == RowTypes /\ UNCHANGED rowVars => RowTypes'
BY DEF RowTypes, rowVars
LEMMA SameBlock == BlockTypes /\ UNCHANGED blockVars => BlockTypes'
BY DEF BlockTypes, blockVars
LEMMA SamePN == PNTypes /\ UNCHANGED pnVars => PNTypes'
BY DEF PNTypes, pnVars
LEMMA SameGo == GoTypes /\ UNCHANGED goVars => GoTypes'
BY DEF GoTypes, Carries, goVars
LEMMA SameCounts == Counts /\ UNCHANGED <<up, bounds>> => Counts'
BY DEF Counts, bounds

\* Goroutine g goes on to place p with a, which fits that place.
LEMMA Goes ==
  ASSUME GoTypes, NEW g \in Goroutines, NEW p \in Places, NEW a \in Args, Go(g, p),
         arg' = [arg EXCEPT ![g] = a],
         p \in {"remember", "persist", "ignore", "unignore"} => a.hash \in Hashes,
         p \in {"check", "find"} => a.hash \in Nodes,
         p = "push" => a.hash \in Nodes \cup PNs
  PROVE  GoTypes'
BY DEF GoTypes, Carries, Go

LEMMA GoesWithSame ==
  ASSUME GoTypes, NEW g \in Goroutines, NEW p \in Places, Go(g, p), UNCHANGED arg,
         p \in {"remember", "persist", "ignore", "unignore"} => arg[g].hash \in Hashes,
         p \in {"check", "find"} => arg[g].hash \in Nodes,
         p = "push" => arg[g].hash \in Nodes \cup PNs
  PROVE  GoTypes'
BY DEF GoTypes, Carries, Go

LEMMA NothingTyped ==
  /\ Nothing \in Args
  /\ \A h \in Hashes \cup PNs : [Nothing EXCEPT !.hash = h] \in Args /\ [Nothing EXCEPT !.hash = h].hash = h
  /\ \A t \in {"idle", "select", "ended"} : [Nothing EXCEPT !.then = t] \in Args
BY DEF Nothing, Args, Entry, Trusts

LEMMA TypesInit == Init => TInv
<1> SUFFICES ASSUME Init PROVE TInv
  OBVIOUS
<1>1. DirTypes /\ StreamTypes
  BY NoEntriesTyped, EmptyStream DEF Init, DirTypes, StreamTypes
<1>2. RowTypes /\ BlockTypes /\ PNTypes /\ Counts
  BY EmptyStream DEF Init, RowTypes, BlockTypes, PNTypes, Counts
<1>3. GoTypes
  BY NothingTyped DEF Init, GoTypes, Carries, Places
<1> QED
  BY <1>1, <1>2, <1>3, TypesInGroups

LEMMA TypesGoroutine == ASSUME TInv, NEW g \in Goroutines, GoroutineStep(g) PROVE TInv'
<1>t. DirTypes /\ StreamTypes /\ RowTypes /\ BlockTypes /\ PNTypes /\ GoTypes /\ Counts
  BY TypesInGroups
<1>g. pc[g] \in Places /\ arg[g] \in Args /\ Carries(g)
  BY <1>t DEF GoTypes
<1>1. CASE Remember(g)
  <2>1. arg[g].hash \in Hashes /\ arg[g].entry \in Entry
    BY <1>1, <1>g DEF Remember, Carries, Args
  <2>2. Put(entries, arg[g].hash, arg[g].entry) \in Directories
    BY <1>t, <2>1, PutTyped DEF DirTypes
  <2>3. entries' \in Directories
    BY <1>1, <2>1, <2>2, WithNodeTyped DEF Remember
  <2>4. DirTypes' /\ StreamTypes'
    BY <1>1, <1>t, <2>3 DEF Remember, DirTypes, StreamTypes
  <2>5. GoTypes'
    BY <1>1, <1>t, GoesWithSame DEF Remember, Places
  <2> QED
    BY <1>1, <1>t, <2>4, <2>5, SameRows, SameBlock, SamePN, SameCounts, TypesInGroupsNext DEF Remember
<1>2. CASE SaveBegins(g)
  <2>1. DirTypes' /\ StreamTypes'
    BY <1>2, <1>t, NoEntriesTyped, EmptyStream DEF SaveBegins, DirTypes, StreamTypes
  <2>2. GoTypes'
    BY <1>2, <1>t, GoesWithSame DEF SaveBegins, Places
  <2> QED
    BY <1>2, <1>t, <2>1, <2>2, SameRows, SameBlock, SamePN, SameCounts, TypesInGroupsNext DEF SaveBegins
<1>3. CASE SaveEnds(g)
  <2>1. DirTypes' /\ StreamTypes'
    BY <1>3, <1>t DEF SaveEnds, DirTypes, StreamTypes
  <2>2. arg[g].then \in {"idle", "select", "ended"}
    BY <1>g DEF Args
  <2>3. GoTypes'
    BY <1>3, <1>t, <2>2, GoesWithSame DEF SaveEnds, Places
  <2> QED
    BY <1>3, <1>t, <2>1, <2>3, SameRows, SameBlock, SamePN, SameCounts, TypesInGroupsNext DEF SaveEnds
<1>4. CASE Select(g)
  <2>1. GoTypes'
    <3>1. CASE selected # NoHash
      <4> DEFINE a == [arg[g] EXCEPT !.hash = selected]
      <4>1. selected \in PNs
        BY <1>t, <3>1 DEF PNTypes
      <4>2. a \in Args /\ a.hash = selected
        BY <1>g, <4>1 DEF Args
      <4>3. arg' = [arg EXCEPT ![g] = a] /\ Go(g, "push")
        BY <1>4, <1>t, <3>1 DEF Select, GoTypes
      <4> HIDE DEF a
      <4>4. a.hash \in Nodes \cup PNs /\ "push" \in Places
        BY <4>1, <4>2 DEF Places
      <4> QED
        BY <1>t, <4>2, <4>3, <4>4, Goes
    <3>2. CASE selected = NoHash
      BY <1>4, <1>t, <3>2, GoesWithSame DEF Select, Places
    <3> QED
      BY <3>1, <3>2
  <2> QED
    BY <1>4, <1>t, <2>1, SameDir, SameStream, SameRows, SameBlock, SamePN, SameCounts, TypesInGroupsNext
    DEF Select, dirVars
<1>5. CASE List(g)
  <2>1. GoTypes'
    <3>1. ASSUME NEW n \in Nodes, arg' = [arg EXCEPT ![g].hash = n], Go(g, "push") PROVE GoTypes'
      <4> DEFINE a == [arg[g] EXCEPT !.hash = n]
      <4>1. a \in Args /\ a.hash = n
        BY <1>g DEF Args, Hashes
      <4>2. arg' = [arg EXCEPT ![g] = a]
        BY <1>t, <3>1 DEF GoTypes
      <4> HIDE DEF a
      <4>3. a.hash \in Nodes \cup PNs /\ "push" \in Places
        BY <4>1 DEF Places
      <4> QED
        BY <1>t, <3>1, <4>1, <4>2, <4>3, Goes
    <3>2. CASE UNCHANGED arg /\ Go(g, Idle(g))
      BY <1>t, <3>2, GoesWithSame DEF Idle, Places
    <3> QED
      BY <1>5, <3>1, <3>2 DEF List
  <2> QED
    BY <1>5, <1>t, <2>1, SameDir, SameStream, SameRows, SameBlock, SamePN, SameCounts, TypesInGroupsNext
    DEF List, dirVars
<1>6. CASE Push(g)
  <2>1. PNTypes'
    BY <1>6, <1>t, <1>g DEF Push, PNTypes, Carries
  <2>2. GoTypes'
    BY <1>6, <1>t, GoesWithSame DEF Push, Idle, Places
  <2> QED
    BY <1>6, <1>t, <2>1, <2>2, SameDir, SameStream, SameRows, SameBlock, SameCounts, TypesInGroupsNext
    DEF Push, dirVars
<1>7. CASE Check(g)
  <2>1. arg[g].hash \in Nodes
    BY <1>7, <1>g DEF Check, Carries
  <2>2. GoTypes'
    BY <1>7, <1>t, <2>1, GoesWithSame DEF Check, Places
  <2> QED
    BY <1>7, <1>t, <2>2, SameDir, SameStream, SameRows, SameBlock, SamePN, SameCounts, TypesInGroupsNext
    DEF Check, dirVars
<1>8. CASE Find(g)
  <2> DEFINE e == [trust |-> "trusted", hosts |-> TRUE]
             a == [arg[g] EXCEPT !.entry = e]
             p == IF Has(arg[g].hash) THEN "idle" ELSE "remember"
  <2>1. arg[g].hash \in Nodes /\ e \in Entry
    BY <1>8, <1>g DEF Find, Carries, Entry, Trusts
  <2>2. a \in Args /\ a.hash = arg[g].hash
    BY <1>g, <2>1 DEF Args
  <2>3. arg' = [arg EXCEPT ![g] = a] /\ Go(g, p) /\ p \in {"idle", "remember"}
    BY <1>8, <1>t DEF Find, GoTypes
  <2> HIDE DEF p, a
  <2>4. GoTypes'
    BY <1>t, <2>1, <2>2, <2>3, Goes DEF Places, Hashes
  <2> QED
    BY <1>8, <1>t, <2>4, SameDir, SameStream, SameRows, SameBlock, SamePN, SameCounts, TypesInGroupsNext
    DEF Find, dirVars
<1> QED
  BY <1>1, <1>2, <1>3, <1>4, <1>5, <1>6, <1>7, <1>8 DEF GoroutineStep

LEMMA TypesEdit == ASSUME Counts, Edit, UNCHANGED <<up, announces, runs>> PROVE Counts'
BY DEF Counts, Edit

LEMMA TypesUser == ASSUME TInv, UserStep PROVE TInv'
<1>t. DirTypes /\ StreamTypes /\ RowTypes /\ BlockTypes /\ PNTypes /\ GoTypes /\ Counts
  BY TypesInGroups
<1>u. "ui" \in Goroutines /\ arg["ui"] \in Args /\ Carries("ui")
  BY <1>t DEF Goroutines, GoTypes
<1>1. ASSUME NEW h \in Hashes, Forget(h) PROVE TInv'
  <2>1. DirTypes'
    BY <1>1, <1>t, DropTyped DEF Forget, DirTypes
  <2>2. Counts' /\ StreamTypes'
    BY <1>1, <1>t, TypesEdit, SameStream DEF Forget
  <2> QED
    BY <1>1, <1>t, <2>1, <2>2, SameRows, SameBlock, SamePN, SameGo, TypesInGroupsNext DEF Forget
<1>2. ASSUME NEW h \in Hashes, NEW e \in Entry, SaveEntry(h, e) PROVE TInv'
  <2> DEFINE a == [hash |-> h, entry |-> e, then |-> IF e.trust = "trusted" THEN "select" ELSE "idle"]
  <2>1. a \in Args /\ a.hash = h
    BY DEF Args
  <2>2. arg' = [arg EXCEPT !["ui"] = a] /\ Go("ui", "remember")
    BY <1>2 DEF SaveEntry
  <2> HIDE DEF a
  <2>3. GoTypes' /\ Counts'
    BY <1>2, <1>t, <1>u, <2>1, <2>2, Goes, TypesEdit DEF SaveEntry, Places
  <2> QED
    BY <1>2, <1>t, <2>3, SameDir, SameStream, SameRows, SameBlock, SamePN, TypesInGroupsNext
    DEF SaveEntry, dirVars
<1>3. ASSUME NEW h \in Hashes, NEW t \in Trusts, SetTrust(h, t) PROVE TInv'
  <2> DEFINE e == IF Has(h) THEN [entries[h] EXCEPT !.trust = t] ELSE [trust |-> t, hosts |-> FALSE]
             a == [hash |-> h, entry |-> e, then |-> "idle"]
  <2>1. e \in Entry
    <3>1. Has(h) => entries[h] \in Entry
      BY <1>t, IsDirectory DEF Has, DirTypes
    <3> QED
      BY <3>1 DEF Entry
  <2>2. /\ entries' = IF Has(h) THEN Put(entries, h, e) ELSE entries
        /\ arg' = [arg EXCEPT !["ui"] = a] /\ Go("ui", "remember")
    BY <1>3 DEF SetTrust
  <2> HIDE DEF e
  <2>3. a \in Args /\ a.hash = h
    BY <2>1 DEF Args
  <2> HIDE DEF a
  <2>4. GoTypes' /\ Counts'
    BY <1>3, <1>t, <1>u, <2>2, <2>3, Goes, TypesEdit DEF SetTrust, Places
  <2>5. entries' \in Directories
    BY <1>t, <2>1, <2>2, PutTyped DEF DirTypes
  <2>6. DirTypes' /\ StreamTypes'
    BY <1>3, <1>t, <2>5, SameStream DEF SetTrust, DirTypes
  <2> QED
    BY <1>3, <1>t, <2>4, <2>6, SameRows, SameBlock, SamePN, TypesInGroupsNext DEF SetTrust
<1>4. ASSUME NEW p \in PNs \cup {NoHash}, SelectPN(p) PROVE TInv'
  <2>1. GoTypes' /\ Counts' /\ PNTypes'
    BY <1>4, <1>t, <1>u, GoesWithSame, TypesEdit DEF SelectPN, Places, PNTypes
  <2> QED
    BY <1>4, <1>t, <2>1, SameDir, SameStream, SameRows, SameBlock, TypesInGroupsNext DEF SelectPN, dirVars
<1>5. ASSUME NEW h \in Hashes, Block(h) PROVE TInv'
  <2> DEFINE a == [Nothing EXCEPT !.hash = h]
  <2>1. a \in Args /\ a.hash = h
    BY NothingTyped
  <2>2. arg' = [arg EXCEPT !["ui"] = a] /\ (Go("ui", "ignore") \/ Go("ui", "persist"))
    BY <1>5 DEF Block
  <2> HIDE DEF a
  <2>3. GoTypes'
    BY <1>t, <1>u, <2>1, <2>2, Goes DEF Places
  <2>4. BlockTypes' /\ Counts'
    BY <1>5, <1>t, TypesEdit DEF Block, BlockTypes
  <2> QED
    BY <1>5, <1>t, <2>3, <2>4, SameDir, SameStream, SameRows, SamePN, TypesInGroupsNext DEF Block, dirVars
<1>6. ASSUME NEW h \in Hashes, Unblock(h) PROVE TInv'
  <2> DEFINE a == [Nothing EXCEPT !.hash = h]
  <2>1. a \in Args /\ a.hash = h
    BY NothingTyped
  <2>2. arg' = [arg EXCEPT !["ui"] = a] /\ Go("ui", "persist")
    BY <1>6 DEF Unblock
  <2> HIDE DEF a
  <2>3. GoTypes'
    BY <1>t, <1>u, <2>1, <2>2, Goes DEF Places
  <2>4. disturbed' \in BOOLEAN
    BY <1>6, <1>t DEF Unblock, BlockTypes
  <2>5. BlockTypes' /\ Counts'
    BY <1>6, <1>t, <2>4, TypesEdit DEF Unblock, BlockTypes
  <2> QED
    BY <1>6, <1>t, <2>3, <2>5, SameDir, SameStream, SameRows, SamePN, TypesInGroupsNext DEF Unblock, dirVars
<1>7. ASSUME NEW i \in 1..StreamMax, Move(i) PROVE TInv'
  <2>1. i \in Nat
    BY StreamMaxAssumption
  <2>2. RowTypes'
    BY <1>7, <1>t, <2>1 DEF Move, RowTypes
  <2> QED
    BY <1>7, <1>t, <2>2, SameDir, SameStream, SameBlock, SamePN, SameGo, SameCounts, TypesInGroupsNext
    DEF Move, dirVars
<1>8. CASE Refresh
  <2>1. IsStream(stream["node"])
    BY <1>t DEF StreamTypes, Kinds
  <2>2. IsStream(rows')
    BY <1>8, <2>1, VisibleKeeps DEF Refresh
  <2>3. RowTypes'
    BY <1>8, <1>t, <2>2, ClampTyped DEF Refresh, RowTypes
  <2> QED
    BY <1>8, <1>t, <2>3, SameDir, SameStream, SameBlock, SamePN, SameGo, SameCounts, TypesInGroupsNext
    DEF Refresh, dirVars
<1>9. CASE DeleteRow
  <2>1. /\ DOMAIN stream' = Kinds /\ \A k \in Kinds : IsStream(stream'[k])
    BY <1>9, <1>t, WithoutTimeKeeps DEF DeleteRow, StreamTypes
  <2>2. StreamTypes' /\ DirTypes'
    BY <1>9, <1>t, <2>1, SameDir DEF DeleteRow, StreamTypes
  <2>3. IsStream(stream'["node"])
    BY <2>1 DEF Kinds
  <2>4. IsStream(Visible(stream'["node"]))
    BY <2>3, VisibleKeeps
  <2>5. RowTypes'
    BY <1>9, <1>t, <2>4, ClampTyped DEF DeleteRow, RowTypes
  <2>6. Counts'
    BY <1>9, <1>t, TypesEdit DEF DeleteRow
  <2> QED
    BY <1>9, <1>t, <2>2, <2>5, <2>6, SameBlock, SamePN, SameGo, TypesInGroupsNext DEF DeleteRow
<1>10. CASE Persist
  <2> DEFINE p == IF arg["ui"].hash \in ignored THEN "ignore" ELSE "unignore"
  <2>1. Go("ui", p) /\ UNCHANGED arg /\ arg["ui"].hash \in Hashes /\ p \in {"ignore", "unignore"}
    BY <1>10, <1>u DEF Persist, Carries
  <2> HIDE DEF p
  <2>2. GoTypes'
    BY <1>t, <1>u, <2>1, GoesWithSame DEF Places
  <2>3. BlockTypes'
    BY <1>10, <1>t DEF Persist, BlockTypes
  <2> QED
    BY <1>10, <1>t, <2>2, <2>3, SameDir, SameStream, SameRows, SamePN, SameCounts, TypesInGroupsNext
    DEF Persist, dirVars
<1>11. CASE TellRouter
  <2>1. arg["ui"].hash \in Hashes
    BY <1>11, <1>u DEF TellRouter, Carries
  <2>2. BlockTypes'
    BY <1>11, <1>t, <2>1 DEF TellRouter, BlockTypes
  <2>3. GoTypes'
    BY <1>11, <1>t, <1>u, GoesWithSame DEF TellRouter, Places
  <2> QED
    BY <1>11, <1>t, <2>2, <2>3, SameDir, SameStream, SameRows, SamePN, SameCounts, TypesInGroupsNext
    DEF TellRouter, dirVars
<1>12. CASE Shutdown
  <2> DEFINE a == [Nothing EXCEPT !.then = "ended"]
  <2>1. a \in Args
    BY NothingTyped
  <2>2. arg' = [arg EXCEPT !["ui"] = a] /\ Go("ui", "save")
    BY <1>12 DEF Shutdown
  <2> HIDE DEF a
  <2>3. GoTypes'
    BY <1>t, <1>u, <2>1, <2>2, Goes DEF Places
  <2> QED
    BY <1>12, <1>t, <2>3, SameDir, SameStream, SameRows, SameBlock, SamePN, SameCounts, TypesInGroupsNext
    DEF Shutdown, dirVars
<1> QED
  BY <1>1, <1>2, <1>3, <1>4, <1>5, <1>6, <1>7, <1>8, <1>9, <1>10, <1>11, <1>12 DEF UserStep

LEMMA NewAnnounce ==
  ASSUME announces \in Nat, NEW k \in Kinds, NEW src \in Nodes \cup PNs
  PROVE  [kind |-> k, src |-> src, at |-> announces] \in Announces
BY DEF Announces

LEMMA TypesAnnounce ==
  ASSUME TInv, NEW g \in Handlers, NEW k \in Kinds, NEW src \in Nodes \cup PNs, Announce(g, k, src)
  PROVE  TInv'
<1>t. DirTypes /\ StreamTypes /\ RowTypes /\ BlockTypes /\ PNTypes /\ GoTypes /\ Counts
  BY TypesInGroups
<1>g. g \in Goroutines
  BY DEF Goroutines
<1> DEFINE a == [kind |-> k, src |-> src, at |-> announces]
           r == [Nothing EXCEPT !.hash = src]
<1>1. a \in Announces
  BY <1>t, NewAnnounce DEF Counts
<1>2. stream' = IF src \in ignored THEN stream ELSE [stream EXCEPT ![k] = Recorded(k, a)]
  BY DEF Announce
<1> HIDE DEF a
<1>3. IsStream(Recorded(k, a))
  BY <1>t, <1>1, RecordedKeeps DEF StreamTypes
<1>4. DOMAIN stream' = Kinds /\ \A x \in Kinds : IsStream(stream'[x])
  BY <1>t, <1>2, <1>3 DEF StreamTypes
<1>5. StreamTypes' /\ DirTypes'
  BY <1>t, <1>4, SameDir DEF Announce, StreamTypes
<1>6. r \in Args /\ r.hash = src
  BY NothingTyped DEF Hashes
<1>7. /\ arg' = [arg EXCEPT ![g] = r]
      /\ \/ Go(g, "check") /\ src \in Nodes
         \/ Go(g, "select")
  BY DEF Announce
<1> HIDE DEF r
<1>8. GoTypes'
  BY <1>t, <1>g, <1>6, <1>7, Goes DEF Places
<1>9. Counts'
  BY <1>t DEF Announce, Counts
<1> QED
  BY <1>t, <1>5, <1>8, <1>9, SameRows, SameBlock, SamePN, TypesInGroupsNext DEF Announce

LEMMA TypesNext == TInv /\ [Next]_vars => TInv'
<1> SUFFICES ASSUME TInv, [Next]_vars PROVE TInv'
  OBVIOUS
<1>t. DirTypes /\ StreamTypes /\ RowTypes /\ BlockTypes /\ PNTypes /\ GoTypes /\ Counts
  BY TypesInGroups
<1>i. "init" \in Goroutines
  BY DEF Goroutines
<1>1. CASE Start
  <2>1. DirTypes' /\ StreamTypes' /\ BlockTypes' /\ Counts'
    BY <1>1, <1>t DEF Start, DirTypes, StreamTypes, BlockTypes, Counts
  <2>2. GoTypes'
    BY <1>1, <1>t DEF Start, GoTypes, Carries, Places
  <2> QED
    BY <1>1, <1>t, <2>1, <2>2, SameRows, SamePN, TypesInGroupsNext DEF Start
<1>2. CASE ProcessEnds
  <2>1. DirTypes' /\ StreamTypes'
    BY <1>2, <1>t, NoEntriesTyped, EmptyStream DEF ProcessEnds, DirTypes, StreamTypes
  <2>2. RowTypes' /\ BlockTypes' /\ PNTypes' /\ Counts'
    BY <1>2, <1>t, EmptyStream DEF ProcessEnds, RowTypes, BlockTypes, PNTypes, Counts, bounds
  <2>3. GoTypes'
    BY <1>2, NothingTyped DEF ProcessEnds, GoTypes, Carries, Places
  <2> QED
    BY <2>1, <2>2, <2>3, TypesInGroupsNext
<1>3. CASE SetRouter
  <2>1. GoTypes' /\ BlockTypes'
    BY <1>3, <1>t, <1>i, GoesWithSame DEF SetRouter, Places, BlockTypes
  <2> QED
    BY <1>3, <1>t, <2>1, SameDir, SameStream, SameRows, SamePN, SameCounts, TypesInGroupsNext
    DEF SetRouter, dirVars
<1>4. CASE ApplyBegins
  <2>1. GoTypes' /\ BlockTypes'
    BY <1>4, <1>t, <1>i, GoesWithSame DEF ApplyBegins, Places, BlockTypes
  <2> QED
    BY <1>4, <1>t, <2>1, SameDir, SameStream, SameRows, SamePN, SameCounts, TypesInGroupsNext
    DEF ApplyBegins, dirVars
<1>5. CASE Apply
  <2>1. BlockTypes'
    BY <1>5, <1>t DEF Apply, BlockTypes
  <2>2. GoTypes'
    BY <1>5, <1>t, <1>i, GoesWithSame, SameGo DEF Apply, Places, goVars
  <2> QED
    BY <1>5, <1>t, <2>1, <2>2, SameDir, SameStream, SameRows, SamePN, SameCounts, TypesInGroupsNext
    DEF Apply, dirVars
<1>6. CASE UserStep
  BY <1>6, TypesUser
<1>7. ASSUME NEW g \in Goroutines, GoroutineStep(g) PROVE TInv'
  BY <1>7, TypesGoroutine
<1>8. ASSUME NEW g \in Handlers, NEW k \in Kinds, NEW src \in Nodes \cup PNs, Announce(g, k, src)
      PROVE  TInv'
  BY <1>8, TypesAnnounce
<1>9. CASE UNCHANGED vars
  BY <1>9, <1>t, SameDir, SameStream, SameRows, SameBlock, SamePN, SameGo, SameCounts, TypesInGroupsNext
  DEF vars, dirVars
<1> QED
  BY <1>1, <1>2, <1>3, <1>4, <1>5, <1>6, <1>7, <1>8, <1>9 DEF Next

(***************************************************************************)
(* The variables have their types, for any nodes, operators, goroutines    *)
(* and any length of the streams.  A stream never outgrows                 *)
(* AnnounceStreamMaxLen, compacted or not, on the screen and in the file;  *)
(* the router is told of nodes and propagation nodes only.                 *)
(***************************************************************************)
THEOREM TypesHold == Spec => []TypeOK
<1>1. Spec => []TInv
  BY TypesInit, TypesNext, PTL DEF Spec
<1>2. TInv => TypeOK
  BY DEF TInv
<1> QED
  BY <1>1, <1>2, PTL

-----------------------------------------------------------------------------
(***************************************************************************)
(* What leaves a stream.  RemoveAnnounce knows an announce by its time, so *)
(* the invariant is that no two have the same: not in the streams, not in  *)
(* the file a next run begins with, and not in the rows, however old.      *)
(***************************************************************************)

Seen(a) ==
  \/ \E k \in Kinds : In(a, stream[k]) \/ In(a, file.stream[k])
  \/ In(a, rows)

Stamped ==
  \A a, b \in Announces :
    Seen(a) => a.at < announces /\ (Seen(b) /\ a.at = b.at => a = b)

\* Nothing is kept, and nobody works, while the program does not run.
Down == ~up => /\ \A k \in Kinds : stream[k] = <<>>
               /\ \A g \in Goroutines : pc[g] = "none"

RowInv == TInv /\ Stamped /\ Down

\* A step that brings no announce.
LEMMA StampsStay ==
  ASSUME Stamped, UNCHANGED announces, \A a \in Announces : Seen(a)' => Seen(a)
  PROVE  Stamped'
BY DEF Stamped

LEMMA SameSeen ==
  ASSUME UNCHANGED <<stream, file, rows>> PROVE \A a \in Announces : Seen(a)' => Seen(a)
BY DEF Seen, In

LEMMA RowInit == Init => RowInv
<1> SUFFICES ASSUME Init PROVE RowInv
  OBVIOUS
<1>1. \A a \in Announces : ~Seen(a)
  BY EmptyStream DEF Init, Seen
<1>2. Stamped
  BY <1>1 DEF Stamped
<1>3. Down
  BY DEF Init, Down
<1> QED
  BY <1>2, <1>3, TypesInit DEF RowInv

\* Steps of the goroutines change no stream; a save copies them.
LEMMA RowGoroutine == ASSUME RowInv, NEW g \in Goroutines, GoroutineStep(g) PROVE Stamped' /\ Down' /\ UNCHANGED stream
<1>1. pc[g] \notin {"none"} /\ up /\ UNCHANGED <<up, stream, rows, announces>>
  BY DEF RowInv, Down, GoroutineStep, Remember, SaveBegins, SaveEnds, Select, List, Push, Check, Find,
         rowVars, bounds, dirVars
<1>2. Down'
  BY <1>1 DEF Down
<1>3. CASE SaveBegins(g)
  BY <1>1, <1>2, <1>3, StampsStay, EmptyStream DEF SaveBegins, RowInv, Seen
<1>4. CASE SaveEnds(g)
  BY <1>1, <1>2, <1>4, StampsStay DEF SaveEnds, RowInv, Seen
<1>5. CASE ~SaveBegins(g) /\ ~SaveEnds(g)
  <2>1. UNCHANGED file
    BY <1>5 DEF GoroutineStep, Remember, Select, List, Push, Check, Find, dirVars
  <2> QED
    BY <1>1, <1>2, <2>1, SameSeen, StampsStay DEF RowInv
<1> QED
  BY <1>3, <1>4, <1>5

\* What a step may do to the streams.
RowGoes ==
  up' => \A k \in Kinds : \A i \in DOMAIN stream[k] :
       \/ In(stream[k][i], stream'[k])
       \/ announces' > announces /\ (i = StreamMax \/ stream[k][i].src = stream'[k][1].src)
       \/ cursor \in DOMAIN rows /\ rows[cursor] = stream[k][i]

LEMMA SameStreamGoes == ASSUME UNCHANGED stream PROVE RowGoes
BY DEF RowGoes, In

LEMMA RowDelete == ASSUME RowInv, DeleteRow PROVE Stamped' /\ Down' /\ RowGoes
<1>1. /\ \A k \in Kinds : IsStream(stream[k]) /\ \A i \in DOMAIN stream[k] : stream[k][i] \in Announces
      /\ IsStream(rows) /\ cursor \in DOMAIN rows /\ rows[cursor] \in Announces
  <2>1. IsStream(rows) /\ cursor \in DOMAIN rows /\ \A k \in Kinds : IsStream(stream[k])
    BY DEF DeleteRow, RowInv, TInv, TypeOK
  <2>2. \A s : IsStream(s) => \A i \in DOMAIN s : s[i] \in Announces
    BY DEF IsStream
  <2> QED
    BY <2>1, <2>2
<1> DEFINE at == rows[cursor].at
<1>2. \A k \in Kinds : stream'[k] = WithoutTime(stream[k], at)
  BY DEF DeleteRow
<1> HIDE DEF at
<1>3. \A k \in Kinds : /\ IsStream(stream'[k])
                       /\ \A x : In(x, stream'[k]) => In(x, stream[k])
                       /\ \A i \in DOMAIN stream[k] : In(stream[k][i], stream'[k]) \/ stream[k][i].at = at
  BY <1>1, <1>2, WithoutTimeKeeps
<1>4. "node" \in Kinds /\ rows' = Visible(stream'["node"])
  BY DEF Kinds, DeleteRow
<1>5. \A x : In(x, rows') => In(x, stream["node"])
  BY <1>3, <1>4, VisibleKeeps
<1>6. \A a \in Announces : Seen(a)' => Seen(a)
  BY <1>3, <1>4, <1>5 DEF Seen, DeleteRow
<1>7. Stamped'
  BY <1>6, StampsStay DEF RowInv, DeleteRow
<1>8. up /\ Down'
  <2>1. "ui" \in Goroutines
    BY DEF Goroutines
  <2> QED
    BY <2>1 DEF RowInv, Down, DeleteRow, Edit
<1>9. RowGoes
  <2> SUFFICES ASSUME NEW k \in Kinds, NEW i \in DOMAIN stream[k], stream[k][i].at = at
               PROVE  rows[cursor] = stream[k][i]
    BY <1>1, <1>3 DEF RowGoes
  <2>1. Seen(rows[cursor]) /\ Seen(stream[k][i])
    BY <1>1 DEF Seen, In
  <2> QED
    BY <1>1, <2>1 DEF RowInv, Stamped, at
<1> QED
  BY <1>7, <1>8, <1>9

LEMMA RowUser == ASSUME RowInv, UserStep PROVE Stamped' /\ Down' /\ RowGoes
<1>u. "ui" \in Goroutines
  BY DEF Goroutines
<1>1. CASE DeleteRow
  BY <1>1, RowDelete
<1>2. CASE Refresh
  <2>1. "node" \in Kinds /\ IsStream(stream["node"])
    BY DEF Kinds, RowInv, TInv, TypeOK
  <2>2. \A x : In(x, rows') => In(x, stream["node"])
    BY <1>2, <2>1, VisibleKeeps DEF Refresh
  <2>3. UNCHANGED <<stream, file, announces, up, pc>>
    BY <1>2 DEF Refresh, dirVars, bounds, goVars
  <2>4. \A a \in Announces : Seen(a)' => Seen(a)
    BY <2>1, <2>2, <2>3 DEF Seen
  <2> QED
    BY <2>3, <2>4, StampsStay, SameStreamGoes DEF RowInv, Down
<1>3. CASE ~DeleteRow /\ ~Refresh
  <2>1. UNCHANGED <<stream, file, rows, announces, up>>
    BY <1>3 DEF UserStep, Forget, SaveEntry, SetTrust, SelectPN, Block, Unblock, Move, Persist, TellRouter,
                Shutdown, dirVars, rowVars, bounds
  <2>2. pc["ui"] # "none"
    BY <1>3 DEF UserStep, Forget, SaveEntry, SetTrust, SelectPN, Block, Unblock, Move, Persist, TellRouter,
                Shutdown, Edit
  <2>3. up /\ Down'
    BY <1>u, <2>1, <2>2 DEF RowInv, Down
  <2> QED
    BY <2>1, <2>3, SameSeen, StampsStay, SameStreamGoes DEF RowInv
<1> QED
  BY <1>1, <1>2, <1>3

LEMMA RowAnnounce ==
  ASSUME RowInv, NEW g \in Handlers, NEW k \in Kinds, NEW src \in Nodes \cup PNs, Announce(g, k, src)
  PROVE  Stamped' /\ Down' /\ RowGoes
<1> DEFINE a == [kind |-> k, src |-> src, at |-> announces]
<1>1. announces \in Nat /\ announces' = announces + 1 /\ DOMAIN stream = Kinds /\ IsStream(stream[k])
  BY DEF RowInv, TInv, TypeOK, Announce
<1>2. a \in Announces /\ a.at = announces /\ a.src = src
  BY <1>1, NewAnnounce
<1>3. stream' = IF src \in ignored THEN stream ELSE [stream EXCEPT ![k] = Recorded(k, a)]
  BY DEF Announce
<1> HIDE DEF a
<1>4. UNCHANGED <<file, rows, up>> /\ up
  <2>1. g \in Goroutines
    BY DEF Goroutines
  <2> QED
    BY <2>1 DEF RowInv, Down, Announce, rowVars
<1>5. /\ Recorded(k, a)[1] = a
      /\ \A x : In(x, Recorded(k, a)) => x = a \/ In(x, stream[k])
      /\ \A i \in DOMAIN stream[k] :
           In(stream[k][i], Recorded(k, a)) \/ i = StreamMax \/ stream[k][i].src = src
  BY <1>1, <1>2, RecordedKeeps
<1>6. \A x \in Announces : Seen(x)' => x = a \/ Seen(x)
  BY <1>1, <1>3, <1>4, <1>5 DEF Seen
<1>7. Stamped'
  <2> SUFFICES ASSUME NEW x \in Announces, NEW y \in Announces, Seen(x)'
               PROVE  x.at < announces' /\ (Seen(y)' /\ x.at = y.at => x = y)
    BY DEF Stamped
  <2>1. \A z \in Announces : Seen(z) => z.at < announces /\ z.at \in Nat
    BY DEF RowInv, Stamped, Announces
  <2>2. \A z, w \in Announces : Seen(z) /\ Seen(w) /\ z.at = w.at => z = w
    BY DEF RowInv, Stamped
  <2> QED
    BY <1>1, <1>2, <1>6, <2>1, <2>2
<1>8. Down'
  BY <1>4 DEF Down
<1>9. RowGoes
  <2> SUFFICES ASSUME NEW q \in Kinds, NEW i \in DOMAIN stream[q]
               PROVE  \/ In(stream[q][i], stream'[q])
                      \/ announces' > announces /\ (i = StreamMax \/ stream[q][i].src = stream'[q][1].src)
    BY DEF RowGoes
  <2>1. CASE src \in ignored \/ q # k
    BY <1>1, <1>3, <2>1 DEF In
  <2>2. CASE src \notin ignored /\ q = k
    <3>1. stream'[q] = Recorded(k, a)
      BY <1>1, <1>3, <2>2
    <3> QED
      BY <1>1, <1>2, <1>5, <2>2, <3>1
  <2> QED
    BY <2>1, <2>2
<1> QED
  BY <1>7, <1>8, <1>9

LEMMA RowStep == RowInv /\ [Next]_vars => RowInv' /\ RowGoes
<1> SUFFICES ASSUME RowInv, [Next]_vars PROVE Stamped' /\ Down' /\ RowGoes
  BY TypesNext DEF RowInv
<1>1. CASE Start
  <2>1. RowGoes
    BY <1>1 DEF Start, RowInv, Down, RowGoes
  <2>2. \A a \in Announces : Seen(a)' => Seen(a)
    BY <1>1 DEF Start, Seen, rowVars
  <2> QED
    BY <1>1, <2>1, <2>2, StampsStay DEF Start, RowInv, Down
<1>2. CASE ProcessEnds
  <2>1. RowGoes
    BY <1>2 DEF ProcessEnds, RowGoes
  <2>2. \A a \in Announces : Seen(a)' => Seen(a)
    BY <1>2, EmptyStream DEF ProcessEnds, Seen
  <2> QED
    BY <1>2, <2>1, <2>2, StampsStay DEF ProcessEnds, RowInv, Down, bounds
<1>3. CASE SetRouter \/ ApplyBegins \/ Apply
  <2>1. "init" \in Goroutines /\ pc["init"] # "none" /\ UNCHANGED <<stream, file, rows, announces, up>>
    BY <1>3 DEF Goroutines, SetRouter, ApplyBegins, Apply, dirVars, rowVars, bounds
  <2> QED
    BY <2>1, SameSeen, StampsStay, SameStreamGoes DEF RowInv, Down
<1>4. CASE UserStep
  BY <1>4, RowUser
<1>5. ASSUME NEW g \in Goroutines, GoroutineStep(g) PROVE Stamped' /\ Down' /\ RowGoes
  BY <1>5, RowGoroutine, SameStreamGoes
<1>6. ASSUME NEW g \in Handlers, NEW k \in Kinds, NEW src \in Nodes \cup PNs, Announce(g, k, src)
      PROVE  Stamped' /\ Down' /\ RowGoes
  BY <1>6, RowAnnounce
<1>7. CASE UNCHANGED vars
  <2>1. UNCHANGED <<stream, file, rows, announces, up, pc>>
    BY <1>7 DEF vars, dirVars, rowVars, bounds, goVars
  <2> QED
    BY <2>1, SameSeen, StampsStay, SameStreamGoes DEF RowInv, Down
<1> QED
  BY <1>1, <1>2, <1>3, <1>4, <1>5, <1>6, <1>7 DEF Next

(***************************************************************************)
(* An announce leaves its stream only when its row is deleted, when its    *)
(* source announces again or when it is the last of a full stream          *)
(* (RemoveAnnounce, NodeAnnounceReceived, PNAnnounceReceived), however     *)
(* many have arrived since the rows were drawn.                            *)
(***************************************************************************)
THEOREM RowsGoAlone == Spec => OnlyTheRowGoes
<1>1. Spec => []RowInv
  BY RowInit, RowStep, PTL DEF Spec
<1>2. RowInv /\ [Next]_vars => [RowGoes]_vars
  BY RowStep
<1>3. Spec => [][RowGoes]_vars
  BY <1>1, <1>2, PTL DEF Spec
<1> QED
  BY <1>3 DEF OnlyTheRowGoes, RowGoes

-----------------------------------------------------------------------------
(***************************************************************************)
(* One row for each source, when the streams are compacted.                *)
(***************************************************************************)

OnePer(s) == \A i, j \in DOMAIN s : s[i].src = s[j].src => i = j

OnePerSource ==
  \A k \in Kinds : OnePer(stream[k]) /\ OnePer(file.stream[k])

SourceInv == TInv /\ OnePerSource /\ OnePer(rows)

LEMMA EmptyOnePer == OnePer(<<>>)
BY DEF OnePer

LEMMA KeepOnePer ==
  ASSUME NEW s, IsStream(s), OnePer(s), NEW I \in SUBSET DOMAIN s
  PROVE  OnePer(Keep(s, I))
<1>1. s \in Seq(Announces)
  BY DEF IsStream
<1>2. /\ DOMAIN Keep(s, I) = 1..Cardinality(I)
      /\ \A k \in 1..Cardinality(I) : \E i \in I : Rank(I, i) = k /\ Keep(s, I)[k] = s[i]
  <2>1. /\ Keep(s, I) \in Seq(Announces)
        /\ Len(Keep(s, I)) = Cardinality(I)
        /\ \A k \in 1..Cardinality(I) : \E i \in I : Rank(I, i) = k /\ Keep(s, I)[k] = s[i]
    BY <1>1, KeepIsKept
  <2> QED
    BY <2>1
<1> SUFFICES ASSUME NEW j \in 1..Cardinality(I), NEW k \in 1..Cardinality(I),
                    Keep(s, I)[j].src = Keep(s, I)[k].src
             PROVE  j = k
  BY <1>2 DEF OnePer
<1>3. PICK x \in I, y \in I : /\ Rank(I, x) = j /\ Keep(s, I)[j] = s[x]
                              /\ Rank(I, y) = k /\ Keep(s, I)[k] = s[y]
  BY <1>2
<1> QED
  BY <1>3 DEF OnePer

LEMMA WithoutTimeOnePer ==
  ASSUME NEW s, IsStream(s), OnePer(s), NEW at
  PROVE  OnePer(WithoutTime(s, at))
<1>1. s \in Seq(Announces) /\ Len(s) \in Nat
  BY DEF IsStream
<1>2. ASSUME NEW n \in 1..Len(s) PROVE OnePer(RemoveAt(s, n))
  <2>1. /\ DOMAIN RemoveAt(s, n) = 1..Len(s)-1
        /\ \A i \in 1..Len(s)-1 : RemoveAt(s, n)[i] = s[IF i < n THEN i ELSE i + 1]
    <3>1. /\ RemoveAt(s, n) \in Seq(Announces)
          /\ Len(RemoveAt(s, n)) = Len(s) - 1
          /\ \A i \in 1..Len(s)-1 : RemoveAt(s, n)[i] = IF i < n THEN s[i] ELSE s[i + 1]
      BY <1>1, RemoveAtKeeps
    <3> QED
      BY <1>1, <3>1
  <2>2. \A i \in 1..Len(s)-1 : (IF i < n THEN i ELSE i + 1) \in DOMAIN s
    BY <1>1
  <2>3. \A i, j \in 1..Len(s)-1 :
          (IF i < n THEN i ELSE i + 1) = (IF j < n THEN j ELSE j + 1) => i = j
    BY <1>1
  <2> QED
    BY <2>1, <2>2, <2>3 DEF OnePer
<1>3. CASE ~\E i \in DOMAIN s : s[i].at = at
  BY <1>3 DEF WithoutTime
<1>4. CASE \E i \in DOMAIN s : s[i].at = at
  <2>1. PICK n \in DOMAIN s : WithoutTime(s, at) = RemoveAt(s, n)
    BY <1>4, FirstAt DEF WithoutTime
  <2> QED
    BY <1>1, <1>2, <2>1
<1> QED
  BY <1>3, <1>4

LEMMA RecordedOnePer ==
  ASSUME NEW k, NEW a \in Announces, IsStream(stream[k]), Compact, OnePer(stream[k])
  PROVE  OnePer(Recorded(k, a))
<1> DEFINE s == stream[k]
           I == {i \in DOMAIN s : s[i].src # a.src}
           rest == Keep(s, I)
           new == <<a>> \o rest
<1>1. s \in Seq(Announces) /\ StreamMax \in Nat \ {0} /\ I \in SUBSET DOMAIN s
  BY StreamMaxAssumption DEF IsStream
<1>2. /\ rest \in Seq(Announces) /\ Len(rest) \in Nat
      /\ \A j \in 1..Len(rest) : rest[j].src # a.src
      /\ \A i, j \in 1..Len(rest) : rest[i].src = rest[j].src => i = j
  <2>1. \A i \in I : s[i].src # a.src
    OBVIOUS
  <2> HIDE DEF I
  <2>2. OnePer(rest)
    BY <1>1, KeepOnePer
  <2>3. /\ rest \in Seq(Announces) /\ Len(rest) = Cardinality(I)
        /\ \A j \in 1..Cardinality(I) : \E i \in I : rest[j] = s[i]
    BY <1>1, KeepIsKept
  <2> HIDE DEF rest
  <2>4. DOMAIN rest = 1..Len(rest) /\ Len(rest) \in Nat
    BY <2>3
  <2> QED
    BY <2>1, <2>2, <2>3, <2>4 DEF OnePer
<1> HIDE DEF rest
<1>3. /\ new \in Seq(Announces) /\ Len(new) \in Nat /\ Len(new) = 1 + Len(rest) /\ new[1] = a
      /\ \A j \in 2..Len(new) : j - 1 \in 1..Len(rest) /\ new[j] = rest[j - 1]
  BY <1>2
<1> DEFINE r == IF Len(new) > StreamMax THEN SubSeq(new, 1, StreamMax) ELSE new
<1>4. Recorded(k, a) = r
  BY DEF Recorded, Others, rest
<1> HIDE DEF new
<1>5. \A i, j \in 1..Len(new) : new[i].src = new[j].src => i = j
  <2> SUFFICES ASSUME NEW i \in 1..Len(new), NEW j \in 1..Len(new), new[i].src = new[j].src
               PROVE  i = j
    OBVIOUS
  <2>1. ASSUME NEW x \in 2..Len(new) PROVE new[x].src # new[1].src
    <3>1. x - 1 \in 1..Len(rest) /\ new[x] = rest[x - 1] /\ new[1] = a
      BY <1>3
    <3>2. rest[x - 1].src # a.src
      BY <1>2, <3>1
    <3> QED
      BY <3>1, <3>2
  <2>2. CASE i = 1 \/ j = 1
    BY <1>3, <2>1, <2>2
  <2>3. CASE i \in 2..Len(new) /\ j \in 2..Len(new)
    <3>1. /\ i - 1 \in 1..Len(rest) /\ j - 1 \in 1..Len(rest)
          /\ rest[i - 1].src = rest[j - 1].src
      BY <1>3, <2>3
    <3>2. i - 1 = j - 1
      BY <1>2, <3>1
    <3> QED
      BY <3>2, <2>3
  <2> QED
    BY <1>3, <2>2, <2>3
<1>6. /\ DOMAIN r \subseteq 1..Len(new)
      /\ \A j \in DOMAIN r : r[j] = new[j]
  BY <1>1, <1>3
<1> HIDE DEF r
<1>7. OnePer(r)
  BY <1>5, <1>6 DEF OnePer
<1> QED
  BY <1>4, <1>7

LEMMA SourceInit == Init => SourceInv
BY TypesInit, EmptyOnePer DEF Init, SourceInv, OnePerSource

LEMMA SourceNext == Compact /\ SourceInv /\ [Next]_vars => SourceInv'
<1> SUFFICES ASSUME Compact, SourceInv, [Next]_vars PROVE OnePerSource' /\ OnePer(rows)'
  BY TypesNext DEF SourceInv
<1>t. \A k \in Kinds : IsStream(stream[k]) /\ OnePer(stream[k]) /\ OnePer(file.stream[k])
  BY DEF SourceInv, OnePerSource, TInv, TypeOK
<1>v. ASSUME NEW s, IsStream(s), OnePer(s) PROVE OnePer(Visible(s))
  <2> DEFINE I == {i \in DOMAIN s : s[i].src \notin ignored}
  <2>1. Visible(s) = Keep(s, I) /\ I \in SUBSET DOMAIN s
    BY DEF Visible
  <2> HIDE DEF I
  <2> QED
    BY <1>v, <2>1, KeepOnePer
<1>n. "node" \in Kinds
  BY DEF Kinds
<1>1. CASE UNCHANGED <<stream, file, rows>>
  BY <1>1 DEF SourceInv, OnePerSource
<1>2. CASE Start
  BY <1>2, <1>t DEF Start, SourceInv, OnePerSource, rowVars
<1>3. CASE ProcessEnds
  BY <1>3, <1>t, EmptyOnePer DEF ProcessEnds, OnePerSource
<1>4. ASSUME NEW g \in Goroutines, SaveBegins(g) \/ SaveEnds(g) PROVE OnePerSource' /\ OnePer(rows)'
  BY <1>4, <1>t, EmptyOnePer DEF SaveBegins, SaveEnds, SourceInv, OnePerSource, rowVars
<1>5. CASE Refresh
  BY <1>5, <1>t, <1>v, <1>n DEF Refresh, SourceInv, OnePerSource, dirVars
<1>6. CASE DeleteRow
  <2>1. \A k \in Kinds : OnePer(stream'[k]) /\ IsStream(stream'[k])
    BY <1>6, <1>t, WithoutTimeOnePer, WithoutTimeKeeps DEF DeleteRow
  <2>2. rows' = Visible(stream'["node"]) /\ UNCHANGED file
    BY <1>6 DEF DeleteRow
  <2> QED
    BY <1>t, <1>v, <1>n, <2>1, <2>2 DEF OnePerSource
<1>7. ASSUME NEW g \in Handlers, NEW k \in Kinds, NEW src \in Nodes \cup PNs, Announce(g, k, src)
      PROVE  OnePerSource' /\ OnePer(rows)'
  <2> DEFINE a == [kind |-> k, src |-> src, at |-> announces]
  <2>1. a \in Announces
    BY NewAnnounce DEF SourceInv, TInv, TypeOK
  <2>2. stream' = IF src \in ignored THEN stream ELSE [stream EXCEPT ![k] = Recorded(k, a)]
    BY <1>7 DEF Announce
  <2> HIDE DEF a
  <2>3. OnePer(Recorded(k, a)) /\ DOMAIN stream = Kinds
    BY <1>t, <2>1, RecordedOnePer DEF SourceInv, TInv, TypeOK
  <2>4. \A x \in Kinds : OnePer(stream'[x])
    BY <1>t, <2>2, <2>3
  <2> QED
    BY <1>7, <1>t, <2>4 DEF Announce, rowVars, SourceInv, OnePerSource
<1>8. CASE UserStep /\ ~Refresh /\ ~DeleteRow
  BY <1>1, <1>8 DEF UserStep, Forget, SaveEntry, SetTrust, SelectPN, Block, Unblock, Move, Persist, TellRouter,
                    Shutdown, dirVars, rowVars
<1>9. ASSUME NEW g \in Goroutines, GoroutineStep(g), ~SaveBegins(g), ~SaveEnds(g)
      PROVE  OnePerSource' /\ OnePer(rows)'
  BY <1>1, <1>9 DEF GoroutineStep, Remember, Select, List, Push, Check, Find, dirVars, rowVars
<1>10. CASE SetRouter \/ ApplyBegins \/ Apply \/ UNCHANGED vars
  BY <1>1, <1>10 DEF SetRouter, ApplyBegins, Apply, vars, dirVars, rowVars
<1> QED
  BY <1>2, <1>3, <1>4, <1>5, <1>6, <1>7, <1>8, <1>9, <1>10 DEF Next

(***************************************************************************)
(* "removes prior announces from the same source" (compactList): with      *)
(* CompactStream on in every run, a source has at most one announce in     *)
(* each stream and in what is saved of it, whatever order announces,       *)
(* deletions, saves and the ends of the program come in.                   *)
(***************************************************************************)
THEOREM SourcesAppearOnce == ASSUME Compact PROVE Spec => []OnePerSource
<1>1. SourceInv /\ [Next]_vars => SourceInv'
  BY SourceNext
<1>2. SourceInv => OnePerSource
  BY DEF SourceInv
<1> QED
  BY <1>1, <1>2, SourceInit, PTL DEF Spec
=============================================================================
