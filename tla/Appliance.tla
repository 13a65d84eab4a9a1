------------------------------ MODULE Appliance ------------------------------
(***************************************************************************)
(* The appliance of the iOS application, ios/bridge: appliance.go, host.go,*)
(* engine.go, subsystems.go and the listener of console.go, over the       *)
(* sensor feed.                                                            *)
(*                                                                         *)
(* The application's threads start it, stop it, open consoles on it and    *)
(* hand it samples, in any order.  A Host is one run of it; one that has   *)
(* been closed is followed by another.  A console is a goroutine that      *)
(* waits on a socket, always at the same path, and runs a client on the    *)
(* connection; the next console cancels it and does not wait.              *)
(***************************************************************************)
EXTENDS Feed, Sequences

CONSTANTS
  Threads,    \* of the application
  Sessions,   \* consoles
  Nobody,     \* nil
  MaxCalls    \* bound: what the application asks for

ASSUME NobodyAssumption == Nobody \notin Threads \cup Sessions
ASSUME FirstHostAssumption == 1 \in Hosts
ASSUME MaxCallsAssumption == MaxCalls \in Nat

\* ApplianceDirs.Subsystems, in the order in which they are started.
Subsystems == <<"transport", "hub", "bot">>
Names == {"transport", "hub", "bot"}

VARIABLES
  host,        \* appliance
  amu,         \* who holds applianceMu
  hmu,         \* hmu[h]: who holds Host.mu
  closed,      \* closed[h]: Host.closed
  engine,      \* engine[h]: Host.engine is not nil
  started,     \* started[h]: how many of the subsystems are in Engine.started
  up,          \* up[h]: the subsystems that run
  returned,    \* history: the hosts whose bot has come back of itself
  cancel,      \* cancel[h]: Host.consoleCancel, as the session it cancels
  done,        \* done[h]: Host.consoleDone, as the session that closes it
  session,     \* session[s]: where the console's goroutine is
  owner,       \* owner[s]: the host that runs it
  cancelled,   \* the sessions whose context is cancelled
  socket,      \* whose listener the socket's path leads to
  lost,        \* history: the sessions that Close does not wait for, or no more
  pc,          \* pc[c]: where thread c is
  on,          \* on[c]: the host it acts on
  arg,         \* arg[c]: its session, or the readers it has yet to serve
  calls

hostVars    == <<host, amu, hmu, closed, engine>>
subVars     == <<started, up, returned>>
consoleVars == <<cancel, done, session, owner, cancelled, socket, lost>>
threadVars  == <<pc, on, arg>>
vars == <<feedVars, hostVars, subVars, consoleVars, threadVars, calls>>

\* Engine.mu is held by the thread that stops the engine.
Stopping == {"stop subs", "stop release", "stop wait"}
Undoing  == {"undo subs", "undo release", "undo wait"}
Places == {"idle", "get", "start", "feed", "subs", "close", "wait",
           "console", "listen", "clear", "sample", "running", "publish", "deliver"} \cup Stopping \cup Undoing

HostTypes ==
  /\ host \in Hosts /\ amu \in Threads \cup {Nobody} /\ hmu \in [Hosts -> Threads \cup {Nobody}]
  /\ closed \in [Hosts -> BOOLEAN] /\ engine \in [Hosts -> BOOLEAN]

SubTypes ==
  started \in [Hosts -> 0..Len(Subsystems)] /\ up \in [Hosts -> SUBSET Names] /\ returned \subseteq Hosts

ConsoleTypes ==
  /\ cancel \in [Hosts -> Sessions \cup {Nobody}] /\ done \in [Hosts -> Sessions \cup {Nobody}]
  /\ session \in [Sessions -> {"none", "bind", "listen", "client", "end", "ended"}]
  /\ owner \in [Sessions -> Hosts \cup {NoHost}]
  /\ cancelled \subseteq Sessions /\ lost \subseteq Sessions /\ socket \in Sessions \cup {Nobody}

Args == [session : Sessions \cup {Nobody}, engine : BOOLEAN, readers : SUBSET Readers]

ThreadTypes ==
  /\ pc \in [Threads -> Places] /\ on \in [Threads -> Hosts] /\ arg \in [Threads -> Args]
  /\ calls \in 0..MaxCalls

TypeOK == FeedTypeOK /\ HostTypes /\ SubTypes /\ ConsoleTypes /\ ThreadTypes

Nothing == [session |-> Nobody, engine |-> FALSE, readers |-> {}]

Init ==
  /\ FeedInit
  /\ host = 1 /\ amu = Nobody /\ hmu = [h \in Hosts |-> Nobody]
  /\ closed = [h \in Hosts |-> FALSE] /\ engine = [h \in Hosts |-> FALSE]
  /\ started = [h \in Hosts |-> 0] /\ up = [h \in Hosts |-> {}] /\ returned = {}
  /\ cancel = [h \in Hosts |-> Nobody] /\ done = [h \in Hosts |-> Nobody]
  /\ session = [s \in Sessions |-> "none"] /\ owner = [s \in Sessions |-> NoHost]
  /\ cancelled = {} /\ lost = {} /\ socket = Nobody
  /\ pc = [c \in Threads |-> "idle"] /\ on = [c \in Threads |-> 1] /\ arg = [c \in Threads |-> Nothing]
  /\ calls = 0

Go(c, place) == pc' = [pc EXCEPT ![c] = place]
Free(h) == hmu[h] = Nobody

\* The application calls the bridge.
Call(c, place) ==
  /\ pc[c] = "idle" /\ amu = Nobody /\ calls < MaxCalls
  /\ calls' = calls + 1
  /\ on' = [on EXCEPT ![c] = host] /\ arg' = [arg EXCEPT ![c] = Nothing]
  /\ Go(c, place)

-----------------------------------------------------------------------------
(***************************************************************************)
(* StartAppliance: Host.Start and Engine.Start.                            *)
(***************************************************************************)

\* Bound: there is a host left.
HostLeft == closed[host] => host + 1 \in Hosts

StartAppliance(c) ==
  /\ Call(c, "get") /\ HostLeft
  /\ amu' = c
  /\ UNCHANGED <<feedVars, host, hmu, closed, engine, subVars, consoleVars>>

\* Closed and Successor.
GetHost(c) ==
  /\ pc[c] = "get" /\ Free(host) /\ HostLeft
  /\ host' = IF closed[host] THEN host + 1 ELSE host
  /\ on' = [on EXCEPT ![c] = host']
  /\ amu' = Nobody
  /\ Go(c, "start")
  /\ UNCHANGED <<feedVars, hmu, closed, engine, subVars, consoleVars, arg, calls>>

Start(c) ==
  /\ pc[c] = "start" /\ Free(on[c])
  /\ IF closed[on[c]] \/ engine[on[c]]
       THEN Go(c, "idle") /\ UNCHANGED hmu
       ELSE Go(c, "feed") /\ hmu' = [hmu EXCEPT ![on[c]] = c]
  /\ UNCHANGED <<feedVars, host, amu, closed, engine, subVars, consoleVars, on, arg, calls>>

\* NewFeed; another program may have the port.
BindFeed(c) ==
  /\ pc[c] = "feed"
  /\ \/ FeedOpens(on[c]) /\ Go(c, "subs") /\ UNCHANGED hmu
     \/ Go(c, "idle") /\ hmu' = [hmu EXCEPT ![on[c]] = Nobody] /\ UNCHANGED feedVars
  /\ UNCHANGED <<host, amu, closed, engine, subVars, consoleVars, on, arg, calls>>

\* The next subsystem starts, or cannot be started and leaves nothing behind.
StartSub(c) ==
  /\ pc[c] = "subs" /\ started[on[c]] < Len(Subsystems)
  /\ \/ /\ started' = [started EXCEPT ![on[c]] = @ + 1]
        /\ up' = [up EXCEPT ![on[c]] = @ \cup {Subsystems[started'[on[c]]]}]
        /\ UNCHANGED <<returned, pc>>
     \/ Go(c, "undo subs") /\ UNCHANGED subVars
  /\ UNCHANGED <<feedVars, hostVars, consoleVars, on, arg, calls>>

Started(c) ==
  /\ pc[c] = "subs" /\ started[on[c]] = Len(Subsystems)
  /\ engine' = [engine EXCEPT ![on[c]] = TRUE]
  /\ hmu' = [hmu EXCEPT ![on[c]] = Nobody]
  /\ Go(c, "idle")
  /\ UNCHANGED <<feedVars, host, amu, closed, subVars, consoleVars, on, arg, calls>>

-----------------------------------------------------------------------------
(***************************************************************************)
(* closeSubsLocked and Feed.Close: by the Start that failed, or by Stop.   *)
(***************************************************************************)

Then(c, stop, undo) == Go(c, IF pc[c] \in Stopping THEN stop ELSE undo)

\* Mutant: the subsystem that was started first is closed first.
CloseSubForward(c) ==
  LET h == on[c]
      sub == Subsystems[Len(Subsystems) + 1 - started[h]]
  IN  /\ pc[c] \in {"stop subs", "undo subs"} /\ started[h] > 0
      /\ started' = [started EXCEPT ![h] = @ - 1]
      /\ \/ up' = [up EXCEPT ![h] = @ \ {sub}]
         \/ sub = "bot" /\ UNCHANGED up
      /\ UNCHANGED <<feedVars, hostVars, returned, consoleVars, threadVars, calls>>

\* Newest first.  A bot that does not come back within botStopGrace is left.
CloseSub(c) ==
  LET h == on[c]
      sub == Subsystems[started[h]]
  IN  /\ pc[c] \in {"stop subs", "undo subs"} /\ started[h] > 0
      /\ started' = [started EXCEPT ![h] = @ - 1]
      /\ \/ up' = [up EXCEPT ![h] = @ \ {sub}]
         \/ sub = "bot" /\ UNCHANGED up
      /\ UNCHANGED <<feedVars, hostVars, returned, consoleVars, threadVars, calls>>

\* bot.Run returns: after its Close gave up on it, or of itself while it is
\* among the started, which nobody looks at.
BotEnds(h) ==
  /\ "bot" \in up[h]
  /\ up' = [up EXCEPT ![h] = @ \ {"bot"}]
  /\ returned' = IF started[h] = Len(Subsystems) THEN returned \cup {h} ELSE returned
  /\ UNCHANGED <<feedVars, hostVars, started, consoleVars, threadVars, calls>>

CloseFeed(c) ==
  LET h == on[c]
  IN  /\ \/ /\ pc[c] \in {"stop subs", "undo subs"} /\ started[h] = 0
            /\ FeedCloses(h) /\ arg' = [arg EXCEPT ![c].readers = subs[h]]
            /\ Then(c, "stop release", "undo release")
         \/ /\ pc[c] \in {"stop release", "undo release"}
            /\ FeedReleases(h, arg[c].readers)
            /\ Then(c, "stop wait", "undo wait") /\ UNCHANGED arg
      /\ UNCHANGED <<hostVars, subVars, consoleVars, on, calls>>

\* Mutant: what a failed start has bound is kept.
UndoneEarly(c) ==
  /\ pc[c] \in {"stop wait", "undo subs"}
  /\ IF pc[c] = "stop wait" THEN FeedWaits(on[c]) ELSE started[on[c]] = 0 /\ UNCHANGED feedVars
  /\ IF pc[c] = "stop wait" THEN amu' = Nobody /\ UNCHANGED hmu
                            ELSE hmu' = [hmu EXCEPT ![on[c]] = Nobody] /\ UNCHANGED amu
  /\ Go(c, "idle")
  /\ UNCHANGED <<host, closed, engine, subVars, consoleVars, on, arg, calls>>

\* Feed.Close waits for its goroutines, and the call returns.
FeedClosed(c) ==
  /\ pc[c] \in {"stop wait", "undo wait"}
  /\ FeedWaits(on[c])
  /\ IF pc[c] = "stop wait" THEN amu' = Nobody /\ UNCHANGED hmu
                            ELSE hmu' = [hmu EXCEPT ![on[c]] = Nobody] /\ UNCHANGED amu
  /\ Go(c, "idle")
  /\ UNCHANGED <<host, closed, engine, subVars, consoleVars, on, arg, calls>>

-----------------------------------------------------------------------------
(***************************************************************************)
(* StopAppliance: Host.Close and Engine.Close.                             *)
(***************************************************************************)

StopAppliance(c) ==
  /\ Call(c, "close")
  /\ amu' = c
  /\ UNCHANGED <<feedVars, host, hmu, closed, engine, subVars, consoleVars>>

\* Mutant: the lock is let go once the host is closed.
CloseUnlocked(c) ==
  LET h == on[c]
  IN  /\ pc[c] = "close" /\ Free(h)
      /\ amu' = Nobody
      /\ IF closed[h]
           THEN Go(c, "idle") /\ UNCHANGED <<closed, engine, cancel, cancelled, arg>>
           ELSE /\ closed' = [closed EXCEPT ![h] = TRUE] /\ engine' = [engine EXCEPT ![h] = FALSE]
                /\ cancel' = [cancel EXCEPT ![h] = Nobody]
                /\ cancelled' = cancelled \cup ({cancel[h]} \ {Nobody})
                /\ arg' = [arg EXCEPT ![c].session = done[h], ![c].engine = engine[h]]
                /\ Go(c, "wait")
      /\ UNCHANGED <<feedVars, host, hmu, subVars, done, session, owner, socket, lost, on, calls>>

Close(c) ==
  LET h == on[c]
  IN  /\ pc[c] = "close" /\ Free(h)
      /\ IF closed[h]
           THEN /\ amu' = Nobody /\ Go(c, "idle")
                /\ UNCHANGED <<closed, engine, cancel, cancelled, arg>>
           ELSE /\ closed' = [closed EXCEPT ![h] = TRUE] /\ engine' = [engine EXCEPT ![h] = FALSE]
                /\ cancel' = [cancel EXCEPT ![h] = Nobody]
                /\ cancelled' = cancelled \cup ({cancel[h]} \ {Nobody})
                /\ arg' = [arg EXCEPT ![c].session = done[h], ![c].engine = engine[h]]
                /\ Go(c, "wait")
                /\ UNCHANGED amu
      /\ UNCHANGED <<feedVars, host, hmu, subVars, done, session, owner, socket, lost, on, calls>>

\* Mutant: the wait for the console has no timeout.
WaitForever(c) ==
  /\ pc[c] = "wait" /\ Free(on[c])
  /\ arg[c].session # Nobody => session[arg[c].session] = "ended"
  /\ UNCHANGED lost
  /\ done' = [done EXCEPT ![on[c]] = Nobody]
  /\ IF arg[c].engine THEN Go(c, "stop subs") /\ UNCHANGED amu ELSE Go(c, "idle") /\ amu' = Nobody
  /\ UNCHANGED <<feedVars, host, hmu, closed, engine, subVars, cancel, session, owner, cancelled, socket, on, arg, calls>>

\* The newest console has ended, or TimeoutWaitForConsole is over.
Wait(c) ==
  /\ pc[c] = "wait" /\ Free(on[c])
  /\ \/ (arg[c].session # Nobody => session[arg[c].session] = "ended") /\ UNCHANGED lost
     \/ arg[c].session # Nobody /\ lost' = lost \cup {arg[c].session}
  /\ done' = [done EXCEPT ![on[c]] = Nobody]
  /\ IF arg[c].engine THEN Go(c, "stop subs") /\ UNCHANGED amu ELSE Go(c, "idle") /\ amu' = Nobody
  /\ UNCHANGED <<feedVars, host, hmu, closed, engine, subVars, cancel, session, owner, cancelled, socket, on, arg, calls>>

-----------------------------------------------------------------------------
(***************************************************************************)
(* StartConsoleSession, and the goroutine of the console.                  *)
(***************************************************************************)

\* Bound: there is a session left.
StartConsole(c) ==
  /\ Call(c, "console")
  /\ Cardinality({d \in Threads : pc[d] = "console"}) < Cardinality({s \in Sessions : session[s] = "none"})
  /\ UNCHANGED <<feedVars, hostVars, subVars, consoleVars>>

\* The console that is replaced is cancelled, and nobody waits for it.  The
\* bound of StartConsole has left a session.
Register(c) ==
  LET h == on[c]
      s == CHOOSE x \in Sessions : session[x] = "none"
  IN  /\ pc[c] = "console" /\ Free(h) /\ \E x \in Sessions : session[x] = "none"
      /\ IF closed[h]
           THEN Go(c, "idle") /\ UNCHANGED <<consoleVars, arg>>
           ELSE /\ cancelled' = cancelled \cup ({cancel[h]} \ {Nobody})
                /\ lost' = lost \cup ({done[h]} \ {Nobody})
                /\ cancel' = [cancel EXCEPT ![h] = s] /\ done' = [done EXCEPT ![h] = s]
                /\ session' = [session EXCEPT ![s] = "bind"] /\ owner' = [owner EXCEPT ![s] = h]
                /\ arg' = [arg EXCEPT ![c].session = s]
                /\ Go(c, "listen")
                /\ UNCHANGED socket
      /\ UNCHANGED <<feedVars, hostVars, subVars, on, calls>>

\* The file at the path is removed before the path is bound; a path that is
\* too long is refused before that.
Listen(c) ==
  LET s == arg[c].session
  IN  /\ pc[c] = "listen"
      /\ \/ /\ socket' = s /\ session' = [session EXCEPT ![s] = "listen"]
            /\ Go(c, "idle") /\ UNCHANGED cancelled
         \/ /\ socket' \in {socket, Nobody} /\ cancelled' = cancelled \cup {s}
            /\ Go(c, "clear") /\ UNCHANGED session
      /\ UNCHANGED <<feedVars, hostVars, subVars, cancel, done, owner, lost, on, arg, calls>>

\* The handles are cleared, whoever's they are by now.
ClearHandles(c) ==
  LET h == on[c]
  IN  /\ pc[c] = "clear" /\ Free(h)
      /\ lost' = lost \cup ({done[h]} \ {Nobody, arg[c].session})
      /\ cancel' = [cancel EXCEPT ![h] = Nobody] /\ done' = [done EXCEPT ![h] = Nobody]
      /\ session' = [session EXCEPT ![arg[c].session] = "ended"]
      /\ Go(c, "idle")
      /\ UNCHANGED <<feedVars, hostVars, subVars, owner, cancelled, socket, on, arg, calls>>

\* The application dials the path and the client runs.
DialConsole(s) ==
  /\ session[s] = "listen" /\ socket = s
  /\ session' = [session EXCEPT ![s] = "client"]
  /\ UNCHANGED <<feedVars, hostVars, subVars, cancel, done, owner, cancelled, socket, lost, threadVars, calls>>

\* Nobody has dialled yet: Listener.Close removes the file at the path.
StopAccepting(s) ==
  /\ session[s] = "listen" /\ s \in cancelled
  /\ socket' = Nobody
  /\ session' = [session EXCEPT ![s] = "end"]
  /\ UNCHANGED <<feedVars, hostVars, subVars, cancel, done, owner, cancelled, lost, threadVars, calls>>

\* The user quits, the application goes, or the client sees the context: it
\* may take any time to.
ClientEnds(s) ==
  /\ session[s] = "client"
  /\ session' = [session EXCEPT ![s] = "end"]
  /\ UNCHANGED <<feedVars, hostVars, subVars, cancel, done, owner, cancelled, socket, lost, threadVars, calls>>

\* The deferred Listener.Close, and close(done).
SessionEnds(s) ==
  /\ session[s] = "end"
  /\ socket' = Nobody
  /\ session' = [session EXCEPT ![s] = "ended"] /\ cancelled' = cancelled \cup {s}
  /\ UNCHANGED <<feedVars, hostVars, subVars, cancel, done, owner, lost, threadVars, calls>>

-----------------------------------------------------------------------------
(***************************************************************************)
(* FeedLocation and FeedHeading.                                           *)
(***************************************************************************)

FeedSample(c) ==
  /\ Call(c, "sample")
  /\ UNCHANGED <<feedVars, hostVars, subVars, consoleVars>>

GetEngine(c) ==
  /\ pc[c] = "sample" /\ Free(on[c])
  /\ Go(c, IF engine[on[c]] THEN "running" ELSE "idle")
  /\ UNCHANGED <<feedVars, hostVars, subVars, consoleVars, on, arg, calls>>

\* Engine.mu: whoever closes the engine holds it to the end.
RunningFeed(c) ==
  /\ pc[c] = "running" /\ \A d \in Threads : on[d] = on[c] => pc[d] \notin Stopping
  /\ Go(c, IF feed[on[c]] = "open" THEN "publish" ELSE "idle")
  /\ UNCHANGED <<feedVars, hostVars, subVars, consoleVars, on, arg, calls>>

Publish(c) ==
  \/ /\ pc[c] = "publish"
     /\ IF feed[on[c]] = "open" THEN Go(c, "deliver") /\ arg' = [arg EXCEPT ![c].readers = subs[on[c]]]
                                ELSE Go(c, "idle") /\ UNCHANGED arg
     /\ UNCHANGED <<feedVars, hostVars, subVars, consoleVars, on, calls>>
  \/ /\ pc[c] = "deliver"
     /\ IF arg[c].readers = {} THEN Go(c, "idle") /\ UNCHANGED <<feedVars, arg>>
        ELSE \E r \in arg[c].readers : Deliver(r) /\ arg' = [arg EXCEPT ![c].readers = @ \ {r}] /\ UNCHANGED pc
     /\ UNCHANGED <<hostVars, subVars, consoleVars, on, calls>>

-----------------------------------------------------------------------------
Asks(c) == StartAppliance(c) \/ StopAppliance(c) \/ StartConsole(c) \/ FeedSample(c)

ThreadStep(c) ==
  \/ GetHost(c) \/ Start(c) \/ BindFeed(c) \/ StartSub(c) \/ Started(c)
  \/ CloseSub(c) \/ CloseFeed(c) \/ FeedClosed(c)
  \/ Close(c) \/ Wait(c)
  \/ Register(c) \/ Listen(c) \/ ClearHandles(c)
  \/ GetEngine(c) \/ RunningFeed(c) \/ Publish(c)

SessionStep(s) == StopAccepting(s) \/ SessionEnds(s)

FeedStep == FeedGoroutines /\ UNCHANGED <<hostVars, subVars, consoleVars, threadVars, calls>>

Outside ==
  \/ \E c \in Threads : Asks(c)
  \/ \E s \in Sessions : DialConsole(s) \/ ClientEnds(s)
  \/ \E h \in Hosts : BotEnds(h)
  \/ FeedReaders /\ UNCHANGED <<hostVars, subVars, consoleVars, threadVars, calls>>

Next ==
  \/ \E c \in Threads : ThreadStep(c)
  \/ \E s \in Sessions : SessionStep(s)
  \/ FeedStep \/ Outside

Spec == Init /\ [][Next]_vars

\* The threads in the bridge and the goroutines of the feed run.  Nothing is
\* assumed of the application, the readers and the consoles: Close gives up on
\* a console after a while, so its timeout is a step of its thread.
FairSpec ==
  /\ Spec
  /\ \A c \in Threads : WF_vars(ThreadStep(c))
  /\ WF_vars(FeedStep)

-----------------------------------------------------------------------------
(***************************************************************************)
(* "bringing the stack back up means the one that is going away is gone    *)
(* first" (StopAppliance): a start never finds the sensor port bound, or a *)
(* transport up, from an earlier run.                                      *)
(***************************************************************************)
OneAtATime ==
  \A c \in Threads : pc[c] \in {"feed", "subs"} =>
    /\ pc[c] = "feed" => port = NoHost
    /\ \A h \in Hosts \ {on[c]} : up[h] \cap {"transport", "hub"} = {}

(***************************************************************************)
(* "half an appliance that reports an error is worse than none" (Engine.-  *)
(* Start): a host that nobody is starting or stopping runs all of the      *)
(* appliance or nothing of it, but for a bot that came back of itself, of  *)
(* which the engine does not know, and one that does not come back.        *)
(***************************************************************************)
AllOrNothing ==
  \A h \in Hosts : (\A c \in Threads : on[c] = h => pc[c] \notin Stopping \cup Undoing \cup {"subs", "wait"}) =>
    IF engine[h] THEN feed[h] = "open" /\ \A sub \in Names \ up[h] : sub = "bot" /\ h \in returned
                 ELSE feed[h] \in {"none", "gone"} /\ up[h] \subseteq {"bot"}

(***************************************************************************)
(* "the console first, then the engine, so the client stops drawing before *)
(* the transport it draws from goes away" (Host.Close), and of the engine  *)
(* the hub before the transport: unless Close gave up on that console, or  *)
(* another has taken its place.                                            *)
(***************************************************************************)
TransportGoesLast ==
  /\ \A h \in Hosts : "hub" \in up[h] => "transport" \in up[h]
  /\ \A c \in Threads : pc[c] \in Stopping =>
       \A s \in Sessions : owner[s] = on[c] => session[s] = "ended" \/ s \in lost

(***************************************************************************)
(* "A session that will not come back does not hold the shutdown open"     *)
(* (Host.Close): StopAppliance returns, whatever the client, the bot and   *)
(* the readers of the feed do.                                             *)
(***************************************************************************)
StopReturns == \A c \in Threads : pc[c] = "close" ~> pc[c] = "idle"

(***************************************************************************)
(* "an old session that has already been abandoned must not block the new  *)
(* one" (StartConsole): a console that waits for the application can be    *)
(* dialled.                                                                *)
(***************************************************************************)
ConsoleCanBeDialled == \A s \in Sessions \ cancelled : session[s] = "listen" => socket = s
=============================================================================
