-------------------------------- MODULE Feed --------------------------------
(***************************************************************************)
(* The sensor feed of the appliance, ios/bridge/feed.go: a listener on a   *)
(* port of the loopback interface, the goroutine that accepts its readers, *)
(* a goroutine for each reader that writes to it what is published, and a  *)
(* Close that waits for all of them.                                       *)
(*                                                                         *)
(* Feeds are numbered as the runs of the appliance that own them: run h    *)
(* opens at most one.  Publish and Close are called from outside, and are  *)
(* operators here; Appliance calls them.                                   *)
(***************************************************************************)
EXTENDS Integers, FiniteSets

CONSTANTS
  Hosts,      \* runs of the appliance, numbered
  Readers,    \* connections that the bot and the client may make
  FeedBuffer  \* feedSubscriberBuffer

NoHost == 0

ASSUME ReadersAssumption == IsFiniteSet(Readers)
ASSUME HostsAssumption == Hosts \subseteq Nat \ {NoHost}
ASSUME FeedBufferAssumption == FeedBuffer \in Nat \ {0}

VARIABLES
  port,       \* whose listener the sensor port is bound to
  feed,       \* feed[h]: "none", "open", "closed" (Feed.closed) or "gone": Close
              \* has returned
  accept,     \* accept[h]: where the accept loop is
  hand,       \* hand[h]: the readers it has accepted and not yet served
  subs,       \* subs[h]: Feed.subs
  wg,         \* wg[h]: Feed.wg
  feedOf,     \* feedOf[r]: the feed r has dialled
  conn,       \* conn[r]: "none", "open" or "closed"
  stopped,    \* the readers whose done channel is closed
  server,     \* server[r]: where the goroutine that serves r is
  chunks      \* chunks[r]: how many chunks r's channel holds

feedVars == <<port, feed, accept, hand, subs, wg, feedOf, conn, stopped, server, chunks>>

FeedTypeOK ==
  /\ port \in Hosts \cup {NoHost}
  /\ feed \in [Hosts -> {"none", "open", "closed", "gone"}]
  /\ accept \in [Hosts -> {"none", "accept", "add", "serve", "ended"}]
  /\ hand \in [Hosts -> SUBSET Readers] /\ subs \in [Hosts -> SUBSET Readers] /\ wg \in [Hosts -> Nat]
  /\ feedOf \in [Readers -> Hosts \cup {NoHost}] /\ conn \in [Readers -> {"none", "open", "closed"}]
  /\ stopped \subseteq Readers
  /\ server \in [Readers -> {"none", "serve", "write", "drop", "ended"}]
  /\ chunks \in [Readers -> 0..FeedBuffer]

FeedInit ==
  /\ port = NoHost /\ feed = [h \in Hosts |-> "none"] /\ accept = [h \in Hosts |-> "none"]
  /\ hand = [h \in Hosts |-> {}] /\ subs = [h \in Hosts |-> {}] /\ wg = [h \in Hosts |-> 0]
  /\ feedOf = [r \in Readers |-> NoHost] /\ conn = [r \in Readers |-> "none"] /\ stopped = {}
  /\ server = [r \in Readers |-> "none"] /\ chunks = [r \in Readers |-> 0]

-----------------------------------------------------------------------------
(***************************************************************************)
(* The accept loop.                                                        *)
(***************************************************************************)

Dials(r, h) ==
  /\ conn[r] = "none" /\ port = h /\ accept[h] = "accept"
  /\ feedOf' = [feedOf EXCEPT ![r] = h] /\ conn' = [conn EXCEPT ![r] = "open"]
  /\ hand' = [hand EXCEPT ![h] = {r}]
  /\ accept' = [accept EXCEPT ![h] = "add"]
  /\ UNCHANGED <<port, feed, subs, wg, stopped, server, chunks>>

\* A reader accepted after Close is let go, and the loop ends.
Add(h) ==
  /\ accept[h] = "add"
  /\ IF feed[h] = "open"
       THEN /\ accept' = [accept EXCEPT ![h] = "serve"]
            /\ subs' = [subs EXCEPT ![h] = @ \cup hand[h]]
            /\ UNCHANGED <<hand, wg, conn>>
       ELSE /\ accept' = [accept EXCEPT ![h] = "ended"] /\ wg' = [wg EXCEPT ![h] = @ - 1]
            /\ conn' = [r \in Readers |-> IF r \in hand[h] THEN "closed" ELSE conn[r]]
            /\ hand' = [hand EXCEPT ![h] = {}]
            /\ UNCHANGED subs
  /\ UNCHANGED <<port, feed, feedOf, stopped, server, chunks>>

\* Mutant: Close does not wait for the readers.
ServeUncounted(h) ==
  /\ accept[h] = "serve"
  /\ server' = [r \in Readers |-> IF r \in hand[h] THEN "serve" ELSE server[r]]
  /\ hand' = [hand EXCEPT ![h] = {}]
  /\ accept' = [accept EXCEPT ![h] = "accept"]
  /\ UNCHANGED <<port, feed, subs, wg, feedOf, conn, stopped, chunks>>

Serve(h) ==
  /\ accept[h] = "serve"
  /\ wg' = [wg EXCEPT ![h] = @ + 1]
  /\ server' = [r \in Readers |-> IF r \in hand[h] THEN "serve" ELSE server[r]]
  /\ hand' = [hand EXCEPT ![h] = {}]
  /\ accept' = [accept EXCEPT ![h] = "accept"]
  /\ UNCHANGED <<port, feed, subs, feedOf, conn, stopped, chunks>>

AcceptFails(h) ==
  /\ accept[h] = "accept" /\ port # h
  /\ accept' = [accept EXCEPT ![h] = "ended"] /\ wg' = [wg EXCEPT ![h] = @ - 1]
  /\ UNCHANGED <<port, feed, hand, subs, feedOf, conn, stopped, server, chunks>>

-----------------------------------------------------------------------------
(***************************************************************************)
(* The goroutine that serves a reader.                                     *)
(***************************************************************************)

Take(r) ==
  /\ server[r] = "serve" /\ chunks[r] > 0
  /\ chunks' = [chunks EXCEPT ![r] = @ - 1]
  /\ server' = [server EXCEPT ![r] = "write"]
  /\ UNCHANGED <<port, feed, accept, hand, subs, wg, feedOf, conn, stopped>>

\* The reader has room: it may never have.
Written(r) ==
  /\ server[r] = "write" /\ conn[r] = "open"
  /\ server' = [server EXCEPT ![r] = "serve"]
  /\ UNCHANGED <<port, feed, accept, hand, subs, wg, feedOf, conn, stopped, chunks>>

\* The connection is closed under the write, or done is seen.
Leave(r) ==
  /\ \/ server[r] = "write" /\ conn[r] = "closed"
     \/ server[r] = "serve" /\ r \in stopped
  /\ server' = [server EXCEPT ![r] = "drop"]
  /\ UNCHANGED <<port, feed, accept, hand, subs, wg, feedOf, conn, stopped, chunks>>

Drop(r) ==
  /\ server[r] = "drop"
  /\ server' = [server EXCEPT ![r] = "ended"]
  /\ subs' = [subs EXCEPT ![feedOf[r]] = @ \ {r}] /\ wg' = [wg EXCEPT ![feedOf[r]] = @ - 1]
  /\ stopped' = stopped \cup {r} /\ conn' = [conn EXCEPT ![r] = "closed"]
  /\ UNCHANGED <<port, feed, accept, hand, feedOf, chunks>>

ReaderGoes(r) ==
  /\ conn[r] = "open"
  /\ conn' = [conn EXCEPT ![r] = "closed"]
  /\ UNCHANGED <<port, feed, accept, hand, subs, wg, feedOf, stopped, server, chunks>>

-----------------------------------------------------------------------------
(***************************************************************************)
(* NewFeed, Publish and Close.                                             *)
(***************************************************************************)

FeedOpens(h) ==
  /\ port = NoHost /\ port' = h
  /\ feed' = [feed EXCEPT ![h] = "open"] /\ accept' = [accept EXCEPT ![h] = "accept"]
  /\ wg' = [wg EXCEPT ![h] = @ + 1]
  /\ UNCHANGED <<hand, subs, feedOf, conn, stopped, server, chunks>>

\* One chunk to one reader, which loses it when its channel is full.
Deliver(r) ==
  /\ chunks' = [chunks EXCEPT ![r] = IF @ < FeedBuffer THEN @ + 1 ELSE @]
  /\ UNCHANGED <<port, feed, accept, hand, subs, wg, feedOf, conn, stopped, server>>

FeedCloses(h) ==
  /\ feed' = [feed EXCEPT ![h] = "closed"]
  /\ UNCHANGED <<port, accept, hand, subs, wg, feedOf, conn, stopped, server, chunks>>

\* members: who was in Feed.subs when it was closed.
FeedReleases(h, members) ==
  /\ port' = NoHost
  /\ stopped' = stopped \cup members
  /\ conn' = [r \in Readers |-> IF r \in members THEN "closed" ELSE conn[r]]
  /\ UNCHANGED <<feed, accept, hand, subs, wg, feedOf, server, chunks>>

FeedWaits(h) ==
  /\ wg[h] = 0
  /\ feed' = [feed EXCEPT ![h] = "gone"]
  /\ UNCHANGED <<port, accept, hand, subs, wg, feedOf, conn, stopped, server, chunks>>

-----------------------------------------------------------------------------
FeedGoroutines ==
  \/ \E h \in Hosts : Add(h) \/ Serve(h) \/ AcceptFails(h)
  \/ \E r \in Readers : Take(r) \/ Leave(r) \/ Drop(r)

FeedReaders ==
  \E r \in Readers : Written(r) \/ ReaderGoes(r) \/ \E h \in Hosts : Dials(r, h)

(***************************************************************************)
(* "Close stops the feed and releases every subscriber": when it has       *)
(* returned no goroutine of the feed's is left and no reader is connected  *)
(* to it, also one that was being accepted meanwhile.                      *)
(***************************************************************************)
NobodyOutlivesTheFeed ==
  \A h \in Hosts : feed[h] = "gone" =>
    /\ accept[h] = "ended" /\ port # h
    /\ \A r \in Readers : feedOf[r] = h => conn[r] = "closed" /\ server[r] \in {"none", "ended"}
=============================================================================
