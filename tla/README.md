# go-nomadnet in TLA+

go-nomadnet is a client of the Reticulum network: it sends and receives LXMF
messages, browses the pages of nodes, and may host a node of its own. This
directory holds TLA+ models of its stateful core, the TLC configurations that
check them, and TLAPS proofs. Paths below are relative to the repository or, for
Go packages, to its `nomadnet/`; `textui.go` is `cmd/gonomadnet/textui.go`.

    tlc -workers 2 -config store_main.cfg MCConversationStore
    tlapm ConversationStoreProofs.tla

`PROJECT.json` lists the components, the runs with their properties, the mutants
(one plausible bug for each property, which the run must catch), the source lines
behind every definition, the hazards, the findings and the theorems.

## 1. Inventory

### 1.1 Threads

The program has three kinds of threads, and most of what can go wrong happens
between them:

- the **event loop** of tview. Key handlers, and the closures handed to
  `QueueUpdateDraw`, run here one at a time. What a handler calls (scanning a
  conversation, loading its messages, `Send`, `Delete`) runs here to its end;
- **goroutines of the LXMF router and of Reticulum** (packages of go-reticulum,
  outside this repository), which call back: `lxmfDelivery` for an arriving
  message, `MessageNotification` for one delivered or failed, the announce
  handlers, the callbacks of links;
- **goroutines of its own**: one for each page request, `initRNS`, the job loop,
  the announce at start, the node's job loop, the drainer of the update queue.

The process holds one lock for each configuration directory
(`cmd/gonomadnet/instance-lock.go`), so no second process writes the same files.

### 1.2 Components

| Component | State | Operations | What makes it correct |
|---|---|---|---|
| Conversation flags (`conversation/cache.go`, `unread.go`) | unread and failed tallies: a map under `cc.mu`, a flag file for each | Ingest, MarkRead, Delete, restart | a waiting message always has its badge; the tally survives restarts; map and file agree |
| Conversation store (`conversation.go`, `message.go`, `display.go`, `send.go`) | envelope files, `.index`, the messages in memory with a cached state and sort timestamp, the open view | Send, delivery and failure callbacks with the retry over a propagation node, ScanStorage, Load, DisplayMessages, WriteIndex, PurgeFailed, ClearHistory, Delete | a cached state never contradicts the file it was read from; the open view shows what is stored |
| Attachments (`attachments-dir.go`, `strip-attachments.go`) | attachments in the envelope, extracted files, manifest | extraction by Ingest and by Load, strip by Load | the bytes are somewhere at any time; a strip undoes no later write |
| Browser (`tui/browser*.go`, `browser/browser.go`, `textui.go`) | history, position, pending click, current destination, retained link, request sequence, page, body | typed URL, click, Back, Forward, Reload, Disconnect, fetch goroutine, answers, partials | the answer shown is the one asked for last; requests reach the right node; links are closed; Back is consistent |
| Update queue (`tui/app.go`, the tickers of `tui/`) | a bounded channel and its drainer, the call in its hand, the goroutines that call | QueueUpdateDraw (drops the oldest call, perhaps the new one), tick, Start and Stop of a panel, the tail of the log, the end of the event loop | callers never wait for the event loop; what runs does so in order; a panel that ticks is painted in the end |
| Lifecycle (`app/app.go`, `jobs.go`, `sync.go`, `daemon.go`) | Router, RNS and node pointers, jobsStop, wait groups, the times of the last announce and sync in memory and in the settings file | Init, initRNS, jobs, AnnounceNow, RequestLXMFSync, Shutdown | the loops do not use Reticulum after it is closed; Shutdown ends; the times survive a restart |
| Announces and directory (`directory/*.go`, `app/ignored.go`, `tui/network.go`) | entries, three announce streams, the directory file, the ignored list with its file and the router's copy, the rows on the screen | handle*Announce, Remember, Forget, SetTrust, Block, Unblock, SaveToDisk, deletion of a row | what was changed is on disk; the router ignores what the list says; a key acts on the row it shows |
| Sync and propagation (`app/sync.go`, `propagation*.go`) | transfer state of the router, times of the last sync, the propagation node | lxmfSyncDue, RequestLXMFSync, CancelLXMFSync, the choice of a node | the time recorded is that of a sync |
| Hosted node (`node/node.go`, `app/node-hosting.go`) | counters, registered pages and files, its job loop | PeerConnected, PeerDisconnected, Jobs, Stop | its loop ends before Reticulum does; the count of links is the number of links |
| iOS appliance (`ios/bridge`) | host, engine, subsystems, console sessions and the socket, sensor feed and its readers | StartAppliance, StopAppliance, StartConsole, FeedLocation, Publish | runs do not overlap; what is started is stopped, in order; the feed leaves nobody; a console can be dialled |
| Android bridges (`android/internal`) | a child, its pty, a connection | Run, Pump, kill, drain | all output before the exit frame; both ends closed; bounded waits |
| RRC channels (`tui/channels*.go`, `tui/room-widget.go`) | the list of hubs as last read, rows and cursor, the pane and the room or hub it shows, a dialog, queued refreshes; the hubs themselves are go-reticulum's | keys of the list, dialogs, the composer and its commands, links, the refreshes of the RRC worker | what a key or a line acts on is what the screen names |

Configuration, micron, charts, WASM pages, paper messages, terminals, widgets and
tools are parsers, renderers or sequential programs without state that outlives a
call; `PROJECT.json` says so for each of them.

### 1.3 How they interact

    peer --> router ----lxmfDelivery----> Ingest --> envelope, flags, attachments
                ^                            |
      Send -----+ copy of the message        +--OnChanged--> QueueUpdateDraw
        |                                                        |
        +-----Ingest-----> envelope                              v
                                              event loop: reload the open view
      router --MessageNotification--> requeue           ScanStorage -> Load -> WriteIndex
                    or Ingest                                        |
                                                     extraction and strip
      user --> BrowserDisplay --OnRetrieveURL--> goroutine: fetchBytes --> link
                    ^                                |
                    +------ QueueUpdateDraw ---------+

      transport --announce--> Directory --SaveToDisk--> file
                                  ^  \--select--> router: outbound node
      user --rows of the stream---+
      user --Block, Unblock--> ignored list --> its file --> router
      Init --> initRNS --> job loop, node's job loop, announces at start --> router
      Shutdown --stop, wait--> loops, then the directory, then Reticulum

An Ingest is the meeting point of the first three models: it stores the envelope
(ConversationStore), raises a tally (ConversationFlags) and extracts attachments
(Attachments). They are separate modules because they share only that call: the
flags depend on nothing the store caches, the store looks at no flag, and
attachments touch the envelope's state only through the strip, which Attachments
models. Each of them models one conversation, or one message, because maps, files
and directories of two of them are disjoint.

### 1.4 The hard behaviours

Two writers of one file without a lock; a check of a modification time and a use
after it; a map updated under a lock and its file after it; a crash between two of
several writes; a callback that arrives before the call that caused it returned;
answers of superseded requests; a link shared by two requests; a queue that drops; a shutdown
while the program still starts; snapshots of one directory written by two
goroutines; a place in a list that has changed since it was drawn; a stop, a start
and a console of the appliance from three threads.
`PROJECT.json` lists 40 such hazards, each at its line, with the properties that
cover it or the reason why none does yet.

## 2. The modules

| Module | Role |
|---|---|
| `ConversationFlags` | the two tallies of one conversation, in memory and on disk |
| `ConversationFlagsProofs` | type correctness, `NoLostFlag`, and what the tallies cover |
| `ConversationStore` | envelopes, index, memory and view of one conversation |
| `ConversationStoreProofs` | type correctness, `CacheCoherence`, `ViewIsCurrent` |
| `Attachments` | the attachments of one message |
| `AttachmentsProofs` | type correctness, `AttachmentsAreStored`, `StripKeepsTheState` |
| `Browser` | one `BrowserDisplay` and its fetches |
| `BrowserProofs` | type correctness, where requests go, who owns a link, `RetrievingMeansInFlight` |
| `QueueCalls` | the calls that the two queue modules share |
| `LossyQueue` | abstract specification: a queue that may lose any call |
| `UpdateQueue` | `QueueUpdateDraw`, the drainer, the event loop and the goroutines that call |
| `Lifecycle` | start, loops, announces, synchronisation and shutdown of the application |
| `LifecycleProofs` | type correctness, `LoopsEndBeforeClose`, `ClocksAgree` |
| `Directory` | announces, entries, their file, the ignored list, rows |
| `DirectoryProofs` | type correctness, `SavedWhenQuiet`, `RouterIgnoresTheList`, `OnlyTheRowGoes` |
| `Channels` | the channels page |
| `EventLoopProofs` | the order of what a lossy queue delivers; type correctness of UpdateQueue, and that it implements LossyQueue; the channels page, drawn through such a queue: its types, `ActsWhereShown`, `ActsOnTheHubListed`, `MessagesAreTheRooms` |
| `Feed` | the sensor feed of the iOS appliance: listener, readers, Close |
| `Appliance` | hosts, engine, subsystems and consoles, over `Feed` |
| `ApplianceProofs` | the proofs about both |
| `MC...` | the small instances of each |

`Appliance` extends `Feed` and calls its operators; `UpdateQueue` refines
`LossyQueue`; the other modules stand alone, each with the part of the router or of
Reticulum that it meets.

### 2.1 ConversationFlags

`counts` are the maps `cc.unread` and `cc.failed`; `flagFile` is the number that
`readCountFile` would make of the flag file; `job[w]` is the place of worker w in
Ingest: the envelope is written, the count is taken under the lock (`Increment`,
which seeds an absent entry from the file), the file is opened and truncated
(`OpenCountFile`), filled (`FillCountFile`). A truncated file reads as 1, as the
code has it. MarkRead and Delete remove the files first and the map entries
afterwards, each in steps of its own (`uiOp`); Delete stops with an error if the
directory is not empty any more. The router's part is `lxm`, how far it is with a
message, `told`, of which it has no more to say, and two sets that make up the retry:
`retry` holds the messages sent with TryPropagationOnFail, for which the failure callback
sets the state back to outbound and hands the message to the router again, without an
Ingest (`RetryPropagated`), and `notices` those the router retries by itself.

Two variables are history. `waiting` are the messages stored since the flag file was last
removed; `Restart` keeps them, as it keeps the disk. `cutOff` are those whose Ingest, or
whose last callback, a crash cut off: the envelope is written before the flag, and no
later run makes up for the flag, so such a message may stay without a badge. The
properties except them by that name, and section 4 has the counterexample.

`TornWrites` says whether a crash may come between truncation and write.
`NoLostFlag` holds either way; the count itself does not survive a torn write,
because 1 is what the code makes of an empty file, so `flags_single` excludes it.

### 2.2 ConversationStore

A message is a record of one state: in its file (`file`), in `.index`, in memory
(`mem`, where the cached state may be absent and the message not yet loaded), in
the view (`shown`). `stamp` is the file's modification time; memory and index
carry the time at which they read it (`sort`), and a rescan rereads a file only if
it is newer, which is the whole of the cache protocol. The steps between which a
router goroutine may write are separate actions: `ScanOne` for each file,
`LoadStat`, `LoadRead` and `LoadCheck` (stat, read, question to the router whether
it still holds the message), `EndSort` and `EndShow` (the index is written), and
the steps of an Ingest (`Pack`, `WriteEnvelope`, `FillEnvelope`, `Notify`). A file
being rewritten is `"torn"` for a reader. `InitRNS` sets the transport and the
router one after the other, and a conversation opened before them loads without.

The router is external. It is modelled as the code uses it: it holds a copy of the
message, moves it from outbound to sent to delivered or failed, calls back once
for the final state, and answers GetOutboundProgress only while it holds it.
`MessageNotification` either requeues a failed message over the propagation node,
without an Ingest (`RetryPropagated`), or ingests the final state.

An Ingest asks for a reload of the open conversation through the update queue, which
drops calls when it is full and repeats none. `RunRefresh` and `DropRefresh` are the two
ends of such a call. `missed` is a history variable: the last reload that was asked for
was dropped, and none has run since. `masked` is another: the messages whose cached state
the program cannot tell from a current one, because the file was written twice within a
tick of its clock (`FineClock = FALSE`) or because the message was loaded before there
was a transport to ask (`EarlyUse = TRUE`). A message leaves `masked` when its file gets
another time or is removed, or when the caches that hold it are dropped.

### 2.3 Attachments

One message. Ingest and Load may both extract: `ExtractCheck` (return if the
directory exists), `ExtractMkdir`, `ExtractFiles`, `ExtractManifest`, each of
which may fail or be cut short. Load then strips the envelope: read, check that
the directory exists, open, write. `Cached` are the attributes of the message in
memory that decide whether Load migrates, reads the manifest, or believes the
index.

### 2.4 Browser

User actions and answers are single actions, as the event loop runs them. A fetch
is a goroutine with a program counter: read the retained link (off the event
loop), test the context, resolve, establish, request, wait, answer. Fetch n makes
at most link n; a fetch whose link has another number reuses it. `Deliver` is the
closure the fetch queues: the update queue may drop it (`CallDropped`), and otherwise
it runs, with the test for the answer of a superseded fetch (`Stale`) first. Of a fetch
that is over its `outcome` and the link it left open are remembered, where the
properties need them (`Forgetful`). A `repaint` (a partial, or a new width) renders the last page again
at any time.

The page cache is a choice: a request that may use it may find the page there.
This contains every behaviour of the real cache, and the properties below hold
without knowing what is in it.

### 2.5 QueueCalls, LossyQueue and UpdateQueue

A call to the event loop goes through the channel `updates`, the hand of the
drainer and tview. QueueUpdateDraw is three selects, each an action (`Offer`,
`DropOldest`, `Retry`), between which another caller or the drainer may come. The
callers are the goroutines that use it on their own account: the ticker of each
panel (network statistics, node information, the synchronisation dialog) and the
tail of the log. Their `Start` and `Stop` run on the event loop, and Stop waits
there for the goroutine (`loop = "joining"`). A repaint shows the state of the
moment in which it runs (`model`, `shown`); a line of the log is a content of its
own, offered once. `RunLoop`, `StopApp` and `RestoreTerminal` are the ends of the
loop. LossyQueue says what a caller may rely on: pending calls run in order, and
any may be lost. The refinement maps its `pending` to `hand \o updates`.

### 2.6 Lifecycle

`main` is where Init and Shutdown are, `init` the step of initRNS, which runs on a
goroutine of its own while the interface is already used; `pc[g]` is the place of
the user interface, of the two job loops and of the two announces at start.
AnnounceNow, RequestLXMFSync and the node's announce are sequences of steps
(`CallStep`), because their times are kept in a field and in the settings file and
are written one after the other. Time is two ages, `old` and `recent`, and
`TimePasses` makes everything due again. `ProcessEnds` may come at any step, and
the next run starts from the settings on disk. Three variables are history: `late` is
who used the router after Reticulum was closed; `apart` are the times whose two copies
were set apart, by a synchronisation that found no router and stamped the field alone, or
by a goroutine for which an interval elapsed between its two writes; and `aged` are those
goroutines.

### 2.7 Directory

Announce handlers run on goroutines of the transport (`Handlers`), the user's
operations on the event loop, and the seeding of the router on the goroutine of
initRNS; `pc` and `arg` say where each is and with what. Remember is: lock, put,
unlock (`Remember`), then SaveToDisk, which truncates (`SaveBegins`) and writes
(`SaveEnds`) under the lock again. A file cut short is not whole, and the next run
begins without entries. Each stream is bounded and may be compact (one row for each
source); the screen keeps a copy of its rows and a cursor. Block and Unblock change
the list, the file and the router's copy in turn (`Persist`, `TellRouter`), while
initRNS may just be reading the list (`ApplyBegins`, `Apply`).

### 2.8 Channels

`page` is ChannelsDisplay: its copy of the hub list (`views`), the rows made of it,
the cursor, the pane and what it shows. A row is known by its key, as
`selectedRowKey` knows it: a hub's place or a place and a room; the order of the rooms
and the spacers between hubs, which the cursor skips, are left out. The manager's own
state (`hubs`, `rooms`, `connected`, `active`) belongs to go-reticulum and is changed as
textui.go changes it. A key calls the manager at once and puts what is to be drawn into
the queue of section 2.5, here of `QueueMax` places and in one step: a full queue drops
its oldest call (`MakesRoom`), or the new one when another producer has taken the freed
slot (`Crowded`). The calls of the queue are the closures that textui.go queues, told
apart by what they draw. The worker of the RRC session queues refreshes at any time.

Two variables are history: `last` is what the user acted on last, and what the screen
named when he did; `lost` becomes true when the queue drops a call of the user's, and
the properties speak of what happens until then. That this is possible, and what comes
of it, is in section 4. What the user did is `"list"` if a place in the list says to which
hub it was done: a key to connect, disconnect or reconnect, the dialogs to remove and to
edit, and a click in a hub's panel that shows the hub for which it was built. The panel is
built once, for the hub that was shown first, and keeps that hub's place for its clicks; a
click while it shows another hub is `"stale"`. The dialog to join a room is `"join"`: it
names the hub of the selected row and joins the active one. Neither of these two acts on
the hub it names (section 4).

### 2.9 Feed and Appliance

Feed is the listener of the sensor port: its accept loop in three steps (a reader is
accepted, added to `subs` under the lock, and counted in the wait group), the
goroutine of each reader, and Close in three (`FeedCloses`, `FeedReleases`,
`FeedWaits`). Appliance has the threads of the application that call the bridge,
with `applianceMu` (`amu`), the lock of each host (`hmu`) and the lock of the engine
as they are held; a `Host` is one run, followed by another after it is closed. Any
of the subsystems may fail to start and is then undone in the opposite order. A
console is a goroutine which waits on a socket whose path is always the same, so
`socket` is whose listener the path leads to. A bot is started when it still runs after
`botStartGrace` and may come back at any time after that (`BotEnds`); the engine looks
at its channel only in Close. Two variables are history: `lost`, the sessions that Close
gave up on, or whose handles another console has taken, and `returned`, the hosts whose bot
has come back of itself.

## 3. The runs

| Run | Properties | Instance | Distinct states |
|---|---|---|---|
| `flags_concurrent` | `TypeOK`, `NoLostFlag` | two router goroutines, two inbound messages and an outbound one with its retry, crashes, torn writes | 978,974 |
| `flags_single` | `TallyCoversWaiting`, `FlagFileHoldsTheCount` | one goroutine, three inbound messages, crashes between writes | 2,814 |
| `store_main` | `TypeOK`, `CacheCoherence`, `ViewIsCurrent` | one goroutine, an outbound message with its retry, a coarse file clock, use before the router is up, dropped reloads, one restart | 3,159,274 |
| `store_live` | `StoredIsShown` | one goroutine, a message each way, a fine clock, dropped reloads; with fairness | 752,837 |
| `attach_main` | `TypeOK`, `AttachmentsAreStored`, `StripKeepsTheState` | one message, one crash, one failed write | 17,536 |
| `browser_main` | `TypeOK`, `RetainedLinkIsForCurrentDest`, `RequestsGoToTheirNode`, `LinksAreOwned`, `RetrievingMeansInFlight` | two remote nodes and this one, four requests, two at a time, a history of three, dropped answers | 2,906,874 |
| `queue_main` | `TypeOK`, `LinesInOrder`, `AbstractSpec`, `CallsReturn`, `PanelsCatchUp` | one panel and the log, a queue of two, three lines; with fairness | 92,901 |
| `lifecycle_main` | `TypeOK`, `LoopsEndBeforeClose`, `ClocksAgree`, `ShutdownReturns`, `AnnouncesGoOn` | both job loops, an announce at start, syncs by the user, two runs of the program; with fairness | 423,204 |
| `directory_main` | `TypeOK`, `SavedWhenQuiet`, `RouterIgnoresTheList`, `OnlyTheRowGoes` | a node with its operator, a propagation node, one handler, two edits, two announces, two runs | 2,987,350 |
| `channels_main` | `ChannelsTypeOK`, `ActsWhereShown`, `ActsOnTheHubListed`, `MessagesAreTheRooms` | two hubs, a room, a queue of two, three keys that call the manager, two reports of its worker | 2,577,198 |
| `appliance_main` | `TypeOK`, `OneAtATime`, `AllOrNothing`, `TransportGoesLast`, `NobodyOutlivesTheFeed`, `StopReturns` | two threads with four calls, two consoles, a reader, two runs of the appliance; with fairness | 523,772 |
| `appliance_console` | `ConsoleCanBeDialled` | one thread with two calls: must be violated, see section 4 | ends at the counterexample |

What the passing runs show:

- `NoLostFlag`: no interleaving of deliveries and retries with MarkRead, Delete and
  purges leaves a message stored and unflagged once its Ingest has returned. The order
  in the code (store, then flag; remove the file, then the map entry) is what makes it
  so, and the mutant that flags first is caught. A crash is survived by every badge
  already written, torn or not, but costs that of a message whose Ingest or last
  callback it cut off (`cutOff`); and a failure has its badge once the router has given the
  message up, not while the retry is under way. Both exceptions are needed (section 4).
- `TallyCoversWaiting`, `FlagFileHoldsTheCount`: with one router goroutine the
  number in the badge is at least the number waiting, less those whose Ingest a restart
  cut off, and map and file agree between operations. With two goroutines the second one is false: they may write
  the file in the reverse order of their increments (a hazard in the list).
- `CacheCoherence`: a state cached with the modification time of a file is what
  that file says, unless the message is `masked`. ScanStorage relies on it whenever it
  does not reread.
- `ViewIsCurrent`: when nothing is under way and the last reload was not dropped by the
  full update queue, the open conversation shows every stored message that is not masked
  in its stored state, whatever was delivered, retried or removed during a scan or a load.
  Once a reload was dropped the view may stay behind until something else reloads it.
- `StoredIsShown`: a message stored while its conversation is open gets its row, unless
  a reload is dropped.
- `AttachmentsAreStored`, `StripKeepsTheState`: without a crash or a failed write
  no interleaving of the two extractions and the strip loses an attachment, and
  the strip never writes an older state over a later one, although it reads and
  writes the file without a lock. That holds because of when messages are loaded
  and who ingests; the mutant breaks it by an innocent-looking change of Send.
- `RetainedLinkIsForCurrentDest`, `RequestsGoToTheirNode`: the goroutine reads the
  retained link at a time at which the user may have gone to another node, and
  `fetchBytes` does not look where it leads; the test of the context saves it.
- `LinksAreOwned`: every open link is retained or in use, with three exceptions
  which the property names: the link of a download is not retained, a reused link whose
  request could not be sent is dropped without a teardown, and so is the link of an
  answer that the full update queue drops.
- `RetrievingMeansInFlight`: page, notice, malformed URL, error, cancellation and repaint
  take the "Retrieving" body down. It stays after a saved download, and after the
  update queue has dropped the answer of the request in force; the loss of a superseded
  answer leaves nothing up.
- `AbstractSpec`, `LinesInOrder`: with callers and the drainer between its selects,
  QueueUpdateDraw still is a queue that loses calls and does nothing else: no call
  runs twice or overtakes another. The log view shows lines in the order of the file.
- `CallsReturn`: a caller returns from QueueUpdateDraw whatever the event loop does,
  so a Stop that waits on the event loop for that caller returns too. The mutant
  whose third select waits for a slot makes the two wait for each other.
- `PanelsCatchUp`: what a full queue drops of a panel that ticks is repainted later,
  as the comment in `tui/app.go` promises.
- `LoopsEndBeforeClose`, `ShutdownReturns`: wherever initRNS is when the user quits,
  the loops that it was about to start do not run, or are waited for before
  Reticulum is closed; and nothing that Shutdown waits for waits for Shutdown.
- `ClocksAgree`: each of the two times is recent in the settings exactly when it is in
  the field, in both directions, also after a process that ended between the writes. The
  exceptions are named: a caller between its two writes, a sync that found no router,
  which stamps the field alone, and an interval that elapses between the two writes.
- `AnnouncesGoOn`: an announce that is due is made, whatever a sync that never ends
  and calls of the user do meanwhile.
- `SavedWhenQuiet`: goroutines that save snapshots of the directory in any order leave
  the newest on disk, because the snapshot is taken and written under one lock.
- `RouterIgnoresTheList`: Block and Unblock while initRNS hands the list to the router
  leave the router with the list. Excepted is an Unblock during that scan, which shifts
  the list in place under the reader.
- `OnlyTheRowGoes`: a deletion removes the announce whose row is selected, although the
  rows are a copy; otherwise announces leave only for newer ones.
- `ActsOnTheHubListed`, `ActsWhereShown`, `MessagesAreTheRooms`: the keys to connect,
  disconnect and reconnect, the dialogs to remove and to edit, a click in a panel built for
  its hub, and the composer act on the hub and room that the screen names, and the messages
  shown are theirs, although dialogs and panes remember places in a list that may change
  and the composer asks the manager and not the screen. The dialog to join a room and a
  click in a panel built for another hub do not, and are no part of the first property
  (section 4).
- `OneAtATime`: a start never finds the sensor port bound, or a transport or hub up,
  from an earlier run, from whichever threads stop and start come.
- `AllOrNothing`: a start that fails at any subsystem leaves nothing but perhaps a bot
  that does not come back; and what runs is whole, but for a bot that has come back of
  itself, of which the engine does not know.
- `TransportGoesLast`: the hub and the console end before the transport they use.
- `NobodyOutlivesTheFeed`: when Close has returned no goroutine and no reader of the feed
  is left, also one accepted while it was closing.
- `StopReturns`: a stop returns whatever client, bot and readers do.

### 3.1 Bounds

- Two router goroutines are enough for a race between Ingests; a third could only
  wait or repeat. Three inbound messages are the fewest for which a tally of two
  may be lost by the message after it. `store_main` has one goroutine: two Ingests
  of one message are those of Send (on the event loop) and of the callback, and
  files of different messages are independent, so the goroutine and the event loop
  give every pair. It has one message, the outbound one, because that one alone meets
  the retry, the question to the router and both Ingests; with a second message, and
  without the retry, the same configuration passes too, with 9,219,700 states, and takes
  too long for the suite. The proofs of `CacheCoherence` and `ViewIsCurrent` cover any number.
- One restart reaches every state of the disk with an empty memory. A second one
  would start from the same kind of state.
- One failed write and one crash can be combined in `attach_main`.
- Four requests of which two at a time: the shortest way to a wrong link is to
  retain one, leave the node, and come back with a superseded fetch still under
  way, which takes three. The proof covers any number.
  A history of three has an entry on either side of the one shown, for Back, Forward and
  the entries that a new page cuts off.
- A queue of two slots is the smallest in which the call that is dropped is neither
  the head nor the new one; a panel and the log are two callers that meet between the
  selects. The refinement and the order are proved for any capacity and any panels.
- In `lifecycle_main` everything becomes due once more (`MaxTicks`), over two runs: one
  for what is written before a crash and one for what is made of it. One of the two
  announces at start is enough, as neither is waited for.
- In `directory_main` one node and its operator give an announce of a node, which
  remembers two entries, against the user's changes of both. One handler and the
  user's thread and initRNS are three writers. With two announces and one row for each
  source no stream of two places overflows in the run; that an announce which leaves
  without the user leaves for a newer one, for streams of any length, compact or not, is
  proved (`RowsGoAlone`). The proofs cover any number.
- In `channels_main` the user waits for what he has asked for to be drawn before the
  next key (`Settled`); what the worker of the session queues is not waited for. The
  list holds two hubs, so that removing or adding one moves the other. Two reports fill
  the queue of two, before a key or after it, so that either call may be dropped. The
  proof covers any hubs, rooms, keys, reports and places in the queue; that there are
  at least one place and one hub, and that nil and "" are not among the hubs and rooms, are
  its assumptions.
- In `appliance_main` four calls are the fewest for a start, a stop, the next start and
  one thing more beside them. One reader and a buffer of one chunk give a reader that
  is accepted during Close, one that blocks a write, and a chunk that is dropped. Two
  consoles replace each other.
- `MaxRequests`, `MaxInFlight`, `MaxHistory`, `MaxRestarts`, `MaxFaults`, `MaxVersion`, `MaxLag`,
  `NLines`, `MaxRuns`, `MaxTicks`, `MaxEdits`, `MaxAnnounces`, `MaxKeys`, `MaxEvents`,
  `AddMax` and `MaxCalls` appear only in guards and in types.
- Symmetry is used in the flags runs, which check safety only.
- Deadlock is checked in the flags, store and attachment runs. In the others the bounded
  requests are used up at last and the user may always stop; there the liveness
  properties show that nobody is stuck.

### 3.2 Fairness

`store_live` assumes weak fairness of the event loop's own steps, of the refresh
that waits in its queue, and of each Ingest that was begun. The code justifies
them: a handler and an Ingest are sequential code that waits for the disk alone,
and the drainer of the update queue hands over what is in it. Nothing is assumed
of the user, the network, `initRNS` or crashes. A full queue may drop the refresh
(`DropRefresh`, without fairness), and `StoredIsShown` says what follows then.

`queue_main`: weak fairness of each caller inside QueueUpdateDraw, of the log's poll,
of the drainer and of the event loop, which are running goroutines; strong fairness
of a ticker and of a goroutine whose stop channel is closed, because each sits in a
select that is not always ready and among whose ready cases Go picks at random.

`lifecycle_main`: weak fairness of each goroutine, of initRNS and of Shutdown once it
is called. Nothing makes a user quit, a process end or a transfer come to its end.

`appliance_main`: weak fairness of each thread inside the bridge, whose waits for a
console and for the bot have timeouts, and of the goroutines of the feed. None for
consoles, clients, readers (one may never read) and the application.

## 4. Findings

`appliance_console` must find its property violated, and the property is what a comment
in the source says. StartConsole cancels the console that it replaces and does not wait
for it, and binds the socket at the path that both have. When the old console ends, its
`Listener.Close` (`ios/bridge/console.go:375`) removes the file at that path, which is
by now the socket of the new console, and the application cannot dial it.

The following properties are stated in the modules and hold neither in the models nor in
the code. They are not among the runs; to see a counterexample, put the property in the
place of those of the cfg that is named.

- `FinalStateIsStored` (`store_main.cfg`): Send submits the message before it ingests it,
  so the callback's Ingest and Send's write one file in either order, and the file may
  end in the state the message had first. A delivered message is then shown as
  outbound, or as failed once the router no longer knows it.
- `CacheCoherence` and `ViewIsCurrent` for the messages in `masked` (`store_main.cfg`): a
  conversation opened before `initRNS` has set the transport is loaded without one; it
  keeps the state that the index had, takes the timestamp of the newer file, and writes
  the pair to the index. Later scans find nothing newer and never correct it. The same
  becomes of a file that is written twice within a tick of its clock, between which a
  scan has read it.
- `ViewIsCurrent` without `~missed` (`store_main.cfg`) and `StoredIsShown` without
  `missed` (`store_live.cfg`): a message arrives when a scan has already listed the files,
  and the full update queue drops the reload that its Ingest asks for. Nobody asks again: the
  open conversation lacks the row until the next message, or the user, reloads it.
- `NoLostFlag` without `cutOff` (`flags_concurrent.cfg`): the process ends after Ingest
  has written the envelope (`cache.go:198`) and before it writes the flag
  (`cache.go:231`). The message is stored and unread, and no later run gives it a badge.
- `NoLostFlag` for failures that are not given up (`flags_concurrent.cfg`): the message fails
  at once, Send's Ingest stores it as failed, and before that Ingest asks for the
  state again, to raise the flag (`cache.go:232`), the failure callback sets it back to
  outbound for the retry, without an Ingest (`send.go:149`). The file says failed and
  there is no flag. The last callback makes up for it; but if the router refuses the
  message, whose error is dropped, none comes, and the message stays stored as failed and
  unflagged.
- `RetrievingMeansInFlight` and `LinksAreOwned` without `"lost"` (`browser_main.cfg`): the
  full update queue drops the answer of a fetch. "Retrieving" stays on the screen
  although nothing is under way, and the link that the fetch opened stays open,
  retained by nobody.
- `ClocksAgree` without `apart` (`lifecycle_main.cfg`): the user synchronises before the
  router is up, or when its start has failed. `sync.go:126` stamps `LastLXMFSync` and returns; the
  settings know of no sync, and the job loop, which reads the field, puts the next one off
  by an interval. And
  where an interval elapses between the two writes of an announce, as when the process
  is suspended, another announce may have written the newer time that this one overwrites.
- `StrippedIsExtracted` (`attach_main.cfg`): an extraction that was cut short leaves the
  directory, whose existence makes the next extraction return at once, and the strip
  then removes the only whole copy.
- `SharedLinkSurvives` (`browser_main.cfg`): a superseded fetch that waits on the link it
  shares with the newer fetch tears it down, although the callback is careful not to.
- `BackWorksWhenSettled` (`browser_main.cfg`): after a clicked download is saved, or the
  answer of a click is dropped by the queue, the click still counts as under way, so Back
  and Forward do nothing until a page is rendered.
- `CurrentDestIsOfThePage` (`browser_main.cfg`): the current destination is set when a
  request begins. A malformed URL typed before the answer supersedes the request and puts
  the old page back under the new destination, so that its relative links lead to the
  wrong node.
- `NoLineIsLost` (`queue_main.cfg`): a full queue drops a line of the log for good. The
  comment in `tui/app.go` that a dropped call "only delays a redraw" is true of panels
  that repaint from their state, and not of the log.
- `ActsOnTheHubListed` with `"join"` in the place of `"list"` (`channels_main.cfg`): of two
  hubs the second is selected. The dialog to join a room opens with that hub's name, "so the
  user can see WHICH hub the room joins" (`channels.go:1577`), and Join adds the room to
  the active hub, or to the first when none is active (`textui.go:1939`). Two keys are enough.
- `ActsOnTheHubListed` with `"stale"` in the place of `"list"` (`channels_main.cfg`): the
  panel is made when the first hub is shown, and its closure keeps that hub's place
  (`channels.go:636`). When another hub is shown in it, a click on one of its rooms
  opens a room of that name on the first.
- `ActsWhereShown`, `ActsOnTheHubListed` and `MessagesAreTheRooms` without `~lost`
  (`channels_main.cfg`): the same comment says that every caller is a background refresh,
  but the keys of the channels page are callers too, and nobody repeats their calls. A hub
  is removed while two reports fill the queue, the call that would read the list again is
  dropped, and until something else draws the page the next key acts on the hub that
  has moved to the removed one's place. The same way a line goes to the room of a link
  whose call was dropped, and Enter on a hub leaves the header and the messages apart. The
  queue of the program has 128 places, so this takes a busy session and a slow event
  loop.
- `StartersDoNotFireLate` (`lifecycle_main.cfg`): the announces at start are in no wait
  group. When their timer fires just before jobsStop is closed, AnnounceNow runs while,
  or after, Reticulum is closed.

Behaviours of the models that contradict a comment or an expectation, without a formula:
a change of a hub's status shows the hub's information again, if that is the pane, and
puts the cursor on the hub's row (`channels.go:888`), which `channels.go:512` says must
never happen; handleNodeAnnounce looks an entry up and remembers it in two critical
sections, so that one the user saves in between is overwritten; an Unblock during the
first scan of the ignored list can make the scan skip an address; a StartConsole that
cannot listen clears the handles of whichever console is registered by then, and Close
then does not wait for that one; a link to a hub that names no room leaves the old room on
the screen (`textui.go:2688`), and the composer writes to the hub that was followed.

## 5. The proofs

tlapm 1.4.5 checks all of them with Z3, Zenon and LS4.

**ConversationFlagsProofs.** `TypeCorrect`, and `BadgesAreKept`
(`Spec => []NoLostFlag`) for any number of goroutines and messages, torn writes or
not. `NoLostFlag` is not inductive: it says nothing of a message whose Ingest is at
work, nor of a failed one whose retry is under way, and both must be known to be flagged
when that is over. `FlagFollows` says so: a message that waits, and was not cut off, has
its flag file, or a worker that is going to flag it (`WillFlag`), or is a failed one that the
router has not given up. The invariant `IInv` adds that a waiting message lies in the
directory (`WaitingIsStored`), that workers raise the right flag (`FlagsAreRight`), that
a message stored as failed stays failed until it is sent once more
(`FailsUntilRetried`), and that the event loop does one thing at a time
(`UIIsSequential`).

The unread tally needs two assumptions: one goroutine `r` runs the callbacks of the
router (`Deliverers = {r}`), and the program does not end inside `os.WriteFile`
(`~TornWrites`). With two goroutines TLC refutes `FlagFileHoldsTheCount`; a torn flag
file counts nothing. Then `TallyIsKept` is `Spec => []TInv(r)`, for any messages. `TInv`
relates three numbers to the messages that wait: the one in the flag file covers all of
them but the one being ingested, the one in the goroutine's hand covers that one as well
(`FileCovers`), and so does the map entry, which is what the file holds or is about to
(`MapCovers`). It adds that a flag file lies in its directory (`FilesLieInDir`) and that
only outbound messages fail (`FailedIsOutbound`), and rests on lemmas about the size of a
set as one message comes or goes. The messages that a restart cut off are not counted
(`Unread`). Without outbound messages, as in the run
`flags_single`, nothing fails, and `TallyIsRight` (`Spec => []TallyCoversWaiting`) and
`FileIsTheCount` (`Spec => []FlagFileHoldsTheCount`) follow: Send ingests on the UI
thread, and would be a second goroutine for the failed tally.

**ConversationStoreProofs.** `TypeCorrect`, and `CachesAreCoherent`
(`Spec => []CacheCoherence`) for any number of messages, goroutines and restarts, whatever
the resolution of the file clock (`FineClock`) and whether or not conversations are opened
before the router is up (`EarlyUse`): what these two do to the caches is in the module, as
`masked`. The invariant adds that timestamps in the caches are those of the file or older
(`SortsAreOld`), and that between the read and the check of an outbound envelope the
file still says what was read if its time is the same (`ReadIsFresh`). `NothingIsMasked`
says when the exception is void: with a clock that tells every two writes apart, and
without early use, `Spec => [](masked = {})`, because the messages being handled carry
the router (`Stamps`). Only this theorem has assumptions on the two.

`ViewStaysCurrent` (`Spec => []ViewIsCurrent`) assumes nothing either. A row may be
behind its file for long, and the reload that is to correct it may read before the file
is written, or be dropped. `NoChangeIsMissed` (`Spec => []VInv`) says that for every stored
message of the open conversation, unless it is masked or the last reload was dropped,
either somebody has yet to ask for a reload or has asked (`Announced`), or the reload under
way handles it: listed, scanned with the time its file still has, and displayed from
that (`Handled`). A message that counts as loaded has a
state in memory (`LoadedIsKnown`), so no scan skips one whose state was forgotten.

**AttachmentsProofs.** `Inductive` (`Spec => []IInv`) for any number of crashes and of
failed writes, and from it `TypesHold`, `NoAttachmentIsLost`
(`Spec => []AttachmentsAreStored`) and `StripIsSafe` (`Spec => StripKeepsTheState`). The
strip reads an envelope and replaces it without a lock. `FirstWrite` says that
unless the message was sent in this run, the router's goroutine is the first to write its
envelope; so by the time Load can migrate one, that goroutine has written it for good
(`StripIsAlone`), and what the strip has read is what it replaces. `StripNeedsDir` says
that a stripped envelope has a directory. `UnderWay` holds only while nothing has crashed
or failed, as does `AttachmentsAreStored`: what is begun is whole, or a worker is on its
way to finish it. That a cached record is not the constant for none is an assumption
(`NoneAssumption`).

**BrowserProofs.** `TypeCorrect` (history and position stay in step),
`RetainedLinkFits` and `RequestsFit` for any nodes, pages and number of requests.
The invariant `LinkInv` says that until its link is up a fetch is alone with it
(`FreshLinks`, `Establishing`), that the request in force is for the current
destination (`CurrentRequest`), and so that whatever link a fetch in force takes
or leaves leads to its page's node (`LinksFit`). `LinksHaveOwners`
(`Spec => []LinksAreOwned`) adds `OwnInv`: a fetch in force that has looked at the
retained link uses it or has found it closed (`CurrentTakesRetained`), so that the
callback of an error, which forgets the retained link, forgets none that is open, but
that of a request not sent; and a fetch that gives up an open link without closing it,
because it was superseded before it used it, leaves one that is retained or known to be
forgotten (`LeftLinks`). `RetrievingEnds` (`Spec => []RetrievingMeansInFlight`) is
inductive with the types. In both, what a dropped answer leaves is one more kind of what
is forgotten.

**LifecycleProofs.** `TypesHold`. `LoopsEnd` (`Spec => []LoopsEndBeforeClose`) from
`ShutdownOrder`: Shutdown takes the lock only when initRNS has ended or never began, so
from then on no loop is started; the job loop has ended before the directory is saved and
the node's before Reticulum is closed; and nobody is late before that.
`ClocksStayTogether` (`Spec => []ClocksAgree`) rests on `Clocks`, which has one part for
each time and direction and says of each who may be between the two writes: a sync saves
first, so its field is behind (`SyncClock`, `SyncField`); an announce stamps first, so its
settings are (`AnnounceClock`, `AnnounceField`); the older time of a goroutine in `aged` is
the one that is written last.

**DirectoryProofs.** `SavedHolds` (`Spec => []SavedWhenQuiet`) for any handlers, hashes
and bounds: the property is inductive with `Unreadable`, that a file which cannot be read
holds no entries. `RouterHolds` (`Spec => []RouterIgnoresTheList`): the invariant relates
list, router and scan at every point between a change of the list and its being told to
the router (`Told`), knows with what address the user's thread is under way (`Asked`),
and what initRNS has still to hand over (`Scanned`, `NotBegun`).

`TypesHold` needs what each goroutine carries (`Carries`): a hash that can be an entry's
before Remember, a node or a propagation node before the router is told. `RowsGoAlone`
(`Spec => OnlyTheRowGoes`): RemoveAnnounce knows an announce by its time, so the
invariant is that no two announces have the same, in the streams, in the file and in the
rows, however old these are (`Stamped`). `SourcesAppearOnce`: with `Compact`, a source is
in each stream once. They rest on lemmas about `Keep`, a filter: the ranks of the
places kept are 1 to their number, each once and in order (`RankOnce`, `RankOnto`,
`KeepIsKept`), from the library's facts about injections between finite sets and
without an induction. `Keep` is SelectSeq, which tlapm cannot unfold; MCDirectory has TLC
compare the two (`KeepFilters`).

**EventLoopProofs.** For the queue, `OrderHolds` (`Spec => []InOrder`) for
the abstract queue: the invariant is `InOrder` itself with the types, where `InOrder`
speaks of the calls on their way as well as of the lines shown. `TypesHold` for
UpdateQueue, with `LineInHand`: the log's goroutine is inside QueueUpdateDraw only with
a line of the file. `Refinement` (`Spec => AbstractSpec`): a call that is sent is
accepted; a drop of the oldest is a loss at the place after the drainer's hand
(`DropIsLose`); taking a call into the hand moves nothing (`HandOver`); a select that
gives up refuses the call. `LinesStayInOrder` (`Spec => []LinesInOrder`) follows from
`Refinement` and `OrderHolds`, for any capacity, panels and lines.

For the channels page, `ChannelsInvHolds` (`ChannelsSpec => []ChannelsInv`) and from it
`ChannelsTypesHold`, `ComposerActsWhereShown`, `ListActsOnTheHubNamed` and
`HeaderNamesTheMessages`. None of the three properties is inductive: they say what a key
finds, which is the work of the closures queued by the keys before it. `Shape` holds
whatever is dropped: the rows are those of the hubs that were read (`Fits`), at most one
call of the user's is in the queue (`OnePending`), and no dialog is open meanwhile
(`DialogWaits`). `Right` holds until a call of the user's is dropped. Its core is
`Drawn`: when none of his calls is in the queue the page shows the manager's list and a
room that is the active one (`RoomInView`); while one is, that call, run on the page as it is,
will make it so. What this takes of the state is `Leads`, with a clause for each kind
of closure; `CallDraws` proves that it is enough, and the lemma of each key that the key
establishes it. A refresh of the worker's, which may run in between, keeps `Leads`
(`RefreshKeeps`, `Reports`): this is where a refresh that painted another room's messages, or
moved a place under a pending call, would show. Removing a hub shifts the places behind
it, and is harmless because the call it queues reads the list again and closes the pane. A click in
a hub's panel acts by the place for which the panel was built; when that is the place of
the hub it shows, as `PanelIsItsHubs` asks of the page, `Drawn` makes it the manager's hub too.

**ApplianceProofs.** `TypesHold`, `RunsDoNotOverlap` (`Spec => []OneAtATime`),
`NothingHalfStarted` (`Spec => []AllOrNothing`), `TransportIsLast`
(`Spec => []TransportGoesLast`) and `FeedLeavesNobody`
(`Spec => []NobodyOutlivesTheFeed`), for any threads, consoles, calls and runs and any
finite set of readers; that a first host exists is the other assumption. The difficulty
is that no lock covers both a start and a stop: a start holds Host.mu and not
applianceMu, a stop holds applianceMu and lets go of Host.mu before it closes the
engine. `Host.closed`, set under both, keeps them apart. `IInv` says who holds which
lock (`Locks`); that the host in force is the last one and the earlier ones are closed
(`Order`); what a thread in the middle of a start or a stop has left behind so far
(`Phases`), and what a host is like on which nobody works (`Idle`); that what is up is
what was started, but for a bot that does not come back or has come back of itself (`Subs`); and that the port
belongs to a feed not yet released (`PortOwned`). `FeedInv` counts the feed's wait
group: the accept loop and the goroutines that serve, and a reader accepted meanwhile
is in the loop's hand. `Consoles` says that a console which has not ended is the one
its host waits for, or is lost.

Every safety invariant, action property and refinement that the passing runs check is
thus proved. Only model-checked are the liveness properties `StoredIsShown`,
`CallsReturn`, `PanelsCatchUp`, `ShutdownReturns`, `AnnouncesGoOn` and `StopReturns`:
liveness under fairness is out of the prover's reach.

## 6. What is left out, and what is assumed

- The update queue is a module of its own, and Channels has it in short. ConversationStore
  and Browser have of it that a call may be dropped: the reload of a conversation and the
  answer of a fetch are asked for once, like a line of the log, and are lost with their
  call. The stages of a fetch shown in the footer, and other calls that draw what nothing
  here depends on, are left out.
- One process writes the files (the instance lock).
- File systems: a rename or a write is seen by readers at once; the content of one
  file does not depend on another; a write that is cut short leaves a file that
  does not parse.
- LXMF, the router, links, hub sessions and the transport are external and modelled from
  the calls of this repository: a message has one final state, which is called back once.
- ConversationStore: titles, signatures, progress, sort order and the selection of
  a message; a conversation that is opened in two places at once.
- Attachments: their number and names (all of them are one value, absent, torn or
  whole); saving a copy for the user.
- Browser: request data and forms, scroll positions, header and footer, the dialog
  for a blocked node (its Connect runs the same LoadURL or ClickLink). The two
  BrowserDisplays of the program share no state, so one is modelled.
- Lifecycle: the configuration and the logging at start; pages, files, statistics and
  links of the hosted node; `Quit` and `ExitHandler` of `app/lifecycle.go`, which nothing
  but tests calls. Two runs of the program do not overlap.
- Directory: display names, sort ranks and the identify flag; the announces of peers,
  which are handled like those of propagation nodes less the selection. No two announces
  arrive at the same time.
  One user thread, as the event loop is one.
- Channels: nicknames, the format of messages, unread marks and the history kept on disk.
- Appliance: the frames of the console's protocol, its terminal, and what a subsystem
  does while it runs, but that a bot may come back. A subsystem that fails to start leaves
  nothing of itself. `Transport.Close` and the hub's `svc.Stop` are assumed to return,
  which `StopReturns` rests on: unlike the bot and the console they have no timeout here.
- Directory: a write of the file may be cut short by a crash, and the next run then
  begins without entries; a write that fails while the program goes on is not modelled.
- Components without a module are in `PROJECT.json` with the reason. Micron, charts,
  configuration and paper messages are pure functions, executable pages keep no state
  between requests, terminals pass bytes through, and the tools are sequential
  programs. Much of the size of the program is of this kind (widgets, rendering,
  parsing, commands for tests and demonstrations), and a state machine of it would say
  nothing that its unit tests do not.

Known behaviours that no run shows, because they need a state the models leave out
or an assumption they make: a message that fails during Send's own Ingest is
counted as failed twice; PurgeFailed and ClearHistory leave the failed count as it
was; Delete leaves the rows of the open view until it is reloaded; attachment
directories outlive their messages; an outbound state shown before the router is
up is not corrected until the next reload; Disconnect leaves a pending click set,
and a partial may settle it early.

## 7. Plan

Done of the plan so far: the store, its flags and attachments, the browser, the update
queue with its abstract specification, the life of the application, the directory, the
channels page and the appliance. Left, in the order of what matters most to a user:

1. **Browser**, its liveness: a request that is not
   superseded ends and "Retrieving" goes, under weak fairness of the fetch and of the
   event loop, as long as its answer is not dropped. An abstract specification: a register that holds the page of the last
   request or the notice of its failure.
2. **ConversationStore** and **ConversationFlags** composed: Ingest as one action of
   both, for the badge of an open conversation and for the exact count of failures; the
   conversation list, which is drawn from the tallies and from the directory.
3. **Node**: links, their count and closing callbacks, requests for pages and files.
4. **Attachments**: SaveAttachment, the manifest cached by a rescan between strip and
   manifest.
5. **ConsoleSession** (`android/internal/console`): exit, cancellation and drains with
   bounded waits.

Theorems worth proving next, by value: that Browser implements the register of item 1,
once it exists; and that the queue of Channels, whose calls are dropped in one step, is
itself an instance of LossyQueue.
