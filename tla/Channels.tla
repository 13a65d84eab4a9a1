------------------------------ MODULE Channels ------------------------------
(***************************************************************************)
(* The channels page: tui/channels.go, channels-hublist.go, room-widget.go *)
(* and the callbacks of textui.go that tie them to the RRC manager.        *)
(*                                                                         *)
(* The page knows a hub by its place in a copy of the manager's list, and  *)
(* a room's widget by the hub and room it was built for; what the composer *)
(* sends goes to the hub and room the manager has as active.  A key        *)
(* changes the manager at once and the page through a call in the update   *)
(* queue; the RRC worker queues calls of its own; a full queue drops its   *)
(* oldest call, or the new one.                                            *)
(***************************************************************************)
EXTENDS Integers, Sequences, SequencesExt

CONSTANTS
  Hubs,       \* hub objects
  Rooms,      \* rooms
  NoHub,      \* nil
  NoRoom,     \* ""
  QueueMax,   \* size of the update queue
  AddMax,     \* bound: hubs in the list
  MaxKeys,    \* bound: keys that call the manager
  MaxEvents   \* bound: what the RRC worker reports

ASSUME NoHubAssumption == NoHub \notin Hubs
ASSUME NoRoomAssumption == NoRoom \notin Rooms
ASSUME QueueMaxAssumption == QueueMax \in Nat \ {0}
ASSUME AddMaxAssumption == AddMax \in Nat \ {0}

VARIABLES
  hubs,       \* RRCManager.Hubs
  rooms,      \* rooms[h]: joined, or with messages
  connected,  \* the hubs whose status is connected
  active,     \* ActiveHub, ActiveRoom
  page,       \* the fields of ChannelsDisplay
  dialog,     \* the dialog over the page, and the hub it names
  queue,      \* the update queue
  last,       \* history: the last thing the user did to a hub, and what the
              \* page named when he did it
  lost,       \* history: the queue has dropped a call of the user's
  keys, events

rrcVars == <<hubs, rooms, connected, active>>
updateVars == <<queue, lost>>
channelsVars == <<rrcVars, page, dialog, updateVars, last, keys, events>>

\* A row is known by its key.  Spacers, which the list skips, are left out.
Row   == [kind : {"hub"}, at : 1..AddMax, room : {NoRoom}] \cup [kind : {"room"}, at : 1..AddMax, room : Rooms]
NoRow == [kind |-> "none", at |-> 0, room |-> NoRoom]
Place == [hub : Hubs \cup {NoHub}, room : Rooms \cup {NoRoom}]
Nowhere == [hub |-> NoHub, room |-> NoRoom]
Page ==
  [views : Seq(Hubs), rows : SUBSET Row, cursor : Row \cup {NoRow},
   pane : {"", "info", "room"}, at : 1..AddMax, room : Rooms \cup {NoRoom},
   widget : Place, shown : Place, info : Hubs \cup {NoHub}, opens : 0..AddMax]
Dialog == [kind : {"none", "remove", "edit", "join"}, at : 0..AddMax, named : Place]
CallNames == {"refresh", "message", "list", "info", "room", "roomOf", "noteOf", "listRoomOf", "removed", "edited"}
Call  == [call : CallNames, at : 0..AddMax, hub : Hubs \cup {NoHub}, room : Rooms \cup {NoRoom}]

ByUser(c) == c.call \notin {"refresh", "message"}
\* No call of the user's is under way.
Settled == \A i \in DOMAIN queue : ~ByUser(queue[i])

HubAt(list, i) == IF i \in DOMAIN list THEN list[i] ELSE NoHub
IndexFor(list, h) == IF h \in ToSet(list) THEN CHOOSE i \in DOMAIN list : list[i] = h ELSE 0

-----------------------------------------------------------------------------
(***************************************************************************)
(* ChannelsDisplay: what its methods make of its fields.                   *)
(***************************************************************************)

HubRow(i) == [kind |-> "hub", at |-> i, room |-> NoRoom]
RoomRow(i, room) == [kind |-> "room", at |-> i, room |-> room]

ComposeHubList == {HubRow(i) : i \in DOMAIN hubs}
                  \cup UNION {{RoomRow(i, room) : room \in rooms[hubs[i]]} : i \in DOMAIN hubs}

SelectRow(d, key) == IF key \in d.rows THEN [d EXCEPT !.cursor = key] ELSE d
FirstRow == IF hubs = <<>> THEN NoRow ELSE HubRow(1)

\* Mutant: the row that was selected stays selected.
SetHubsInPlace(d) == [d EXCEPT !.views = hubs, !.rows = ComposeHubList]

\* The list is rebuilt; the row with the key of the one selected is selected.
SetHubs(d) ==
  SelectRow([d EXCEPT !.views = hubs, !.rows = ComposeHubList, !.cursor = FirstRow], d.cursor)

ShowHubInfo(d, i) ==
  IF i \notin DOMAIN d.views \/ HubRow(i) \notin d.rows THEN d
  ELSE SelectRow([d EXCEPT !.pane = "info", !.info = d.views[i],
                           !.opens = IF @ = 0 THEN i ELSE @], HubRow(i))

\* Mutant: the hub is not remembered.
ShowRoomOnly(d, i, room, messages) ==
  IF i \notin DOMAIN d.views THEN d
  ELSE SelectRow([d EXCEPT !.pane = "room", !.room = room,
                           !.widget = [hub |-> d.views[i], room |-> room], !.shown = messages],
                 RoomRow(i, room))

\* messages: whose they are.
ShowRoom(d, i, room, messages) ==
  IF i \notin DOMAIN d.views THEN d
  ELSE SelectRow([d EXCEPT !.pane = "room", !.at = i, !.room = room,
                           !.widget = [hub |-> d.views[i], room |-> room], !.shown = messages],
                 RoomRow(i, room))

RefreshRoomIfVisible(d) ==
  IF d.pane = "room" /\ d.at \in DOMAIN d.views /\ d.room # NoRoom
    THEN [d EXCEPT !.shown = [hub |-> HubAt(hubs, d.at), room |-> d.room]] ELSE d

RefreshHubInfoIfVisible(d) ==
  IF d.pane = "info" /\ d.at \in DOMAIN d.views THEN ShowHubInfo(d, d.at) ELSE d

refreshChannels(d) == RefreshRoomIfVisible(RefreshHubInfoIfVisible(SetHubs(d)))

ShowPlaceholder(d) == [d EXCEPT !.pane = ""]

-----------------------------------------------------------------------------
(***************************************************************************)
(* The update queue.                                                       *)
(***************************************************************************)

NewCall(name) == [call |-> name, at |-> 0, hub |-> NoHub, room |-> NoRoom]
NewRoomCall(name, h, room) == [call |-> name, at |-> 0, hub |-> h, room |-> room]

\* A full queue drops its oldest call.
MakesRoom(c) ==
  LET full == Len(queue) >= QueueMax
  IN  /\ queue' = Append(IF full THEN Tail(queue) ELSE queue, c)
      /\ lost' = (lost \/ (full /\ ByUser(Head(queue))))

\* Another producer has taken the slot that was freed: the new call is dropped.
Crowded(c) == Len(queue) >= QueueMax /\ lost' = (lost \/ ByUser(c)) /\ UNCHANGED queue

QueueUpdateDraw(c) == MakesRoom(c) \/ Crowded(c)

\* What a call does to the page when it runs.
Effect(c, d) ==
  CASE c.call = "refresh"    -> refreshChannels(d)
    [] c.call = "message"    -> RefreshRoomIfVisible(SetHubs(d))
    [] c.call = "list"       -> SetHubs(d)
    [] c.call = "info"       -> ShowHubInfo(d, c.at)
    [] c.call = "room"       -> ShowRoom(d, c.at, c.room, [hub |-> c.hub, room |-> c.room])
    [] c.call = "roomOf"     -> ShowRoom(d, IndexFor(hubs, c.hub), c.room, [hub |-> c.hub, room |-> c.room])
    [] c.call = "noteOf"     ->
         LET room == IF c.room = NoRoom THEN active.room ELSE c.room
         IN  ShowRoom(d, IndexFor(hubs, c.hub), room, [hub |-> c.hub, room |-> room])
    [] c.call = "listRoomOf" ->
         ShowRoom(SetHubs(d), IndexFor(hubs, c.hub), c.room, [hub |-> c.hub, room |-> c.room])
    [] c.call = "removed"    -> ShowPlaceholder(refreshChannels(d))
    [] c.call = "edited"     ->
         LET r == refreshChannels(d)
         IN  IF r.cursor = HubRow(c.at) THEN ShowHubInfo(r, c.at) ELSE r

Run ==
  /\ queue # <<>>
  /\ queue' = Tail(queue)
  /\ page' = Effect(Head(queue), page)
  /\ UNCHANGED <<rrcVars, dialog, lost, last, keys, events>>

-----------------------------------------------------------------------------
(***************************************************************************)
(* The RRC worker.                                                         *)
(***************************************************************************)

\* Connected, lost, welcomed with its rooms joined, ...
HubChanges(h) ==
  /\ events < MaxEvents /\ events' = events + 1
  /\ h \in ToSet(hubs)
  /\ connected' \in {connected \cup {h}, connected \ {h}}
  /\ QueueUpdateDraw(NewCall("refresh"))
  /\ UNCHANGED <<hubs, rooms, active, page, dialog, last, keys>>

MessageArrives(h, room) ==
  /\ events < MaxEvents /\ events' = events + 1
  /\ h \in connected \cap ToSet(hubs)
  /\ rooms' = [rooms EXCEPT ![h] = @ \cup {room}]
  /\ QueueUpdateDraw(NewCall("message"))
  /\ UNCHANGED <<hubs, connected, active, page, dialog, last, keys>>

-----------------------------------------------------------------------------
(***************************************************************************)
(* The user, who waits until what he asked for has been drawn.             *)
(***************************************************************************)

NoDialog == [kind |-> "none", at |-> 0, named |-> Nowhere]
Keypress == Settled /\ keys < MaxKeys /\ keys' = keys + 1
ListKey  == Keypress /\ dialog.kind = "none"
Composer == Keypress /\ dialog.kind = "none" /\ page.pane = "room"

\* Something done to a hub's room, while the page named another or the same.
Does(what, hub, room, named) ==
  last' = [what |-> what, hub |-> hub, room |-> room, named |-> named, bare |-> active.room = NoRoom]

SelectedEntry == page.cursor
OnRow == page.cursor # NoRow
NamedBy(e) == [hub |-> HubAt(page.views, e.at), room |-> e.room]

Move(row) ==
  /\ dialog.kind = "none" /\ row \in page.rows /\ row # page.cursor
  /\ page' = [page EXCEPT !.cursor = row]
  /\ UNCHANGED <<rrcVars, dialog, updateVars, last, keys, events>>

\* Mutant: the room shown does not become the active one.
OpensInactive(i, room) ==
  LET h == HubAt(hubs, i)
  IN  /\ h # NoHub
      /\ \/ rooms' = [rooms EXCEPT ![h] = @ \cup {room}]
         \/ h \in connected /\ UNCHANGED rooms
      /\ UNCHANGED active
      /\ QueueUpdateDraw([call |-> "room", at |-> i, hub |-> h, room |-> room])

\* selectRoomRow: a room that is not there yet is joined, at once or when the
\* hub answers, or added.
Opens(i, room) ==
  LET h == HubAt(hubs, i)
  IN  /\ h # NoHub
      /\ active' = [hub |-> h, room |-> room]
      /\ \/ rooms' = [rooms EXCEPT ![h] = @ \cup {room}]
         \/ h \in connected /\ UNCHANGED rooms
      /\ QueueUpdateDraw([call |-> "room", at |-> i, hub |-> h, room |-> room])

\* Enter on a hub's row.
SelectHub ==
  /\ ListKey /\ OnRow /\ SelectedEntry.kind = "hub"
  /\ page' = [page EXCEPT !.at = SelectedEntry.at]
  /\ active' = IF HubAt(hubs, SelectedEntry.at) = NoHub THEN active
               ELSE [hub |-> HubAt(hubs, SelectedEntry.at), room |-> NoRoom]
  /\ QueueUpdateDraw([NewCall("info") EXCEPT !.at = SelectedEntry.at])
  /\ UNCHANGED <<hubs, rooms, connected, dialog, last, events>>

\* Enter on a room's row.
SelectRoom ==
  /\ ListKey /\ OnRow /\ SelectedEntry.kind = "room"
  /\ Opens(SelectedEntry.at, SelectedEntry.room)
  /\ UNCHANGED <<hubs, connected, page, dialog, last, events>>

\* The panel shows the hub at the place for which it was built.
PanelIsItsHubs == HubAt(page.views, page.opens) = page.info

\* A click on a room in the hub's panel: of the hub for which it was built.
OpenRoom(room) ==
  /\ ListKey /\ page.pane = "info"
  /\ Opens(page.opens, room)
  /\ Does(IF PanelIsItsHubs THEN "list" ELSE "stale", HubAt(hubs, page.opens), room,
          [hub |-> page.info, room |-> room])
  /\ UNCHANGED <<hubs, connected, page, dialog, events>>

\* A link to a room, clicked in a message.
ChatLink(room) ==
  /\ Composer /\ active.hub # NoHub
  /\ Opens(IndexFor(hubs, active.hub), room)
  /\ UNCHANGED <<hubs, connected, page, dialog, last, events>>

\* OnConnect, OnDisconnect, OnToggleAutoReconnect.
HubKey ==
  /\ ListKey /\ OnRow
  /\ LET h == HubAt(hubs, SelectedEntry.at)
     IN  /\ h # NoHub
         /\ connected' \in {connected, connected \ {h}}
         /\ Does("list", h, NoRoom, [NamedBy(SelectedEntry) EXCEPT !.room = NoRoom])
  /\ UNCHANGED <<hubs, rooms, active, page, dialog, updateVars, events>>

RemoveSelectedDialog ==
  /\ ListKey /\ OnRow
  /\ dialog' = [kind |-> "remove", at |-> SelectedEntry.at, named |-> NamedBy(SelectedEntry)]
  /\ UNCHANGED <<rrcVars, page, updateVars, last, events>>

\* Mutant: the list is not refreshed when a hub has been removed.
RemoveUnlisted ==
  /\ Settled /\ dialog.kind = "remove" /\ dialog' = NoDialog
  /\ LET h == HubAt(hubs, dialog.at) IN
       /\ h # NoHub
       /\ Does("list", h, dialog.named.room, dialog.named)
       /\ IF dialog.named.room # NoRoom
            THEN rooms' = [rooms EXCEPT ![h] = @ \ {dialog.named.room}] /\ UNCHANGED <<hubs, connected, active>>
            ELSE /\ hubs' = RemoveAt(hubs, IndexFor(hubs, h)) /\ connected' = connected \ {h}
                 /\ active' \in {active, IF active.hub = h THEN Nowhere ELSE active}
                 /\ UNCHANGED rooms
  /\ page' = ShowPlaceholder(page)
  /\ UNCHANGED <<updateVars, keys, events>>

\* Yes: OnRemoveSelected.
RemoveSelected ==
  /\ Settled /\ dialog.kind = "remove" /\ dialog' = NoDialog
  /\ LET h == HubAt(hubs, dialog.at) IN
       /\ h # NoHub
       /\ Does("list", h, dialog.named.room, dialog.named)
       /\ IF dialog.named.room # NoRoom
            THEN rooms' = [rooms EXCEPT ![h] = @ \ {dialog.named.room}] /\ UNCHANGED <<hubs, connected, active>>
            ELSE /\ hubs' = RemoveAt(hubs, IndexFor(hubs, h)) /\ connected' = connected \ {h}
                 /\ active' \in {active, IF active.hub = h THEN Nowhere ELSE active}
                 /\ UNCHANGED rooms
  /\ QueueUpdateDraw(NewCall("removed"))
  /\ UNCHANGED <<page, keys, events>>

EditHubDialog ==
  /\ ListKey /\ OnRow /\ SelectedEntry.kind = "hub"
  /\ dialog' = [kind |-> "edit", at |-> SelectedEntry.at, named |-> NamedBy(SelectedEntry)]
  /\ UNCHANGED <<rrcVars, page, updateVars, last, events>>

\* Save: OnEditHubSubmitted.
EditHub ==
  /\ Settled /\ dialog.kind = "edit" /\ dialog' = NoDialog
  /\ HubAt(hubs, dialog.at) # NoHub
  /\ Does("list", HubAt(hubs, dialog.at), NoRoom, dialog.named)
  /\ QueueUpdateDraw([NewCall("edited") EXCEPT !.at = dialog.at])
  /\ UNCHANGED <<rrcVars, page, keys, events>>

\* No, Back and Esc.
CloseDialog ==
  /\ dialog.kind # "none" /\ dialog' = NoDialog
  /\ UNCHANGED <<rrcVars, page, updateVars, last, keys, events>>

JoinRoomDialog ==
  /\ ListKey /\ hubs # <<>>
  /\ dialog' = [kind |-> "join", at |-> 0,
                named |-> IF OnRow THEN NamedBy(SelectedEntry) ELSE [hub |-> HubAt(page.views, 1), room |-> NoRoom]]
  /\ UNCHANGED <<rrcVars, page, updateVars, last, events>>

\* OnJoinRoomSubmitted, of the active hub or the first one.
Joins(room) ==
  LET h == IF active.hub # NoHub THEN active.hub ELSE HubAt(hubs, 1)
  IN  /\ h # NoHub
      /\ rooms' = [rooms EXCEPT ![h] = @ \cup {room}]
      /\ active' = [hub |-> h, room |-> room]
      /\ QueueUpdateDraw(NewRoomCall("listRoomOf", h, room))

JoinRoom(room) ==
  /\ Settled /\ dialog.kind = "join" /\ dialog' = NoDialog
  /\ Joins(room)
  /\ Does("join", active'.hub, room, dialog.named)
  /\ UNCHANGED <<hubs, connected, page, keys, events>>

\* OnAddHub, from the New Hub dialog.
AddHub(h) ==
  /\ ListKey /\ h \notin ToSet(hubs) /\ Len(hubs) < AddMax
  /\ hubs' = Append(hubs, h) /\ rooms' = [rooms EXCEPT ![h] = {}]
  /\ QueueUpdateDraw(NewCall("list"))
  /\ UNCHANGED <<connected, active, page, dialog, last, events>>

\* OnOpenRRC: a link on a page of the browser, to a hub that is added when it
\* is new, and to one of its rooms or to none.
OpenLink(h, room) ==
  /\ ListKey
  /\ IF h \in ToSet(hubs) THEN UNCHANGED hubs ELSE Len(hubs) < AddMax /\ hubs' = Append(hubs, h)
  /\ active' = [hub |-> h, room |-> room]
  /\ rooms' = [rooms EXCEPT ![h] = IF room = NoRoom THEN @ ELSE @ \cup {room}]
  /\ QueueUpdateDraw(IF room = NoRoom THEN NewCall("list") ELSE NewRoomCall("listRoomOf", h, room))
  /\ UNCHANGED <<connected, page, dialog, last, events>>

-----------------------------------------------------------------------------
(***************************************************************************)
(* The room's composer.                                                    *)
(***************************************************************************)

\* Text, /me, /msg, /ping, /list and what is forwarded to the hub.  The status
\* is that of the hub the widget was built for.
SendText ==
  /\ Composer /\ page.widget.hub \in connected /\ active.hub # NoHub
  /\ Does("composer", active.hub, active.room, page.widget)
  /\ UNCHANGED <<rrcVars, page, dialog, updateVars, events>>

\* A line for the user alone, which the hub keeps.
LocalMessage ==
  /\ Composer /\ active.hub # NoHub
  /\ rooms' = [rooms EXCEPT ![active.hub] = @ \cup ({page.widget.room} \ {NoRoom})]
  /\ Does("composer", active.hub, page.widget.room, page.widget)
  /\ QueueUpdateDraw(NewRoomCall("noteOf", active.hub, page.widget.room))
  /\ UNCHANGED <<hubs, connected, active, page, dialog, events>>

\* /clear.  A room without messages that is not joined is gone.
Clear ==
  /\ Composer /\ active.hub # NoHub
  /\ rooms' \in {rooms, [rooms EXCEPT ![active.hub] = @ \ {active.room}]}
  /\ Does("composer", active.hub, active.room, page.widget)
  /\ QueueUpdateDraw(NewRoomCall("roomOf", active.hub, active.room))
  /\ UNCHANGED <<hubs, connected, active, page, dialog, events>>

\* /join.
JoinNamed(room) ==
  /\ Composer
  /\ Joins(room)
  /\ UNCHANGED <<hubs, connected, page, dialog, last, events>>

\* /disconnect, /nick, and /connect, which is the worker's from there on.
HubCommand ==
  /\ Composer /\ active.hub # NoHub
  /\ \/ connected' = connected \ {active.hub} /\ QueueUpdateDraw(NewCall("list"))
     \/ UNCHANGED connected /\ (QueueUpdateDraw(NewCall("list")) \/ UNCHANGED updateVars)
  /\ Does("composer", active.hub, page.widget.room, page.widget)
  /\ UNCHANGED <<hubs, rooms, active, page, dialog, events>>

Leaves(target) ==
  /\ IF active.hub = NoHub THEN UNCHANGED <<rooms, updateVars>>
     ELSE /\ rooms' \in {rooms, [rooms EXCEPT ![active.hub] = @ \ {target}]}
          /\ QueueUpdateDraw(NewCall("list"))
  /\ page' = IF target = page.room THEN ShowPlaceholder(page) ELSE page

\* /part, and C-x.
Leave(target) ==
  /\ Composer
  /\ Leaves(target)
  /\ Does("composer", active.hub, target, [page.widget EXCEPT !.room = target])
  /\ UNCHANGED <<hubs, connected, active, dialog, events>>

\* handleSlashCommand, and a line that is not a command.
SlashCommand ==
  \/ SendText \/ LocalMessage \/ Clear \/ HubCommand
  \/ \E room \in Rooms : JoinNamed(room) \/ Leave(room)

\* C-d outside a room.
LeaveShown ==
  /\ ListKey /\ page.pane # "room"
  /\ Leaves(page.room)
  /\ Does("leave", active.hub, page.room, page.widget)
  /\ UNCHANGED <<hubs, connected, active, dialog, events>>

-----------------------------------------------------------------------------
NoPage == [views |-> <<>>, rows |-> {}, cursor |-> NoRow, pane |-> "", at |-> 1, room |-> NoRoom,
           widget |-> Nowhere, shown |-> Nowhere, info |-> NoHub, opens |-> 0]

\* The hubs of the last run have been loaded, and refreshChannels has run.
ChannelsInit ==
  /\ hubs \in {s \in SeqOf(Hubs, AddMax) : \A i, j \in DOMAIN s : i # j => s[i] # s[j]}
  /\ rooms \in [Hubs -> SUBSET Rooms] /\ \A h \in Hubs \ ToSet(hubs) : rooms[h] = {}
  /\ connected = {} /\ active = Nowhere
  /\ page = SetHubs(NoPage)
  /\ dialog = NoDialog /\ queue = <<>> /\ lost = FALSE
  /\ last = [what |-> "none", hub |-> NoHub, room |-> NoRoom, named |-> Nowhere, bare |-> TRUE]
  /\ keys = 0 /\ events = 0

Worker ==
  \E h \in Hubs : HubChanges(h) \/ \E room \in Rooms : MessageArrives(h, room)

User ==
  \/ \E row \in page.rows : Move(row)
  \/ SelectHub \/ SelectRoom \/ HubKey
  \/ RemoveSelectedDialog \/ RemoveSelected \/ EditHubDialog \/ EditHub \/ JoinRoomDialog \/ CloseDialog
  \/ \E room \in Rooms : OpenRoom(room) \/ ChatLink(room) \/ JoinRoom(room)
  \/ \E h \in Hubs : AddHub(h) \/ \E room \in Rooms \cup {NoRoom} : OpenLink(h, room)
  \/ SlashCommand \/ LeaveShown

ChannelsNext == Run \/ Worker \/ User

ChannelsSpec == ChannelsInit /\ [][ChannelsNext]_channelsVars

-----------------------------------------------------------------------------
ChannelsTypeOK ==
  /\ hubs \in Seq(Hubs) /\ Len(hubs) <= AddMax
  /\ rooms \in [Hubs -> SUBSET Rooms] /\ connected \subseteq Hubs /\ active \in Place
  /\ page \in Page /\ page.cursor \in page.rows \cup {NoRow}
  /\ dialog \in Dialog
  /\ queue \in Seq(Call) /\ Len(queue) <= QueueMax /\ lost \in BOOLEAN
  /\ last.named \in Place /\ keys \in Nat /\ events \in Nat

(***************************************************************************)
(* What the composer sends goes to the hub and the room whose chat is on   *)
(* the screen, although it asks the manager and not the widget, unless a   *)
(* link to a hub without a room has been followed, and as long as the      *)
(* queue has dropped nothing that the user asked for.                      *)
(***************************************************************************)
ActsWhereShown ==
  ~lost /\ last.what = "composer" /\ ~last.bare
    => last.hub = last.named.hub /\ last.room = last.named.room

(***************************************************************************)
(* What knows a hub by its place in a list that changes acts on the hub    *)
(* that the screen names: the keys to connect, disconnect and reconnect,   *)
(* the dialogs to remove and to edit, and a click in a hub's panel, as     *)
(* long as the queue has dropped nothing that the user asked for.  Two     *)
(* things that name a hub are not among them, and act on another: the      *)
(* dialog to join a room names the hub of the selected row and joins the   *)
(* active one ("join"), and the panel opens the rooms of the hub for which *)
(* it was built whichever hub it shows by now ("stale").                   *)
(***************************************************************************)
ActsOnTheHubListed == ~lost /\ last.what = "list" => last.hub = last.named.hub

(***************************************************************************)
(* The messages on the screen are those of the room in the header, on the  *)
(* hub in the header, whatever refreshed them, as long as the queue has    *)
(* dropped nothing that the user asked for.                                *)
(***************************************************************************)
MessagesAreTheRooms ==
  ~lost /\ page.pane = "room" /\ Settled /\ page.room # NoRoom
    => page.shown = page.widget /\ HubAt(page.views, page.at) = page.widget.hub
=============================================================================
