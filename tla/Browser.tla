------------------------------- MODULE Browser -------------------------------
(***************************************************************************)
(* The page browser: the history and body of a BrowserDisplay, the request *)
(* sequence that drops the answers of superseded fetches, and the link     *)
(* that one fetch leaves for the next (Python's self_link).                *)
(*                                                                         *)
(* Every user action and every callback given to QueueUpdateDraw runs on   *)
(* the event loop, one at a time, and is one action here.  A fetch runs on *)
(* a goroutine of its own and is several: it reads the retained link,      *)
(* tests its context, takes or makes a link, requests, and waits.  Its     *)
(* last action leaves an answer that Deliver hands to the event loop,      *)
(* unless the full update queue has dropped it (CallDropped).              *)
(*                                                                         *)
(* Left out: request data, what the page cache holds (a request that may   *)
(* use it may find the page there or not), the header and the footer,      *)
(* scroll positions, and the dialog for blocked nodes, whose Connect runs  *)
(* the same LoadURL or ClickLink.                                          *)
(***************************************************************************)
EXTENDS Integers, Sequences, FiniteSets

CONSTANTS
  Dests,         \* destination hashes of nodes
  LocalNode,     \* the destination of the node in this process, or None
  Pages, Files,  \* the paths of pages, and the paths under /file/
  Typed,         \* the URLs that the user may type
  Links,         \* the URLs that a page may link to
  Malformed,     \* a URL that ParseURL rejects whatever the current node
  None,
  MaxRequests,   \* how often a request is begun or cancelled
  MaxInFlight,   \* how many requests are under way at once
  MaxHistory     \* how many entries the history grows to

ASSUME BrowserAssumption ==
  /\ MaxRequests \in Nat /\ MaxInFlight \in Nat /\ MaxHistory \in Nat
  /\ None \notin Dests
  /\ LocalNode \in Dests \union {None}
  /\ Pages \intersect Files = {}

Paths == Pages \union Files
Page == [dest : Dests, path : Paths]
NoPage == [dest |-> None, path |-> None]
URL == [dest : Dests \union {None}, path : Paths] \union {Malformed}

ASSUME URLAssumption == Typed \union Links \subseteq URL

Requests == 1 .. MaxRequests

(***************************************************************************)
(* Fetch n establishes at most one link, and that is link n.  A fetch      *)
(* whose link has another number reuses it.  No link is 0.  A link that is *)
(* torn down is never opened again, and nothing else is asked of it.       *)
(***************************************************************************)
LinkIds == Requests
NoLink == 0

VARIABLES
  history, histIdx,  \* the URLs visited and the one on screen; 1-based, 0 for none
  pendingLinkHist,   \* the last entry was pushed by a click that is not settled
  currentDest,
  retainedLink,
  reqSeq,
  fetches,           \* request number -> what became of it
  links,             \* link -> its state and, while it is open, its destination
  markup,            \* the page rendered last
  content,           \* what the text view holds
  loading            \* "Retrieving" is shown in its place

historyVars == <<history, histIdx, pendingLinkHist>>
nodeVars == <<currentDest, retainedLink, reqSeq>>
bodyVars == <<markup, content, loading>>
vars == <<historyVars, nodeVars, fetches, links, bodyVars>>

Fetch == [pc : {"idle", "malformed", "cached", "local", "served", "start", "enter",
                "resolve", "establish", "request", "wait", "answer", "end"},
          page : Page \union {NoPage},
          link : LinkIds \union {NoLink},
          outcome : {"none", "data", "error", "unsent", "saved", "lost"}]

Link == [state : {"closed", "pending", "active"}, dest : Dests \union {None}]
Closed == [state |-> "closed", dest |-> None]

NoFetch == [pc |-> "idle", page |-> NoPage, link |-> NoLink, outcome |-> "none"]

TypeOK ==
  /\ history \in Seq(URL)
  /\ histIdx \in 0 .. Len(history) /\ (histIdx = 0 <=> history = <<>>)
  /\ pendingLinkHist \in BOOLEAN
  /\ currentDest \in Dests \union {None}
  /\ retainedLink \in LinkIds \union {NoLink}
  /\ reqSeq \in 0 .. MaxRequests
  /\ fetches \in [Requests -> Fetch]
  /\ links \in [LinkIds -> Link]
  /\ markup \in Page \union {NoPage}
  /\ content \in {"empty", "page", "notice"}
  /\ loading \in BOOLEAN

Init ==
  /\ history = <<>> /\ histIdx = 0 /\ pendingLinkHist = FALSE
  /\ currentDest = None /\ retainedLink = NoLink /\ reqSeq = 0
  /\ fetches = [n \in Requests |-> NoFetch]
  /\ links = [l \in LinkIds |-> Closed]
  /\ markup = NoPage /\ content = "empty" /\ loading = FALSE

-----------------------------------------------------------------------------
(* History.                                                                *)

LastPopped(h) == SubSeq(h, 1, Len(h) - 1)

RolledBack == IF pendingLinkHist THEN LastPopped(history) ELSE history
RolledBackIdx == IF pendingLinkHist THEN Len(LastPopped(history)) ELSE histIdx

\* Mutant: the entry is dropped and the position stays.
rollbackPendingLinkKeepsIdx ==
  /\ history' = RolledBack
  /\ histIdx' = histIdx
  /\ pendingLinkHist' = FALSE

rollbackPendingLink ==
  /\ history' = RolledBack
  /\ histIdx' = RolledBackIdx
  /\ pendingLinkHist' = FALSE

pushHistory(url) ==
  /\ RolledBackIdx < MaxHistory
  /\ history' = Append(SubSeq(RolledBack, 1, RolledBackIdx), url)
  /\ histIdx' = RolledBackIdx + 1

-----------------------------------------------------------------------------
(* Requests.                                                               *)

ParseURL(url, dest) ==
  IF url = Malformed \/ (url.dest = None /\ dest = None) THEN NoPage
  ELSE [dest |-> IF url.dest = None THEN dest ELSE url.dest, path |-> url.path]

(***************************************************************************)
(* Every BeginRequest cancels the context of the one before.               *)
(***************************************************************************)
Cancelled(n) == n # reqSeq

Active(l) == l # NoLink /\ links[l].state = "active"

Teardown(l) == IF l = NoLink THEN links ELSE [links EXCEPT ![l] = Closed]

\* Mutant: a change of node keeps the retained link.
SetCurrentDestKeepsLink(dest) ==
  /\ currentDest' = dest
  /\ UNCHANGED <<links, retainedLink>>

SetCurrentDest(dest) ==
  LET stale == dest # currentDest
  IN /\ currentDest' = dest
     /\ links' = IF stale THEN Teardown(retainedLink) ELSE links
     /\ retainedLink' = IF stale THEN NoLink ELSE retainedLink

(***************************************************************************)
(* Where a request that has a page to fetch starts: from the page cache,   *)
(* from the pages of this node, or with a goroutine that goes to the       *)
(* network.  The cache outlives the process, so any page may be in it; no  *)
(* file ever is.                                                           *)
(***************************************************************************)
Source(page, useCache) ==
  (IF useCache /\ page.path \in Pages THEN {"cached"} ELSE {})
    \union (IF page.dest = LocalNode THEN {"local"} ELSE {"start"})

InFlight == {n \in Requests : fetches[n].pc \notin {"idle", "end"}}

OnRetrieveURL(url, useCache) ==
  LET page == ParseURL(url, currentDest)
      Begin(pc) == fetches' = [fetches EXCEPT ![reqSeq + 1] = [NoFetch EXCEPT !.pc = pc, !.page = page]]
  IN /\ reqSeq < MaxRequests /\ Cardinality(InFlight) < MaxInFlight
     /\ reqSeq' = reqSeq + 1
     /\ \/ /\ page = NoPage
           /\ Begin("malformed")
           /\ UNCHANGED <<currentDest, retainedLink, links>>
        \/ /\ page # NoPage
           /\ SetCurrentDest(page.dest)
           /\ \E pc \in Source(page, useCache) : Begin(pc)

-----------------------------------------------------------------------------
(* What the user does.                                                     *)

displayURL(url, useCache) ==
  /\ loading' = TRUE
  /\ UNCHANGED <<markup, content>>
  /\ OnRetrieveURL(url, useCache)

LoadURL ==
  \E url \in Typed :
    /\ pushHistory(url)
    /\ pendingLinkHist' = FALSE
    /\ displayURL(url, TRUE)

ClickLink ==
  /\ content = "page" /\ ~loading
  /\ \E url \in Links :
       /\ pushHistory(url)
       /\ pendingLinkHist' = TRUE
       /\ OnRetrieveURL(url, TRUE)
  /\ UNCHANGED bodyVars

GoTo(idx) ==
  /\ ~pendingLinkHist
  /\ idx \in 1 .. Len(history)
  /\ histIdx' = idx
  /\ UNCHANGED <<history, pendingLinkHist>>
  /\ displayURL(history[idx], TRUE)

GoBack == GoTo(histIdx - 1)
GoForward == histIdx > 0 /\ GoTo(histIdx + 1)

(***************************************************************************)
(* Reload takes the page out of the cache first, and it takes the URL      *)
(* before displayURL rolls a pending click back.                           *)
(***************************************************************************)
Reload ==
  /\ histIdx > 0
  /\ displayURL(history[histIdx], FALSE)
  /\ rollbackPendingLink

Disconnect ==
  /\ reqSeq < MaxRequests
  /\ reqSeq' = reqSeq + 1
  /\ history' = <<>> /\ histIdx' = 0
  /\ SetCurrentDest(None)
  /\ content' = "notice" /\ loading' = FALSE
  /\ UNCHANGED <<pendingLinkHist, fetches, markup>>

(***************************************************************************)
(* A partial of the page arrives or the pane changes its width: the page   *)
(* rendered last is rendered again.                                        *)
(***************************************************************************)
repaint ==
  /\ markup # NoPage
  /\ content' = "page" /\ loading' = FALSE
  /\ pendingLinkHist' = FALSE
  /\ UNCHANGED <<history, histIdx, nodeVars, fetches, links, markup>>

-----------------------------------------------------------------------------
(* The goroutine of a fetch.                                               *)

Moves(n, pc) == fetches' = [fetches EXCEPT ![n].pc = pc]

Answers(n, outcome) ==
  fetches' = [fetches EXCEPT ![n].pc = "answer", ![n].outcome = outcome]

UILeftAlone == UNCHANGED <<historyVars, nodeVars, bodyVars>>

ServeLocal(n) ==
  /\ fetches[n].pc = "local"
  /\ Moves(n, "served")
  /\ UNCHANGED links

(***************************************************************************)
(* activeRetainedLink, before fetchBytes looks at the context.             *)
(***************************************************************************)
ReadRetainedLink(n) ==
  /\ fetches[n].pc = "start"
  /\ fetches' = [fetches EXCEPT ![n].pc = "enter",
                                ![n].link = IF Active(retainedLink) THEN retainedLink ELSE NoLink]
  /\ UNCHANGED links

\* Mutant: the context is not tested.
EnterFetchRegardless(n) ==
  LET existing == fetches[n].link
  IN /\ fetches[n].pc = "enter"
     /\ \/ /\ Active(existing)
           /\ Moves(n, "request")
           /\ UNCHANGED links
        \/ /\ ~Active(existing)
           /\ fetches' = [fetches EXCEPT ![n].pc = "resolve", ![n].link = NoLink]
           /\ links' = Teardown(existing)

EnterFetch(n) ==
  LET existing == fetches[n].link
  IN /\ fetches[n].pc = "enter"
     /\ \/ /\ Cancelled(n)
           /\ Answers(n, "error")
           /\ UNCHANGED links
        \/ /\ ~Cancelled(n) /\ Active(existing)
           /\ Moves(n, "request")
           /\ UNCHANGED links
        \/ /\ ~Cancelled(n) /\ ~Active(existing)
           /\ fetches' = [fetches EXCEPT ![n].pc = "resolve", ![n].link = NoLink]
           /\ links' = Teardown(existing)

ResolvePath(n) ==
  /\ fetches[n].pc = "resolve"
  /\ \/ /\ fetches' = [fetches EXCEPT ![n].pc = "establish", ![n].link = n]
        /\ links' = [links EXCEPT ![n] = [state |-> "pending", dest |-> fetches[n].page.dest]]
     \/ /\ Answers(n, "error")   \* no path, no identity, or cancelled
        /\ UNCHANGED links

EstablishLink(n) ==
  /\ fetches[n].pc = "establish"
  /\ \/ /\ Moves(n, "request")
        /\ links' = [links EXCEPT ![n].state = "active"]
     \/ /\ Answers(n, "error")   \* closed by the watchdog, too late, or cancelled
        /\ links' = Teardown(n)

Reuses(n) == fetches[n].link # n

SendRequest(n) ==
  /\ fetches[n].pc = "request"
  /\ \/ /\ Moves(n, "wait")
        /\ UNCHANGED links
     \/ /\ Answers(n, "unsent")
        /\ links' = IF Reuses(n) THEN links ELSE Teardown(n)

ReceiveResponse(n) ==
  /\ fetches[n].pc = "wait"
  /\ \/ /\ Active(fetches[n].link)
        /\ Answers(n, "data")
        /\ UNCHANGED links
     \/ /\ Answers(n, "error")   \* the request failed or timed out
        /\ links' = Teardown(fetches[n].link)

AbortWait(n) ==
  /\ fetches[n].pc = "wait"
  /\ Cancelled(n)
  /\ Answers(n, "error")
  /\ links' = Teardown(fetches[n].link)

FetchStep(n) ==
  /\ \/ ServeLocal(n) \/ ReadRetainedLink(n) \/ EnterFetch(n) \/ ResolvePath(n)
     \/ EstablishLink(n) \/ SendRequest(n) \/ ReceiveResponse(n) \/ AbortWait(n)
  /\ UILeftAlone

(***************************************************************************)
(* The node at the other end, or the link's own watchdog, closes a link.   *)
(***************************************************************************)
LinkCloses ==
  /\ \E l \in LinkIds :
       /\ Active(l)
       /\ links' = Teardown(l)
  /\ UNCHANGED fetches
  /\ UILeftAlone

-----------------------------------------------------------------------------
(* The callbacks that a request leaves for the event loop.                 *)

RenderPage(page) ==
  /\ markup' = page /\ content' = "page" /\ loading' = FALSE
  /\ pendingLinkHist' = FALSE
  /\ UNCHANGED <<history, histIdx>>

\* SetContent and ShowRequestFailed.
ShowNotice ==
  /\ rollbackPendingLink
  /\ content' = "notice" /\ loading' = FALSE
  /\ UNCHANGED markup

\* Mutant: showContent is forgotten.
NotifyLinkErrorKeepsLoading ==
  /\ rollbackPendingLink
  /\ UNCHANGED bodyVars

NotifyLinkError ==
  /\ rollbackPendingLink
  /\ loading' = FALSE
  /\ UNCHANGED <<markup, content>>

(***************************************************************************)
(* Of a fetch that is over only the link it left open is remembered, and   *)
(* how that came about.  A fetch that failed returns no link.              *)
(***************************************************************************)
Forgetful == {"saved", "unsent", "lost"}

Ends(n, outcome) ==
  LET left == outcome \in Forgetful
      held == left /\ fetches[n].outcome # "error"
  IN fetches' = [fetches EXCEPT ![n] =
       [NoFetch EXCEPT !.pc = "end", !.link = IF held THEN fetches[n].link ELSE NoLink,
                       !.outcome = IF left THEN outcome ELSE "none"]]

Queued(n) == fetches[n].pc \in {"malformed", "cached", "served", "answer"}

\* Mutant: the link of a stale result is not torn down.
StaleKeepsLink(n) ==
  LET f == fetches[n]
  IN /\ Queued(n) /\ Cancelled(n)
     /\ Ends(n, f.outcome)
     /\ UNCHANGED <<historyVars, retainedLink, links, bodyVars>>

Stale(n) ==
  LET f == fetches[n]
  IN /\ Queued(n) /\ Cancelled(n)
     /\ Ends(n, f.outcome)
     /\ links' = IF f.outcome = "data" /\ retainedLink # f.link THEN Teardown(f.link) ELSE links
     /\ UNCHANGED <<historyVars, retainedLink, bodyVars>>

DeliverMalformed(n) ==
  /\ fetches[n].pc = "malformed" /\ ~Cancelled(n)
  /\ NotifyLinkError
  /\ Ends(n, "none")
  /\ UNCHANGED <<retainedLink, links>>

DeliverFromDisk(n) ==
  LET page == fetches[n].page
  IN /\ fetches[n].pc \in {"cached", "served"} /\ ~Cancelled(n)
     /\ IF page.path \in Files THEN ShowNotice ELSE RenderPage(page)
     /\ Ends(n, "none")
     /\ UNCHANGED <<retainedLink, links>>

DeliverError(n) ==
  LET f == fetches[n]
  IN /\ f.pc = "answer" /\ ~Cancelled(n) /\ f.outcome # "data"
     /\ ShowNotice
     /\ retainedLink' = NoLink
     /\ Ends(n, f.outcome)
     /\ UNCHANGED links

(***************************************************************************)
(* completeRemoteFilePath: the file is saved, or the body says it was not. *)
(* Neither touches the link.                                               *)
(***************************************************************************)
DeliverFile(n) ==
  LET f == fetches[n]
  IN /\ f.pc = "answer" /\ ~Cancelled(n) /\ f.outcome = "data" /\ f.page.path \in Files
     /\ \/ ShowNotice
        \/ UNCHANGED <<historyVars, bodyVars>>   \* ShowDownload
     /\ Ends(n, "saved")
     /\ UNCHANGED <<retainedLink, links>>

DeliverPage(n) ==
  LET f == fetches[n]
  IN /\ f.pc = "answer" /\ ~Cancelled(n) /\ f.outcome = "data" /\ f.page.path \in Pages
     /\ retainedLink' = f.link
     /\ RenderPage(f.page)
     /\ Ends(n, "data")
     /\ UNCHANGED links

(***************************************************************************)
(* The update queue is full and drops the callback.  Nothing asks for it   *)
(* again: the body, the pending click and the link stay as they are.       *)
(***************************************************************************)
CallDropped(n) ==
  /\ Queued(n)
  /\ Ends(n, "lost")
  /\ UNCHANGED <<historyVars, retainedLink, links, bodyVars>>

Deliver(n) ==
  /\ \/ CallDropped(n) \/ Stale(n) \/ DeliverMalformed(n) \/ DeliverFromDisk(n)
     \/ DeliverError(n) \/ DeliverFile(n) \/ DeliverPage(n)
  /\ UNCHANGED <<currentDest, reqSeq>>

-----------------------------------------------------------------------------
UserAction == LoadURL \/ ClickLink \/ GoBack \/ GoForward \/ Reload \/ Disconnect

Next ==
  \/ UserAction
  \/ repaint
  \/ LinkCloses
  \/ \E n \in Requests : FetchStep(n) \/ Deliver(n)

Spec == Init /\ [][Next]_vars

-----------------------------------------------------------------------------
(* Properties.                                                             *)

Settled == \A n \in Requests : n = reqSeq => fetches[n].pc \in {"idle", "end"}

(***************************************************************************)
(* The link kept for the next fetch leads to the node that the browser is  *)
(* on, whichever fetch answers when: SetCurrentDest and the stale-result   *)
(* test of the callback keep it so together.                               *)
(***************************************************************************)
RetainedLinkIsForCurrentDest ==
  Active(retainedLink) => links[retainedLink].dest = currentDest

(***************************************************************************)
(* No request goes out over a link to another node.  The goroutine reads   *)
(* the retained link off the event loop, possibly after the user has moved *)
(* on, and fetchBytes uses it without asking where it leads.               *)
(***************************************************************************)
RequestsGoToTheirNode ==
  \A n \in Requests :
    fetches[n].pc \in {"request", "wait"} /\ Active(fetches[n].link)
      => links[fetches[n].link].dest = fetches[n].page.dest

Running(n) == fetches[n].pc \in {"enter", "establish", "request", "wait", "answer"}

(***************************************************************************)
(* An open link is the retained one or has a fetch at work on it, so       *)
(* nothing is left open that nobody will close; but for the link of a      *)
(* download, which is not retained, the reused link of a request that      *)
(* could not be sent, which is dropped without a teardown, and the link of *)
(* an answer that the full update queue dropped.                           *)
(***************************************************************************)
LinksAreOwned ==
  \A l \in LinkIds : Active(l) =>
    \/ l = retainedLink
    \/ \E n \in Requests : /\ fetches[n].link = l
                           /\ Running(n) \/ fetches[n].outcome \in Forgetful

(***************************************************************************)
(* "Retrieving" is up only while a request is under way: each way in which *)
(* one ends takes it down, but for a saved download, which leaves the body *)
(* alone, and for a callback of the request in force that the full update  *)
(* queue dropped.  The loss of a superseded callback leaves nothing up.    *)
(***************************************************************************)
RetrievingMeansInFlight ==
  loading => \/ ~Settled
             \/ \E n \in Requests : n = reqSeq /\ fetches[n].outcome \in {"saved", "lost"}

(***************************************************************************)
(* Said of the superseded fetch that reused the retained link: it does not *)
(* close the link under the newer fetch.                                   *)
(***************************************************************************)
SharedLinkSurvives ==
  [][\A n, m \in Requests :
       /\ m = reqSeq /\ fetches[m].pc \in {"request", "wait"}
       /\ n < m /\ fetches'[n] # fetches[n]
       => links'[fetches[m].link] = links[fetches[m].link]]_vars

(***************************************************************************)
(* Said of Back: it is a no-op while the fetch of a click is in flight,    *)
(* and so not once the fetch is over.                                      *)
(***************************************************************************)
BackWorksWhenSettled == (Settled /\ histIdx > 1) => ~pendingLinkHist

(***************************************************************************)
(* Said of CurrentDest, against which relative links are resolved: it is   *)
(* the node of the page that is loaded.                                    *)
(***************************************************************************)
CurrentDestIsOfThePage ==
  (Settled /\ content = "page" /\ ~loading /\ currentDest # None) => markup.dest = currentDest
=============================================================================
