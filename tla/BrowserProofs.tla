---------------------------- MODULE BrowserProofs ----------------------------
(***************************************************************************)
(* Type correctness of Browser, and that no request goes out over a link   *)
(* to another node, for any nodes, pages and number of requests.           *)
(***************************************************************************)
EXTENDS Browser, SequenceTheorems, TLAPS

(***************************************************************************)
(* The state that TypeOK speaks of falls into three parts.                 *)
(***************************************************************************)
HistoryOK ==
  /\ history \in Seq(URL)
  /\ histIdx \in 0 .. Len(history) /\ (histIdx = 0 <=> history = <<>>)
  /\ pendingLinkHist \in BOOLEAN

NetOK ==
  /\ currentDest \in Dests \union {None}
  /\ retainedLink \in LinkIds \union {NoLink}
  /\ reqSeq \in 0 .. MaxRequests
  /\ fetches \in [Requests -> Fetch]
  /\ links \in [LinkIds -> Link]

BodyOK ==
  /\ markup \in Page \union {NoPage}
  /\ content \in {"empty", "page", "notice"}
  /\ loading \in BOOLEAN

LEMMA TypeParts == TypeOK <=> HistoryOK /\ NetOK /\ BodyOK
  BY DEF TypeOK, HistoryOK, NetOK, BodyOK

LEMMA TypePartsNext == TypeOK' <=> HistoryOK' /\ NetOK' /\ BodyOK'
  BY DEF TypeOK, HistoryOK, NetOK, BodyOK

-----------------------------------------------------------------------------
(* History.                                                                *)

(***************************************************************************)
(* A prefix of a sequence is a sequence of its length.                     *)
(***************************************************************************)
LEMMA PrefixType ==
  ASSUME NEW S, NEW h \in Seq(S), NEW i \in 0 .. Len(h)
  PROVE  SubSeq(h, 1, i) \in Seq(S) /\ Len(SubSeq(h, 1, i)) = i
<1>1. Len(h) \in Nat
  BY LenProperties
<1>2. CASE i = 0
  <2>1. SubSeq(h, 1, i) = <<>>
    BY <1>2, <1>1, SubSeqProperties
  <2> QED
    BY <2>1, <1>2
<1>3. CASE i # 0
  <2>1. \A k \in 1 .. i : h[k] \in S
    BY <1>1, ElementOfSeq
  <2> QED
    BY <1>1, <1>3, <2>1, SubSeqProperties
<1> QED
  BY <1>2, <1>3

(***************************************************************************)
(* What is left once a pending click is rolled back is a history.          *)
(***************************************************************************)
LEMMA RolledBackType ==
  ASSUME HistoryOK
  PROVE  /\ RolledBack \in Seq(URL)
         /\ RolledBackIdx \in 0 .. Len(RolledBack)
         /\ RolledBackIdx = 0 <=> RolledBack = <<>>
<1>0. Len(history) \in Nat
  BY LenProperties DEF HistoryOK
<1>1. CASE ~pendingLinkHist
  BY <1>1 DEF HistoryOK, RolledBack, RolledBackIdx
<1>2. CASE pendingLinkHist /\ history = <<>>
  <2>1. LastPopped(history) = <<>>
    BY <1>2, SubSeqProperties DEF LastPopped
  <2>2. <<>> \in Seq(URL) /\ Len(<<>>) = 0
    BY EmptySeq
  <2>3. RolledBack = <<>> /\ RolledBackIdx = 0
    BY <1>2, <2>1, <2>2 DEF RolledBack, RolledBackIdx
  <2> QED
    BY <2>2, <2>3
<1>3. CASE pendingLinkHist /\ history # <<>>
  <2>1. Len(history) - 1 \in 0 .. Len(history)
    BY <1>0, <1>3, EmptySeq DEF HistoryOK
  <2>2. LastPopped(history) \in Seq(URL) /\ Len(LastPopped(history)) = Len(history) - 1
    BY <2>1, PrefixType DEF HistoryOK, LastPopped
  <2>3. Len(LastPopped(history)) = 0 <=> LastPopped(history) = <<>>
    BY <2>2, EmptySeq
  <2> QED
    BY <1>0, <1>3, <2>1, <2>2, <2>3 DEF RolledBack, RolledBackIdx
<1> QED
  BY <1>1, <1>2, <1>3 DEF HistoryOK

LEMMA RollbackType ==
  ASSUME HistoryOK, rollbackPendingLink
  PROVE  HistoryOK'
  BY RolledBackType DEF HistoryOK, rollbackPendingLink

LEMMA PushType ==
  ASSUME HistoryOK, NEW url \in URL, pushHistory(url), pendingLinkHist' \in BOOLEAN
  PROVE  HistoryOK'
<1> DEFINE kept == SubSeq(RolledBack, 1, RolledBackIdx)
<1>1. kept \in Seq(URL) /\ Len(kept) = RolledBackIdx /\ RolledBackIdx \in Nat
  BY RolledBackType, PrefixType, LenProperties
<1>2. history' = Append(kept, url) /\ histIdx' = RolledBackIdx + 1
  BY DEF pushHistory
<1>3. history' \in Seq(URL) /\ Len(history') = RolledBackIdx + 1 /\ history' # <<>>
  BY <1>1, <1>2, AppendProperties
<1> QED
  BY <1>1, <1>2, <1>3 DEF HistoryOK

-----------------------------------------------------------------------------
(* Requests.                                                               *)

LEMMA FetchType ==
  ASSUME NEW pc \in {"idle", "malformed", "cached", "local", "served", "start", "enter",
                     "resolve", "establish", "request", "wait", "answer", "end"},
         NEW page \in Page \union {NoPage}
  PROVE  [NoFetch EXCEPT !.pc = pc, !.page = page] \in Fetch
  BY DEF NoFetch, Fetch

(***************************************************************************)
(* A URL that parses names a page, and one of the current node if it names *)
(* no node itself.                                                         *)
(***************************************************************************)
LEMMA ParseType ==
  ASSUME NEW url \in URL, NEW dest \in Dests \union {None}
  PROVE  ParseURL(url, dest) = NoPage \/ ParseURL(url, dest) \in Page
  BY DEF ParseURL, URL, Page

LEMMA TeardownType ==
  ASSUME NetOK, NEW l \in LinkIds \union {NoLink}
  PROVE  Teardown(l) \in [LinkIds -> Link]
  BY DEF NetOK, Teardown, Closed, Link

LEMMA SetCurrentDestType ==
  ASSUME NetOK, NEW dest \in Dests \union {None}, SetCurrentDest(dest)
  PROVE  /\ currentDest' \in Dests \union {None}
         /\ retainedLink' \in LinkIds \union {NoLink}
         /\ links' \in [LinkIds -> Link]
  BY TeardownType DEF NetOK, SetCurrentDest

(***************************************************************************)
(* What OnRetrieveURL does, with the page it names and the place where the *)
(* request starts named.                                                   *)
(***************************************************************************)
LEMMA RequestCases ==
  ASSUME NetOK, NEW url \in URL, NEW useCache, OnRetrieveURL(url, useCache)
  PROVE  \E page \in Page \union {NoPage}, pc \in {"malformed", "cached", "local", "start"} :
           /\ reqSeq' = reqSeq + 1 /\ reqSeq + 1 \in Requests
           /\ fetches' = [fetches EXCEPT ![reqSeq + 1] = [NoFetch EXCEPT !.pc = pc, !.page = page]]
           /\ \/ /\ page = NoPage /\ pc = "malformed"
                 /\ UNCHANGED <<currentDest, retainedLink, links>>
              \/ page \in Page /\ SetCurrentDest(page.dest)
<1> DEFINE page == ParseURL(url, currentDest)
<1>1. reqSeq' = reqSeq + 1 /\ reqSeq + 1 \in Requests
  <2>1. reqSeq' = reqSeq + 1 /\ reqSeq < MaxRequests
    BY DEF OnRetrieveURL
  <2> QED
    BY <2>1, BrowserAssumption DEF NetOK, Requests
<1>2. page = NoPage \/ page \in Page
  BY ParseType DEF NetOK
<1>3. CASE page = NoPage
  BY <1>1, <1>3 DEF OnRetrieveURL, NoPage
<1>4. CASE page # NoPage
  <2>1. PICK pc \in Source(page, useCache) :
          fetches' = [fetches EXCEPT ![reqSeq + 1] = [NoFetch EXCEPT !.pc = pc, !.page = page]]
    BY <1>4 DEF OnRetrieveURL
  <2>2. pc \in {"cached", "local", "start"}
    BY DEF Source
  <2>3. SetCurrentDest(page.dest)
    BY <1>4 DEF OnRetrieveURL
  <2> HIDE DEF page
  <2> QED
    BY <1>1, <1>2, <1>4, <2>1, <2>2, <2>3
<1> QED
  BY <1>3, <1>4

LEMMA RequestType ==
  ASSUME NetOK, NEW url \in URL, NEW useCache, OnRetrieveURL(url, useCache)
  PROVE  NetOK'
<1>1. PICK page \in Page \union {NoPage}, pc \in {"malformed", "cached", "local", "start"} :
           /\ reqSeq' = reqSeq + 1 /\ reqSeq + 1 \in Requests
           /\ fetches' = [fetches EXCEPT ![reqSeq + 1] = [NoFetch EXCEPT !.pc = pc, !.page = page]]
           /\ \/ UNCHANGED <<currentDest, retainedLink, links>>
              \/ page \in Page /\ SetCurrentDest(page.dest)
  BY RequestCases
<1>2. fetches' \in [Requests -> Fetch]
  BY <1>1, FetchType DEF NetOK
<1>3. /\ currentDest' \in Dests \union {None}
      /\ retainedLink' \in LinkIds \union {NoLink}
      /\ links' \in [LinkIds -> Link]
  BY <1>1, SetCurrentDestType DEF NetOK, Page
<1> QED
  BY <1>1, <1>2, <1>3 DEF NetOK, Requests

-----------------------------------------------------------------------------
(* The user's actions.                                                     *)

LEMMA LoadURLType == ASSUME HistoryOK, NetOK, BodyOK, LoadURL PROVE HistoryOK' /\ NetOK' /\ BodyOK'
<1>1. PICK url \in URL :
        /\ pushHistory(url) /\ pendingLinkHist' = FALSE
        /\ displayURL(url, TRUE)
  BY URLAssumption DEF LoadURL
<1>2. HistoryOK'
  BY <1>1, PushType
<1>3. NetOK'
  BY <1>1, RequestType DEF displayURL
<1>4. BodyOK'
  BY <1>1 DEF displayURL, BodyOK
<1> QED
  BY <1>2, <1>3, <1>4

LEMMA ClickLinkType == ASSUME HistoryOK, NetOK, BodyOK, ClickLink PROVE HistoryOK' /\ NetOK' /\ BodyOK'
<1>1. PICK url \in URL :
        /\ pushHistory(url) /\ pendingLinkHist' = TRUE
        /\ OnRetrieveURL(url, TRUE)
  BY URLAssumption DEF ClickLink
<1>2. HistoryOK'
  BY <1>1, PushType
<1>3. NetOK'
  BY <1>1, RequestType
<1>4. BodyOK'
  BY DEF ClickLink, BodyOK, bodyVars
<1> QED
  BY <1>2, <1>3, <1>4

LEMMA GoToType ==
  ASSUME HistoryOK, NetOK, BodyOK, NEW idx, GoTo(idx)
  PROVE  HistoryOK' /\ NetOK' /\ BodyOK'
<1>1. idx \in 1 .. Len(history) /\ Len(history) \in Nat
  BY LenProperties DEF GoTo, HistoryOK
<1>2. history[idx] \in URL
  BY <1>1, ElementOfSeq DEF HistoryOK
<1>3. HistoryOK'
  BY <1>1 DEF GoTo, HistoryOK
<1>4. NetOK'
  BY <1>2, RequestType DEF GoTo, displayURL
<1>5. BodyOK'
  BY DEF GoTo, displayURL, BodyOK
<1> QED
  BY <1>3, <1>4, <1>5

LEMMA ReloadType == ASSUME HistoryOK, NetOK, BodyOK, Reload PROVE HistoryOK' /\ NetOK' /\ BodyOK'
<1>1. histIdx \in 1 .. Len(history)
  BY LenProperties DEF Reload, HistoryOK
<1>2. history[histIdx] \in URL
  BY <1>1, ElementOfSeq DEF HistoryOK
<1>3. HistoryOK'
  BY RollbackType DEF Reload
<1>4. NetOK'
  BY <1>2, RequestType DEF Reload, displayURL
<1>5. BodyOK'
  BY DEF Reload, displayURL, BodyOK
<1> QED
  BY <1>3, <1>4, <1>5

LEMMA DisconnectType == ASSUME HistoryOK, NetOK, BodyOK, Disconnect PROVE HistoryOK' /\ NetOK' /\ BodyOK'
<1>1. HistoryOK'
  BY EmptySeq DEF Disconnect, HistoryOK
<1>2. NetOK'
  BY SetCurrentDestType, BrowserAssumption DEF Disconnect, NetOK
<1>3. BodyOK'
  BY DEF Disconnect, BodyOK
<1> QED
  BY <1>1, <1>2, <1>3

-----------------------------------------------------------------------------
(* The fetches.                                                            *)

PCs == {"idle", "malformed", "cached", "local", "served", "start", "enter",
        "resolve", "establish", "request", "wait", "answer", "end"}

LEMMA MovesType ==
  ASSUME NetOK, NEW n \in Requests, NEW pc \in PCs, Moves(n, pc)
  PROVE  fetches' \in [Requests -> Fetch]
<1>1. [fetches[n] EXCEPT !.pc = pc] \in Fetch
  BY DEF NetOK, PCs, Fetch
<1>2. fetches' = [fetches EXCEPT ![n] = [fetches[n] EXCEPT !.pc = pc]]
  BY DEF NetOK, Moves, Fetch
<1> QED
  BY <1>1, <1>2 DEF NetOK

LEMMA MovesWithLinkType ==
  ASSUME NetOK, NEW n \in Requests, NEW pc \in PCs, NEW l \in LinkIds \union {NoLink},
         fetches' = [fetches EXCEPT ![n].pc = pc, ![n].link = l]
  PROVE  fetches' \in [Requests -> Fetch]
<1>1. [fetches[n] EXCEPT !.pc = pc, !.link = l] \in Fetch
  BY DEF NetOK, PCs, Fetch
<1>2. fetches' = [fetches EXCEPT ![n] = [fetches[n] EXCEPT !.pc = pc, !.link = l]]
  BY DEF NetOK, Fetch
<1> QED
  BY <1>1, <1>2 DEF NetOK

LEMMA AnswersType ==
  ASSUME NetOK, NEW n \in Requests, NEW outcome \in {"data", "error", "unsent"}, Answers(n, outcome)
  PROVE  fetches' \in [Requests -> Fetch]
<1>1. [fetches[n] EXCEPT !.pc = "answer", !.outcome = outcome] \in Fetch
  BY DEF NetOK, Fetch
<1>2. fetches' = [fetches EXCEPT ![n] = [fetches[n] EXCEPT !.pc = "answer", !.outcome = outcome]]
  BY DEF NetOK, Answers, Fetch
<1> QED
  BY <1>1, <1>2 DEF NetOK

LEMMA EndsType ==
  ASSUME NetOK, NEW n \in Requests, NEW outcome, Ends(n, outcome)
  PROVE  fetches' \in [Requests -> Fetch]
<1>1. [NoFetch EXCEPT !.pc = "end",
         !.link = IF outcome \in Forgetful /\ fetches[n].outcome # "error"
                    THEN fetches[n].link ELSE NoLink,
         !.outcome = IF outcome \in Forgetful THEN outcome ELSE "none"] \in Fetch
  BY DEF NetOK, NoFetch, Fetch, Forgetful
<1> QED
  BY <1>1 DEF NetOK, Ends

LEMMA FetchStepType ==
  ASSUME NetOK, NEW n \in Requests, FetchStep(n)
  PROVE  NetOK'
<1> USE DEF PCs
<1>0. /\ fetches[n].link \in LinkIds \union {NoLink} /\ fetches[n].page.dest \in Dests \union {None}
      /\ n \in LinkIds
  BY DEF NetOK, Fetch, LinkIds, Page, NoPage
<1>1. \A l \in LinkIds \union {NoLink} : Teardown(l) \in [LinkIds -> Link]
  BY TeardownType
<1>2. fetches' \in [Requests -> Fetch] /\ links' \in [LinkIds -> Link]
  <2>1. CASE ServeLocal(n)
    BY <2>1, MovesType DEF ServeLocal, NetOK
  <2>2. CASE ReadRetainedLink(n)
    <3>1. (IF Active(retainedLink) THEN retainedLink ELSE NoLink) \in LinkIds \union {NoLink}
      BY DEF NetOK
    <3> QED
      BY <2>2, <3>1, MovesWithLinkType DEF ReadRetainedLink, NetOK
  <2>3. CASE EnterFetch(n)
    BY <2>3, <1>0, <1>1, AnswersType, MovesType, MovesWithLinkType DEF EnterFetch, NetOK
  <2>4. CASE ResolvePath(n)
    <3>1. [state |-> "pending", dest |-> fetches[n].page.dest] \in Link
      BY <1>0 DEF Link
    <3>2. [links EXCEPT ![n] = [state |-> "pending", dest |-> fetches[n].page.dest]] \in [LinkIds -> Link]
      BY <3>1 DEF NetOK
    <3> QED
      BY <2>4, <1>0, <3>2, MovesWithLinkType, AnswersType DEF ResolvePath, NetOK
  <2>5. CASE EstablishLink(n)
    <3>1. [links EXCEPT ![n].state = "active"] \in [LinkIds -> Link]
      BY DEF NetOK, Link
    <3> QED
      BY <2>5, <1>0, <1>1, <3>1, MovesType, AnswersType DEF EstablishLink
  <2>6. CASE SendRequest(n)
    BY <2>6, <1>0, <1>1, MovesType, AnswersType DEF SendRequest, NetOK
  <2>7. CASE ReceiveResponse(n)
    BY <2>7, <1>0, <1>1, AnswersType DEF ReceiveResponse, NetOK
  <2>8. CASE AbortWait(n)
    BY <2>8, <1>0, <1>1, AnswersType DEF AbortWait, NetOK
  <2> QED
    BY <2>1, <2>2, <2>3, <2>4, <2>5, <2>6, <2>7, <2>8 DEF FetchStep
<1> QED
  BY <1>2 DEF FetchStep, UILeftAlone, nodeVars, NetOK

LEMMA LinkClosesType ==
  ASSUME NetOK, LinkCloses
  PROVE  NetOK'
  BY TeardownType DEF LinkCloses, UILeftAlone, nodeVars, NetOK

LEMMA NoticeType ==
  ASSUME HistoryOK, BodyOK, ShowNotice \/ NotifyLinkError
  PROVE  HistoryOK' /\ BodyOK'
  BY RollbackType DEF ShowNotice, NotifyLinkError, BodyOK

LEMMA RenderType ==
  ASSUME HistoryOK, BodyOK, NEW page \in Page \union {NoPage}, RenderPage(page)
  PROVE  HistoryOK' /\ BodyOK'
  BY DEF RenderPage, HistoryOK, BodyOK

LEMMA DeliverType ==
  ASSUME HistoryOK, NetOK, BodyOK, NEW n \in Requests, Deliver(n)
  PROVE  HistoryOK' /\ NetOK' /\ BodyOK'
<1>0. /\ fetches[n].link \in LinkIds \union {NoLink} /\ fetches[n].page \in Page \union {NoPage}
      /\ fetches' \in [Requests -> Fetch]
  BY EndsType DEF Deliver, CallDropped, Stale, DeliverMalformed, DeliverFromDisk, DeliverError,
                  DeliverFile, DeliverPage, NetOK, Fetch
<1>1. links' \in [LinkIds -> Link] /\ retainedLink' \in LinkIds \union {NoLink}
  BY <1>0, TeardownType DEF Deliver, CallDropped, Stale, DeliverMalformed, DeliverFromDisk, DeliverError,
                            DeliverFile, DeliverPage, NetOK
<1>2. NetOK'
  BY <1>0, <1>1 DEF Deliver, NetOK
<1>3. HistoryOK' /\ BodyOK'
  <2>1. CASE UNCHANGED <<historyVars, bodyVars>>
    BY <2>1 DEF historyVars, bodyVars, HistoryOK, BodyOK
  <2>2. CASE ShowNotice \/ NotifyLinkError
    BY <2>2, NoticeType
  <2>3. CASE RenderPage(fetches[n].page)
    BY <2>3, <1>0, RenderType
  <2> QED
    BY <2>1, <2>2, <2>3 DEF Deliver, CallDropped, Stale, DeliverMalformed, DeliverFromDisk, DeliverError,
                            DeliverFile, DeliverPage
<1> QED
  BY <1>2, <1>3

LEMMA InitType == Init => TypeOK
<1> SUFFICES ASSUME Init PROVE TypeOK
  OBVIOUS
<1>1. HistoryOK
  <2>1. <<>> \in Seq(URL) /\ Len(<<>>) = 0
    BY EmptySeq
  <2>2. history = <<>> /\ histIdx = 0 /\ pendingLinkHist = FALSE
    BY DEF Init
  <2>3. histIdx \in 0 .. Len(history)
    BY <2>1, <2>2
  <2> QED
    BY <2>1, <2>2, <2>3 DEF HistoryOK
<1>2. NoFetch \in Fetch /\ Closed \in Link
  BY DEF NoFetch, Fetch, Closed, Link
<1>3. NetOK
  BY <1>2, BrowserAssumption DEF Init, NetOK
<1>4. BodyOK
  BY DEF Init, BodyOK
<1> QED
  BY <1>1, <1>3, <1>4, TypeParts

LEMMA StepType == TypeOK /\ [Next]_vars => TypeOK'
<1> SUFFICES ASSUME HistoryOK, NetOK, BodyOK, [Next]_vars
             PROVE  HistoryOK' /\ NetOK' /\ BodyOK'
  BY TypeParts, TypePartsNext
<1>1. CASE UserAction
  <2>1. CASE GoBack \/ GoForward
    BY <2>1, GoToType DEF GoBack, GoForward
  <2> QED
    BY <1>1, <2>1, LoadURLType, ClickLinkType, ReloadType, DisconnectType DEF UserAction
<1>2. CASE repaint
  BY <1>2 DEF repaint, nodeVars, HistoryOK, NetOK, BodyOK
<1>3. CASE LinkCloses
  <2>1. HistoryOK' /\ BodyOK'
    BY <1>3 DEF LinkCloses, UILeftAlone, historyVars, bodyVars, HistoryOK, BodyOK
  <2> QED
    BY <1>3, <2>1, LinkClosesType
<1>4. ASSUME NEW n \in Requests, FetchStep(n)
      PROVE  HistoryOK' /\ NetOK' /\ BodyOK'
  <2>1. HistoryOK' /\ BodyOK'
    BY <1>4 DEF FetchStep, UILeftAlone, historyVars, bodyVars, HistoryOK, BodyOK
  <2> QED
    BY <1>4, <2>1, FetchStepType
<1>5. ASSUME NEW n \in Requests, Deliver(n)
      PROVE  HistoryOK' /\ NetOK' /\ BodyOK'
  BY <1>5, DeliverType
<1>6. CASE UNCHANGED vars
  BY <1>6 DEF vars, historyVars, nodeVars, bodyVars, HistoryOK, NetOK, BodyOK
<1> QED
  BY <1>1, <1>2, <1>3, <1>4, <1>5, <1>6 DEF Next

(***************************************************************************)
(* Type correctness: history, histIdx and the pending flag stay in step    *)
(* through every push, rollback, Back, Forward, Reload and Disconnect.     *)
(***************************************************************************)
THEOREM TypeCorrect == Spec => []TypeOK
<1>1. Init => TypeOK
  BY InitType
<1>2. TypeOK /\ [Next]_vars => TypeOK'
  BY StepType
<1> QED
  BY <1>1, <1>2, PTL DEF Spec

-----------------------------------------------------------------------------
(***************************************************************************)
(* The inductive invariant behind the two properties about links.  Until   *)
(* its link is up a fetch is alone with it: nobody retains it or reuses it *)
(* (FreshLinks), so nobody tears it down while it is established           *)
(* (Establishing).  A request that is not superseded is for the current    *)
(* destination (CurrentRequest), and so a link that such a fetch takes     *)
(* from the retained one, or leaves there, leads where it should           *)
(* (LinksFit, RetainedLinkIsForCurrentDest).                               *)
(***************************************************************************)
FutureRequests == \A n \in Requests : n > reqSeq => fetches[n] = NoFetch

CurrentRequest ==
  \A n \in Requests :
    n = reqSeq /\ fetches[n].pc \notin {"idle", "malformed", "end"}
      => fetches[n].page.dest = currentDest

Unlinked == {"idle", "malformed", "cached", "local", "served", "start", "enter", "resolve", "establish"}

FreshLinks ==
  \A n \in Requests : fetches[n].pc \in Unlinked =>
    /\ retainedLink # n
    /\ \A m \in Requests : m # n => fetches[m].link # n

Establishing ==
  \A n \in Requests : fetches[n].pc = "establish" =>
    /\ fetches[n].link = n
    /\ links[n].state = "pending" /\ links[n].dest = fetches[n].page.dest

Uses(n) == \/ fetches[n].pc \in {"request", "wait"}
           \/ fetches[n].pc = "enter" /\ n = reqSeq
           \/ fetches[n].pc = "answer" /\ fetches[n].outcome = "data"

LinksFit ==
  \A n \in Requests :
    Uses(n) /\ Active(fetches[n].link) => links[fetches[n].link].dest = fetches[n].page.dest

LinkInv ==
  /\ FutureRequests
  /\ CurrentRequest
  /\ FreshLinks
  /\ Establishing
  /\ LinksFit
  /\ RetainedLinkIsForCurrentDest

LEMMA InitLinkInv == Init => LinkInv
  BY BrowserAssumption
     DEF Init, LinkInv, FutureRequests, CurrentRequest, FreshLinks, Establishing, LinksFit, Uses,
         RetainedLinkIsForCurrentDest, Active, NoFetch, NoPage, NoLink, Closed, Requests, LinkIds

(***************************************************************************)
(* A teardown closes its link and leaves every other one alone.            *)
(***************************************************************************)
LEMMA TeardownFacts ==
  ASSUME NetOK, NEW l \in LinkIds \union {NoLink}, NEW k \in LinkIds
  PROVE  /\ k # l => Teardown(l)[k] = links[k]
         /\ Teardown(l)[k].state = "active" => Teardown(l)[k] = links[k]
  BY DEF NetOK, Teardown, Closed

(***************************************************************************)
(* Every link but l stays as it is, and so does l if it is still open.     *)
(***************************************************************************)
OnlyCloses(l) == \A k \in LinkIds : k # l \/ links'[k].state = "active" => links'[k] = links[k]

LEMMA LinkKept ==
  ASSUME NEW l, OnlyCloses(l), NEW k \in LinkIds, k # l \/ links'[k].state = "active"
  PROVE  links'[k] = links[k]
  BY DEF OnlyCloses

LEMMA SetCurrentDestFacts ==
  ASSUME NetOK, RetainedLinkIsForCurrentDest, NEW dest \in Dests \union {None}, SetCurrentDest(dest)
  PROVE  /\ currentDest' = dest
         /\ retainedLink' \in {retainedLink, NoLink}
         /\ OnlyCloses(retainedLink)
         /\ RetainedLinkIsForCurrentDest'
<1>1. OnlyCloses(retainedLink)
  BY TeardownFacts DEF SetCurrentDest, NetOK, OnlyCloses
<1>2. RetainedLinkIsForCurrentDest'
  BY DEF SetCurrentDest, RetainedLinkIsForCurrentDest, Active, NetOK
<1> QED
  BY <1>1, <1>2 DEF SetCurrentDest

(***************************************************************************)
(* A request supersedes the one before and is for the node it sets.        *)
(***************************************************************************)
LEMMA RequestLinkInv ==
  ASSUME NetOK, LinkInv, NEW url \in URL, NEW useCache, OnRetrieveURL(url, useCache)
  PROVE  LinkInv'
<1> USE DEF LinkInv
<1>1. PICK page \in Page \union {NoPage}, pc \in {"malformed", "cached", "local", "start"} :
           /\ reqSeq' = reqSeq + 1 /\ reqSeq + 1 \in Requests
           /\ fetches' = [fetches EXCEPT ![reqSeq + 1] = [NoFetch EXCEPT !.pc = pc, !.page = page]]
           /\ \/ /\ page = NoPage /\ pc = "malformed"
                 /\ UNCHANGED <<currentDest, retainedLink, links>>
              \/ page \in Page /\ SetCurrentDest(page.dest)
  BY RequestCases
<1> DEFINE k == reqSeq + 1
<1>2. /\ retainedLink' \in {retainedLink, NoLink}
      /\ OnlyCloses(retainedLink)
      /\ RetainedLinkIsForCurrentDest'
      /\ pc # "malformed" => page.dest = currentDest'
  <2>1. CASE UNCHANGED <<currentDest, retainedLink, links>> /\ pc = "malformed"
    BY <2>1 DEF RetainedLinkIsForCurrentDest, Active, OnlyCloses
  <2>2. CASE page \in Page /\ SetCurrentDest(page.dest)
    <3>1. page.dest \in Dests \union {None}
      BY <2>2 DEF Page
    <3> QED
      BY <2>2, <3>1, SetCurrentDestFacts
  <2> QED
    BY <1>1, <2>1, <2>2
<1>3. reqSeq \in Nat /\ k \in Requests /\ reqSeq' = k /\ fetches[k] = NoFetch
  BY <1>1, BrowserAssumption DEF NetOK, FutureRequests, Requests
<1>4. /\ fetches'[k].pc = pc /\ fetches'[k].page = page
      /\ fetches'[k].link = NoLink /\ fetches'[k].outcome = "none"
      /\ \A m \in Requests : m # k => fetches'[m] = fetches[m]
  BY <1>1, <1>3 DEF NetOK, NoFetch, Fetch
<1> HIDE DEF k
<1>5. FutureRequests'
  <2>1. \A n \in Requests : n > k => n > reqSeq /\ n # k
    BY <1>3 DEF Requests, k
  <2> QED
    BY <1>3, <1>4, <2>1 DEF FutureRequests
<1>6. CurrentRequest'
  BY <1>1, <1>2, <1>3, <1>4 DEF CurrentRequest
<1>7. FreshLinks'
  <2>1. \A n \in Requests : fetches'[n].pc \in Unlinked => fetches[n].pc \in Unlinked
    BY <1>3, <1>4 DEF Unlinked, NoFetch
  <2>2. NoLink \notin Requests
    BY DEF NoLink, Requests
  <2>3. \A m \in Requests : fetches'[m].link \in {fetches[m].link, NoLink}
    BY <1>4
  <2> QED
    BY <1>2, <2>1, <2>2, <2>3 DEF FreshLinks
<1>8. Establishing'
  <2> SUFFICES ASSUME NEW n \in Requests, fetches'[n].pc = "establish"
               PROVE  /\ fetches'[n].link = n
                      /\ links'[n].state = "pending" /\ links'[n].dest = fetches'[n].page.dest
    BY DEF Establishing
  <2>1. n # k
    BY <1>1, <1>4
  <2>2. fetches'[n] = fetches[n] /\ retainedLink # n
    BY <1>4, <2>1 DEF FreshLinks, Unlinked
  <2>3. links'[n] = links[n]
    BY <1>2, <2>2, LinkKept DEF LinkIds
  <2> QED
    BY <2>2, <2>3 DEF Establishing
<1>9. LinksFit'
  <2> SUFFICES ASSUME NEW n \in Requests, NEW l, l = fetches'[n].link, Uses(n)', l # NoLink,
                      links'[l].state = "active"
               PROVE  links'[l].dest = fetches'[n].page.dest
    BY DEF LinksFit, Active
  <2>1. n # k /\ Uses(n) /\ fetches'[n] = fetches[n]
    BY <1>1, <1>3, <1>4 DEF Uses
  <2>2. l \in LinkIds
    BY <2>1 DEF NetOK, Fetch
  <2>3. links'[l] = links[l]
    BY <1>2, <2>2, LinkKept
  <2> QED
    BY <2>1, <2>3 DEF LinksFit, Active
<1> QED
  BY <1>2, <1>5, <1>6, <1>7, <1>8, <1>9

LEMMA DisconnectLinkInv ==
  ASSUME NetOK, LinkInv, Disconnect
  PROVE  LinkInv'
<1> USE DEF LinkInv
<1>1. reqSeq' = reqSeq + 1 /\ fetches' = fetches /\ reqSeq \in Nat
  BY BrowserAssumption DEF Disconnect, NetOK
<1>2. /\ retainedLink' \in {retainedLink, NoLink}
      /\ OnlyCloses(retainedLink)
      /\ RetainedLinkIsForCurrentDest'
  BY SetCurrentDestFacts DEF Disconnect
<1>3. FutureRequests'
  BY <1>1 DEF FutureRequests, Requests
<1>4. CurrentRequest'
  <2>1. \A n \in Requests : n = reqSeq + 1 => fetches[n].pc = "idle"
    BY <1>1 DEF FutureRequests, NoFetch, Requests
  <2> QED
    BY <1>1, <2>1 DEF CurrentRequest
<1>5. FreshLinks'
  <2>1. NoLink \notin Requests
    BY DEF NoLink, Requests
  <2> QED
    BY <1>1, <1>2, <2>1 DEF FreshLinks
<1>6. Establishing'
  <2> SUFFICES ASSUME NEW n \in Requests, fetches'[n].pc = "establish"
               PROVE  /\ fetches'[n].link = n
                      /\ links'[n].state = "pending" /\ links'[n].dest = fetches'[n].page.dest
    BY DEF Establishing
  <2>1. fetches'[n] = fetches[n] /\ retainedLink # n
    BY <1>1 DEF FreshLinks, Unlinked
  <2>2. links'[n] = links[n]
    BY <1>2, <2>1, LinkKept DEF LinkIds
  <2> QED
    BY <2>1, <2>2 DEF Establishing
<1>7. LinksFit'
  <2> SUFFICES ASSUME NEW n \in Requests, NEW l, l = fetches'[n].link, Uses(n)', l # NoLink,
                      links'[l].state = "active"
               PROVE  links'[l].dest = fetches'[n].page.dest
    BY DEF LinksFit, Active
  <2>1. n = reqSeq + 1 => fetches[n].pc = "idle"
    BY <1>1 DEF FutureRequests, NoFetch, Requests
  <2>2. Uses(n) /\ fetches'[n] = fetches[n]
    BY <1>1, <2>1 DEF Uses
  <2>3. l \in LinkIds
    BY <2>2 DEF NetOK, Fetch
  <2>4. links'[l] = links[l]
    BY <1>2, <2>3, LinkKept
  <2> QED
    BY <2>2, <2>4 DEF LinksFit, Active
<1> QED
  BY <1>2, <1>3, <1>4, <1>5, <1>6, <1>7

LEMMA LinkClosesLinkInv ==
  ASSUME NetOK, LinkInv, LinkCloses
  PROVE  LinkInv'
<1> USE DEF LinkInv
<1>1. UNCHANGED <<fetches, reqSeq, currentDest, retainedLink>>
  BY DEF LinkCloses, UILeftAlone, nodeVars
<1>2. PICK c \in LinkIds : Active(c) /\ OnlyCloses(c)
  BY TeardownFacts DEF LinkCloses, OnlyCloses
<1>3. FutureRequests' /\ CurrentRequest' /\ FreshLinks'
  BY <1>1 DEF FutureRequests, CurrentRequest, FreshLinks
<1>4. Establishing'
  <2> SUFFICES ASSUME NEW n \in Requests, fetches'[n].pc = "establish"
               PROVE  /\ fetches'[n].link = n
                      /\ links'[n].state = "pending" /\ links'[n].dest = fetches'[n].page.dest
    BY DEF Establishing
  <2>1. fetches'[n] = fetches[n] /\ links[n].state = "pending"
    BY <1>1 DEF Establishing
  <2>2. links'[n] = links[n]
    BY <1>2, <2>1, LinkKept DEF LinkIds, Active
  <2> QED
    BY <2>1, <2>2 DEF Establishing
<1>5. LinksFit'
  <2> SUFFICES ASSUME NEW n \in Requests, NEW l, l = fetches'[n].link, Uses(n)', l # NoLink,
                      links'[l].state = "active"
               PROVE  links'[l].dest = fetches'[n].page.dest
    BY DEF LinksFit, Active
  <2>1. Uses(n) /\ fetches'[n] = fetches[n]
    BY <1>1 DEF Uses
  <2>2. l \in LinkIds
    BY <2>1 DEF NetOK, Fetch
  <2>3. links'[l] = links[l]
    BY <1>2, <2>2, LinkKept
  <2> QED
    BY <2>1, <2>3 DEF LinksFit, Active
<1>6. RetainedLinkIsForCurrentDest'
  <2>1. CASE retainedLink = NoLink
    BY <1>1, <2>1 DEF RetainedLinkIsForCurrentDest, Active
  <2>2. CASE retainedLink # NoLink
    <3>1. links'[retainedLink].state = "active" => links'[retainedLink] = links[retainedLink]
      BY <1>2, <2>2, LinkKept DEF NetOK
    <3> QED
      BY <1>1, <2>2, <3>1 DEF RetainedLinkIsForCurrentDest, Active
  <2> QED
    BY <2>1, <2>2
<1> QED
  BY <1>3, <1>4, <1>5, <1>6

(***************************************************************************)
(* What a step of a fetch does: it may read the retained link or take the  *)
(* number of its own, and of the links it touches only those two.          *)
(***************************************************************************)
LEMMA FetchStepFacts ==
  ASSUME NetOK, LinkInv, NEW n \in Requests, FetchStep(n)
  PROVE  /\ UNCHANGED <<reqSeq, currentDest, retainedLink>>
         /\ \A m \in Requests : m # n => fetches'[m] = fetches[m]
         /\ fetches'[n].page = fetches[n].page
         /\ fetches[n].pc \notin {"idle", "malformed", "end"}
         /\ fetches'[n].pc \in Unlinked => fetches[n].pc \in Unlinked
         /\ fetches'[n].link \in {fetches[n].link, NoLink, retainedLink, n}
<1> USE DEF LinkInv
<1>1. UNCHANGED <<reqSeq, currentDest, retainedLink>>
  BY DEF FetchStep, UILeftAlone, nodeVars
<1>2. CASE ServeLocal(n)
  BY <1>1, <1>2 DEF ServeLocal, Moves, NetOK, Fetch, Unlinked
<1>3. CASE ReadRetainedLink(n)
  BY <1>1, <1>3 DEF ReadRetainedLink, NetOK, Fetch, Unlinked
<1>4. CASE EnterFetch(n)
  BY <1>1, <1>4 DEF EnterFetch, Moves, Answers, NetOK, Fetch, Unlinked
<1>5. CASE ResolvePath(n)
  BY <1>1, <1>5 DEF ResolvePath, Answers, NetOK, Fetch, Unlinked
<1>6. CASE EstablishLink(n)
  BY <1>1, <1>6 DEF EstablishLink, Moves, Answers, NetOK, Fetch, Unlinked
<1>7. CASE SendRequest(n)
  BY <1>1, <1>7 DEF SendRequest, Moves, Answers, NetOK, Fetch, Unlinked
<1>8. CASE ReceiveResponse(n)
  BY <1>1, <1>8 DEF ReceiveResponse, Answers, NetOK, Fetch, Unlinked
<1>9. CASE AbortWait(n)
  BY <1>1, <1>9 DEF AbortWait, Answers, NetOK, Fetch, Unlinked
<1> QED
  BY <1>2, <1>3, <1>4, <1>5, <1>6, <1>7, <1>8, <1>9 DEF FetchStep

(***************************************************************************)
(* A step of a fetch closes the link the fetch has or makes its own one.   *)
(***************************************************************************)
LEMMA FetchStepLinks ==
  ASSUME NetOK, LinkInv, NEW n \in Requests, FetchStep(n), NEW k \in LinkIds
  PROVE  /\ k \notin {n, fetches[n].link} => links'[k] = links[k]
         /\ links'[k].state = "active" =>
               \/ links'[k] = links[k]
               \/ k = n /\ fetches[n].pc = "establish"
<1>0. fetches[n].link \in LinkIds \union {NoLink} /\ n \in LinkIds
  BY DEF NetOK, Fetch, LinkIds
<1>1. CASE links' = links
  BY <1>1
<1>2. CASE links' = Teardown(fetches[n].link) \/ links' = Teardown(n)
  BY <1>0, <1>2, TeardownFacts
<1>3. CASE links' = [links EXCEPT ![n] = [state |-> "pending", dest |-> fetches[n].page.dest]]
  BY <1>0, <1>3 DEF NetOK
<1>4. CASE fetches[n].pc = "establish" /\ links' = [links EXCEPT ![n].state = "active"]
  BY <1>0, <1>4 DEF NetOK
<1> QED
  BY <1>1, <1>2, <1>3, <1>4
     DEF FetchStep, ServeLocal, ReadRetainedLink, EnterFetch, ResolvePath, EstablishLink,
         SendRequest, ReceiveResponse, AbortWait

(***************************************************************************)
(* The link that a fetch goes on to use leads to the node of its page.     *)
(***************************************************************************)
LEMMA FetchStepFits ==
  ASSUME NetOK, LinkInv, NEW n \in Requests, FetchStep(n), Uses(n)', Active(fetches[n].link)'
  PROVE  links'[fetches'[n].link].dest = fetches'[n].page.dest
<1> USE DEF LinkInv
<1>0. /\ UNCHANGED <<reqSeq, currentDest, retainedLink>>
      /\ fetches'[n].page = fetches[n].page
  BY FetchStepFacts
<1>1. CASE ReadRetainedLink(n)
  <2>1. n = reqSeq /\ fetches[n].pc = "start" /\ links' = links
    BY <1>0, <1>1 DEF ReadRetainedLink, Uses, NetOK, Fetch
  <2>2. fetches[n].page.dest = currentDest
    BY <2>1 DEF CurrentRequest
  <2>3. Active(retainedLink) /\ fetches'[n].link = retainedLink
    BY <1>1, <2>1 DEF ReadRetainedLink, Active, NetOK, Fetch
  <2> QED
    BY <1>0, <2>1, <2>2, <2>3 DEF RetainedLinkIsForCurrentDest
<1>2. CASE EnterFetch(n) \/ SendRequest(n) \/ ReceiveResponse(n)
  <2>1. Uses(n) /\ fetches'[n].link = fetches[n].link /\ links' = links
    BY <1>0, <1>2 DEF EnterFetch, SendRequest, ReceiveResponse, Moves, Answers, Uses, Cancelled, NetOK, Fetch
  <2> QED
    BY <1>0, <2>1 DEF LinksFit, Active
<1>3. CASE EstablishLink(n)
  <2>1. /\ fetches'[n].link = fetches[n].link /\ fetches[n].link = n
        /\ links[n].dest = fetches[n].page.dest
        /\ links' = [links EXCEPT ![n].state = "active"]
    BY <1>3 DEF EstablishLink, Establishing, Moves, Answers, Uses, NetOK, Fetch
  <2> QED
    BY <1>0, <2>1 DEF NetOK, LinkIds
<1>4. CASE ServeLocal(n) \/ ResolvePath(n) \/ AbortWait(n)
  BY <1>4 DEF ServeLocal, ResolvePath, AbortWait, Moves, Answers, Uses, NetOK, Fetch
<1> QED
  BY <1>1, <1>2, <1>3, <1>4 DEF FetchStep

LEMMA FetchStepLinkInv ==
  ASSUME NetOK, LinkInv, NEW n \in Requests, FetchStep(n)
  PROVE  LinkInv'
<1> USE DEF LinkInv
<1>1. /\ UNCHANGED <<reqSeq, currentDest, retainedLink>>
      /\ \A m \in Requests : m # n => fetches'[m] = fetches[m]
      /\ fetches'[n].page = fetches[n].page
      /\ fetches[n].pc \notin {"idle", "malformed", "end"}
      /\ fetches'[n].pc \in Unlinked => fetches[n].pc \in Unlinked
      /\ fetches'[n].link \in {fetches[n].link, NoLink, retainedLink, n}
  BY FetchStepFacts
<1>2. FutureRequests'
  BY <1>1 DEF FutureRequests, NoFetch
<1>3. CurrentRequest'
  BY <1>1 DEF CurrentRequest
<1>4. FreshLinks'
  <2>1. NoLink \notin Requests
    BY DEF NoLink, Requests
  <2> QED
    BY <1>1, <2>1 DEF FreshLinks
<1>5. Establishing'
  <2> SUFFICES ASSUME NEW x \in Requests, fetches'[x].pc = "establish"
               PROVE  /\ fetches'[x].link = x
                      /\ links'[x].state = "pending" /\ links'[x].dest = fetches'[x].page.dest
    BY DEF Establishing
  <2>1. CASE x = n
    <3>1. ResolvePath(n)
      BY <2>1 DEF FetchStep, ServeLocal, ReadRetainedLink, EnterFetch, EstablishLink,
                  SendRequest, ReceiveResponse, AbortWait, Moves, Answers, NetOK, Fetch
    <3> QED
      BY <2>1, <3>1, <1>1 DEF ResolvePath, Answers, NetOK, Fetch, LinkIds
  <2>2. CASE x # n
    <3>1. fetches'[x] = fetches[x]
      BY <1>1, <2>2
    <3>2. fetches[n].link # x
      BY <2>2, <3>1 DEF FreshLinks, Unlinked
    <3>3. links'[x] = links[x]
      BY <2>2, <3>2, FetchStepLinks DEF LinkIds
    <3> QED
      BY <3>1, <3>3 DEF Establishing
  <2> QED
    BY <2>1, <2>2
<1>6. LinksFit'
  <2> SUFFICES ASSUME NEW x \in Requests, Uses(x)', Active(fetches[x].link)'
               PROVE  links'[fetches'[x].link].dest = fetches'[x].page.dest
    BY DEF LinksFit
  <2>1. CASE x = n
    BY <2>1, FetchStepFits
  <2>2. CASE x # n
    <3>1. fetches'[x] = fetches[x] /\ Uses(x)
      BY <1>1, <2>2 DEF Uses
    <3>2. fetches[x].link \in LinkIds /\ links'[fetches[x].link].state = "active"
      BY <3>1 DEF Active, NetOK, Fetch
    <3>3. ~ (fetches[x].link = n /\ fetches[n].pc = "establish")
      BY <2>2 DEF FreshLinks, Unlinked
    <3>4. links'[fetches[x].link] = links[fetches[x].link]
      BY <3>2, <3>3, FetchStepLinks
    <3> QED
      BY <3>1, <3>2, <3>4 DEF LinksFit, Active
  <2> QED
    BY <2>1, <2>2
<1>7. RetainedLinkIsForCurrentDest'
  <2> SUFFICES ASSUME Active(retainedLink)'
               PROVE  links'[retainedLink].dest = currentDest
    BY <1>1 DEF RetainedLinkIsForCurrentDest
  <2>1. retainedLink \in LinkIds /\ links'[retainedLink].state = "active"
    BY <1>1 DEF Active, NetOK
  <2>2. ~ (retainedLink = n /\ fetches[n].pc = "establish")
    BY DEF FreshLinks, Unlinked
  <2>3. links'[retainedLink] = links[retainedLink]
    BY <2>1, <2>2, FetchStepLinks
  <2> QED
    BY <2>1, <2>3 DEF RetainedLinkIsForCurrentDest, Active, NoLink, LinkIds, Requests
<1> QED
  BY <1>2, <1>3, <1>4, <1>5, <1>6, <1>7

(***************************************************************************)
(* The callback of a fetch ends it.  The callback of a page retains the    *)
(* link that the fetch used, and it has tested that it is the last one.    *)
(***************************************************************************)
LEMMA DeliverFacts ==
  ASSUME NetOK, NEW n \in Requests, Deliver(n)
  PROVE  /\ UNCHANGED <<reqSeq, currentDest>>
         /\ \A m \in Requests : m # n => fetches'[m] = fetches[m]
         /\ fetches[n].pc \in {"malformed", "cached", "served", "answer"}
         /\ fetches'[n].pc = "end" /\ fetches'[n].link \in {fetches[n].link, NoLink}
         /\ OnlyCloses(fetches[n].link)
         /\ \/ retainedLink' \in {retainedLink, NoLink}
            \/ /\ n = reqSeq /\ fetches[n].pc = "answer" /\ fetches[n].outcome = "data"
               /\ retainedLink' = fetches[n].link
               /\ links' = links
<1>1. PICK outcome : Ends(n, outcome)
  BY DEF Deliver, CallDropped, Stale, DeliverMalformed, DeliverFromDisk, DeliverError, DeliverFile, DeliverPage
<1>2. /\ \A m \in Requests : m # n => fetches'[m] = fetches[m]
      /\ fetches'[n].pc = "end" /\ fetches'[n].link \in {fetches[n].link, NoLink}
  BY <1>1 DEF Ends, NetOK, NoFetch
<1>3. OnlyCloses(fetches[n].link)
  <2>1. links' = links \/ links' = Teardown(fetches[n].link)
    BY DEF Deliver, CallDropped, Stale, DeliverMalformed, DeliverFromDisk, DeliverError, DeliverFile, DeliverPage
  <2>2. fetches[n].link \in LinkIds \union {NoLink}
    BY DEF NetOK, Fetch
  <2> QED
    BY <2>1, <2>2, TeardownFacts DEF OnlyCloses
<1> QED
  BY <1>2, <1>3 DEF Deliver, CallDropped, Stale, DeliverMalformed, DeliverFromDisk, DeliverError, DeliverFile,
                    DeliverPage, Cancelled, Queued

LEMMA DeliverLinkInv ==
  ASSUME NetOK, LinkInv, NEW n \in Requests, Deliver(n)
  PROVE  LinkInv'
<1> USE DEF LinkInv
<1>1. /\ UNCHANGED <<reqSeq, currentDest>>
      /\ \A m \in Requests : m # n => fetches'[m] = fetches[m]
      /\ fetches[n].pc \in {"malformed", "cached", "served", "answer"}
      /\ fetches'[n].pc = "end" /\ fetches'[n].link \in {fetches[n].link, NoLink}
      /\ OnlyCloses(fetches[n].link)
      /\ \/ retainedLink' \in {retainedLink, NoLink}
         \/ /\ n = reqSeq /\ fetches[n].pc = "answer" /\ fetches[n].outcome = "data"
            /\ retainedLink' = fetches[n].link
            /\ links' = links
  BY DeliverFacts
<1>2. FutureRequests'
  BY <1>1 DEF FutureRequests, NoFetch
<1>3. CurrentRequest'
  BY <1>1 DEF CurrentRequest
<1>4. \A x \in Requests : fetches'[x].pc \in Unlinked => x # n /\ fetches'[x] = fetches[x]
  BY <1>1 DEF Unlinked
<1>5. FreshLinks'
  <2>1. NoLink \notin Requests
    BY DEF NoLink, Requests
  <2> QED
    BY <1>1, <1>4, <2>1 DEF FreshLinks
<1>6. Establishing'
  <2> SUFFICES ASSUME NEW x \in Requests, fetches'[x].pc = "establish"
               PROVE  /\ fetches'[x].link = x
                      /\ links'[x].state = "pending" /\ links'[x].dest = fetches'[x].page.dest
    BY DEF Establishing
  <2>1. x # n /\ fetches'[x] = fetches[x]
    BY <1>4 DEF Unlinked
  <2>2. fetches[n].link # x
    BY <2>1 DEF FreshLinks, Unlinked
  <2>3. links'[x] = links[x]
    BY <1>1, <2>2, LinkKept DEF LinkIds
  <2> QED
    BY <2>1, <2>3 DEF Establishing
<1>7. LinksFit'
  <2> SUFFICES ASSUME NEW x \in Requests, NEW l, l = fetches'[x].link, Uses(x)', l # NoLink,
                      links'[l].state = "active"
               PROVE  links'[l].dest = fetches'[x].page.dest
    BY DEF LinksFit, Active
  <2>1. Uses(x) /\ fetches'[x] = fetches[x]
    BY <1>1 DEF Uses
  <2>2. l \in LinkIds
    BY <2>1 DEF NetOK, Fetch
  <2>3. links'[l] = links[l]
    BY <1>1, <2>2, LinkKept
  <2> QED
    BY <2>1, <2>3 DEF LinksFit, Active
<1>8. RetainedLinkIsForCurrentDest'
  <2>1. CASE retainedLink' = NoLink
    BY <2>1 DEF RetainedLinkIsForCurrentDest, Active
  <2>2. CASE retainedLink' = retainedLink /\ retainedLink # NoLink
    <3>1. links'[retainedLink].state = "active" => links'[retainedLink] = links[retainedLink]
      BY <1>1, <2>2, LinkKept DEF NetOK
    <3> QED
      BY <1>1, <2>2, <3>1 DEF RetainedLinkIsForCurrentDest, Active
  <2>3. CASE /\ n = reqSeq /\ fetches[n].pc = "answer" /\ fetches[n].outcome = "data"
             /\ retainedLink' = fetches[n].link
             /\ links' = links
    <3>1. fetches[n].page.dest = currentDest
      BY <2>3 DEF CurrentRequest
    <3>2. Active(fetches[n].link) => links[fetches[n].link].dest = fetches[n].page.dest
      BY <2>3 DEF LinksFit, Uses
    <3> QED
      BY <1>1, <2>3, <3>1, <3>2 DEF RetainedLinkIsForCurrentDest, Active
  <2> QED
    BY <1>1, <2>1, <2>2, <2>3
<1> QED
  BY <1>2, <1>3, <1>5, <1>6, <1>7, <1>8

LEMMA StepLinkInv == TypeOK /\ LinkInv /\ [Next]_vars => LinkInv'
<1> SUFFICES ASSUME HistoryOK, NetOK, LinkInv, [Next]_vars
             PROVE  LinkInv'
  BY TypeParts
<1>1. CASE LoadURL \/ ClickLink
  <2>1. PICK url \in URL : OnRetrieveURL(url, TRUE)
    BY <1>1, URLAssumption DEF LoadURL, ClickLink, displayURL
  <2> QED
    BY <2>1, RequestLinkInv
<1>2. ASSUME NEW idx, GoTo(idx)
      PROVE  LinkInv'
  <2>1. history[idx] \in URL
    BY <1>2, ElementOfSeq DEF GoTo, HistoryOK
  <2> QED
    BY <1>2, <2>1, RequestLinkInv DEF GoTo, displayURL
<1>3. CASE Reload
  <2>1. history[histIdx] \in URL
    BY <1>3, ElementOfSeq, LenProperties DEF Reload, HistoryOK
  <2> QED
    BY <1>3, <2>1, RequestLinkInv DEF Reload, displayURL
<1>4. CASE repaint \/ UNCHANGED vars
  BY <1>4 DEF repaint, vars, nodeVars, LinkInv, FutureRequests, CurrentRequest, FreshLinks,
              Establishing, LinksFit, Uses, RetainedLinkIsForCurrentDest, Active
<1>5. CASE UserAction
  BY <1>5, <1>1, <1>2, <1>3, DisconnectLinkInv DEF UserAction, GoBack, GoForward
<1> QED
  BY <1>4, <1>5, LinkClosesLinkInv, FetchStepLinkInv, DeliverLinkInv DEF Next

LEMMA LinkInvariant == Spec => [](TypeOK /\ LinkInv)
<1>1. Init => LinkInv
  BY InitLinkInv
<1>2. TypeOK /\ LinkInv /\ [Next]_vars => LinkInv'
  BY StepLinkInv
<1> QED
  BY <1>1, <1>2, TypeCorrect, PTL DEF Spec

(***************************************************************************)
(* Whatever the order in which fetches are answered and superseded, the    *)
(* link that SetRetainedLink keeps leads to the node that the browser is   *)
(* on.                                                                     *)
(***************************************************************************)
THEOREM RetainedLinkFits == Spec => []RetainedLinkIsForCurrentDest
<1>1. LinkInv => RetainedLinkIsForCurrentDest
  BY DEF LinkInv
<1> QED
  BY <1>1, LinkInvariant, PTL

(***************************************************************************)
(* fetchBytes never asks a node for a page of another one, though it does  *)
(* not look where the retained link it is given leads.                     *)
(***************************************************************************)
THEOREM RequestsFit == Spec => []RequestsGoToTheirNode
<1>1. LinkInv => RequestsGoToTheirNode
  BY DEF LinkInv, LinksFit, Uses, RequestsGoToTheirNode
<1> QED
  BY <1>1, LinkInvariant, PTL

-----------------------------------------------------------------------------
(***************************************************************************)
(* What keeps an open link owned.  A fetch in force that has gone past the *)
(* retained link uses it or has found it closed (CurrentTakesRetained).    *)
(* So where a fetch gives up a link that is still open, because it was     *)
(* superseded before it used it, the link is the retained one or that of a *)
(* request that could not be sent or whose answer was lost (LeftLinks).    *)
(***************************************************************************)
OutcomesFit ==
  \A n \in Requests :
    /\ fetches[n].pc \notin {"answer", "end"} => fetches[n].outcome = "none"
    /\ fetches[n].pc = "answer" => fetches[n].outcome \in {"data", "error", "unsent"}

CurrentTakesRetained ==
  \A n \in Requests :
    n = reqSeq /\ Active(retainedLink) =>
      /\ fetches[n].pc \in {"enter", "request", "wait", "answer"} => fetches[n].link = retainedLink
      /\ fetches[n].pc \notin {"resolve", "establish"}

Anchored(l) ==
  l = retainedLink \/ \E m \in Requests : fetches[m].link = l /\ fetches[m].outcome \in {"unsent", "lost"}

LeftLinks ==
  \A n \in Requests :
    Active(fetches[n].link) =>
      /\ fetches[n].pc = "enter" => Anchored(fetches[n].link)
      /\ fetches[n].outcome = "error" => n # reqSeq /\ Anchored(fetches[n].link)

OwnInv == OutcomesFit /\ CurrentTakesRetained /\ LeftLinks /\ LinksAreOwned
LEMMA InitOwnInv == Init => OwnInv
  BY DEF Init, OwnInv, OutcomesFit, CurrentTakesRetained, LeftLinks, LinksAreOwned, Active,
         NoFetch, NoLink, Closed, LinkIds

(***************************************************************************)
(* Links are closed and a fetch that has no link is begun, or none is.     *)
(***************************************************************************)
LEMMA NobodyLosesALink ==
  ASSUME NetOK, LinkInv, OwnInv,
         OnlyCloses(retainedLink) \/ \E l \in LinkIds : OnlyCloses(l),
         \/ retainedLink' = retainedLink
         \/ retainedLink' = NoLink /\ (retainedLink # NoLink => links'[retainedLink].state # "active"),
         \/ UNCHANGED <<reqSeq, fetches>>
         \/ /\ reqSeq' = reqSeq + 1 /\ reqSeq' \in Requests
            /\ \A m \in Requests : m # reqSeq' => fetches'[m] = fetches[m]
            /\ fetches'[reqSeq'].pc \in {"idle", "malformed", "cached", "local", "start"}
            /\ fetches'[reqSeq'].link = NoLink /\ fetches'[reqSeq'].outcome = "none"
  PROVE  OwnInv'
<1>1. \A k \in LinkIds : links'[k].state = "active" => links'[k] = links[k]
  BY DEF OnlyCloses
<1>2. NoLink \notin LinkIds /\ retainedLink \in LinkIds \union {NoLink}
      /\ \A m \in Requests : fetches[m].link \in LinkIds \union {NoLink}
  BY DEF NetOK, Fetch, NoLink, LinkIds, Requests
<1>3. \A m \in Requests : \/ fetches'[m] = fetches[m]
                          \/ /\ m = reqSeq' /\ fetches[m].outcome = "none" /\ fetches[m].link = NoLink
                             /\ fetches'[m].pc \in {"idle", "malformed", "cached", "local", "start"}
                             /\ fetches'[m].link = NoLink /\ fetches'[m].outcome = "none"
  <2>1. CASE UNCHANGED <<reqSeq, fetches>>
    BY <2>1
  <2>2. CASE reqSeq' = reqSeq + 1 /\ reqSeq' \in Requests
    <3>1. fetches[reqSeq'] = NoFetch
      BY <2>2 DEF LinkInv, FutureRequests, NetOK, Requests
    <3> QED BY <2>2, <3>1 DEF NoFetch
  <2> QED BY <2>1, <2>2
<1>4. \A l \in LinkIds : Active(l)' /\ Anchored(l) => Anchored(l)'
  BY <1>1, <1>2, <1>3 DEF Active, Anchored
<1>5. OutcomesFit'
  BY <1>3 DEF OwnInv, OutcomesFit
<1>6. CurrentTakesRetained'
  <2> SUFFICES ASSUME NEW n \in Requests, n = reqSeq', Active(retainedLink)'
               PROVE  /\ fetches'[n].pc \in {"enter", "request", "wait", "answer"} => fetches'[n].link = retainedLink'
                      /\ fetches'[n].pc \notin {"resolve", "establish"}
    BY DEF CurrentTakesRetained
  <2>1. retainedLink' = retainedLink /\ Active(retainedLink)
    BY <1>1, <1>2 DEF Active
  <2>2. CASE UNCHANGED <<reqSeq, fetches>>
    BY <2>1, <2>2 DEF OwnInv, CurrentTakesRetained
  <2>3. CASE fetches'[n].pc \in {"idle", "malformed", "cached", "local", "start"}
    BY <2>3
  <2> QED BY <2>2, <2>3
<1>7. LeftLinks'
  <2> SUFFICES ASSUME NEW n \in Requests, Active(fetches[n].link)'
               PROVE  /\ fetches'[n].pc = "enter" => Anchored(fetches[n].link)'
                      /\ fetches'[n].outcome = "error" => n # reqSeq' /\ Anchored(fetches[n].link)'
    BY DEF LeftLinks
  <2>1. fetches'[n] = fetches[n] /\ fetches[n].link \in LinkIds /\ Active(fetches[n].link)
    BY <1>1, <1>2, <1>3 DEF Active
  <2>2. Anchored(fetches[n].link) => Anchored(fetches[n].link)'
    <3>1. PICK l \in LinkIds : l = fetches[n].link
      BY <2>1
    <3>2. Active(l)'
      BY <2>1, <3>1
    <3>3. Anchored(l) => Anchored(l)'
      BY <1>4, <3>2
    <3> QED BY <3>1, <3>3, <2>1
  <2>3. fetches[n].outcome = "error" => n # reqSeq'
    BY <1>3, <2>1 DEF OwnInv, LeftLinks
  <2> QED BY <2>1, <2>2, <2>3 DEF OwnInv, LeftLinks
<1>8. LinksAreOwned'
  BY <1>1, <1>2, <1>3 DEF OwnInv, LinksAreOwned, Running, Active
<1> QED BY <1>5, <1>6, <1>7, <1>8 DEF OwnInv

(***************************************************************************)
(* The goroutine of a fetch gives up a link only when it is closed, or     *)
(* when it was superseded and has not used it.                             *)
(***************************************************************************)
LEMMA FetchStepOwnInv ==
  ASSUME NetOK, LinkInv, OwnInv, NEW n \in Requests, FetchStep(n)
  PROVE  OwnInv'
<1>1. /\ UNCHANGED <<reqSeq, retainedLink>>
      /\ \A m \in Requests : m # n => fetches'[m] = fetches[m]
      /\ fetches[n].pc \notin {"answer", "end"} /\ fetches[n].outcome = "none"
  <2>1. fetches[n].pc \notin {"answer", "end"}
    BY DEF FetchStep, ServeLocal, ReadRetainedLink, EnterFetch, ResolvePath, EstablishLink,
           SendRequest, ReceiveResponse, AbortWait
  <2> QED BY <2>1, FetchStepFacts DEF OwnInv, OutcomesFit
<1>2. /\ NoLink \notin LinkIds /\ retainedLink \in LinkIds \union {NoLink} /\ n \in LinkIds
      /\ \A m \in Requests : fetches[m].link \in LinkIds \union {NoLink}
      /\ fetches[n].pc \in {"start", "local", "resolve", "establish", "enter"} =>
           retainedLink # n /\ \A m \in Requests : m # n => fetches[m].link # n
  BY DEF NetOK, Fetch, NoLink, LinkIds, Requests, LinkInv, FreshLinks, Unlinked
<1>3. \A k \in LinkIds : Active(k)' => Active(k) \/ (k = n /\ fetches[n].pc = "establish")
  BY FetchStepLinks DEF Active
<1>4. Active(retainedLink)' => Active(retainedLink)
  BY <1>1, <1>2, <1>3 DEF Active
<1>5. \A m \in Requests : m # n /\ Active(fetches[m].link)' => Active(fetches[m].link)
  BY <1>1, <1>2, <1>3 DEF Active
<1>6. \A m \in Requests : Anchored(fetches[m].link) /\ fetches'[m].link = fetches[m].link => Anchored(fetches[m].link)'
  BY <1>1 DEF Anchored
<1>7. /\ fetches'[n].pc \notin {"answer", "end"} => fetches'[n].outcome = "none"
      /\ fetches'[n].pc = "answer" => fetches'[n].outcome \in {"data", "error", "unsent"}
      /\ n = reqSeq /\ Active(retainedLink)' =>
           /\ fetches'[n].pc \in {"enter", "request", "wait", "answer"} => fetches'[n].link = retainedLink
           /\ fetches'[n].pc \notin {"resolve", "establish"}
      /\ Active(fetches[n].link)' =>
           /\ fetches'[n].pc = "enter" => Anchored(fetches[n].link)'
           /\ fetches'[n].outcome = "error" => n # reqSeq /\ Anchored(fetches[n].link)'
      /\ Running(n) /\ (\E k \in LinkIds : k = fetches[n].link /\ Active(k)') =>
           fetches'[n].link = fetches[n].link /\ Running(n)'
  <2>1. CASE ServeLocal(n)
    BY <2>1, <1>1 DEF ServeLocal, Moves, NetOK, Fetch, Running
  <2>2. CASE ReadRetainedLink(n)
    <3>1. /\ fetches[n].pc = "start" /\ links' = links
          /\ fetches'[n].pc = "enter" /\ fetches'[n].outcome = "none"
          /\ fetches'[n].link = IF Active(retainedLink) THEN retainedLink ELSE NoLink
      BY <2>2, <1>1 DEF ReadRetainedLink, NetOK, Fetch
    <3>2. Active(fetches[n].link)' => fetches'[n].link = retainedLink'
      BY <3>1, <1>1 DEF Active
    <3> QED BY <3>1, <3>2, <1>1, <1>4 DEF Running, Anchored
  <2>3. CASE EnterFetch(n)
    BY <2>3, <1>1, <1>4, <1>6 DEF EnterFetch, Moves, Answers, Cancelled, NetOK, Fetch, Running, OwnInv,
       CurrentTakesRetained, LeftLinks, Active, Teardown, Closed
  <2>4. CASE ResolvePath(n)
    BY <2>4, <1>1, <1>4 DEF ResolvePath, Moves, Answers, NetOK, Fetch, Running, OwnInv,
       CurrentTakesRetained, LeftLinks, Active
  <2>5. CASE EstablishLink(n)
    <3>1. /\ fetches[n].pc = "establish" /\ fetches[n].link = n /\ fetches'[n].link = n
          /\ fetches'[n].pc \in {"request", "answer"}
          /\ fetches'[n].outcome = IF fetches'[n].pc = "answer" THEN "error" ELSE "none"
          /\ fetches'[n].pc = "answer" => links'[n] = Closed
      BY <2>5, <1>1, <1>2 DEF EstablishLink, Moves, Answers, Teardown, NetOK, Fetch, LinkInv, Establishing
    <3>2. fetches'[n].pc = "answer" => ~Active(fetches[n].link)'
      BY <3>1 DEF Active, Closed
    <3>3. ~(n = reqSeq /\ Active(retainedLink))
      BY <3>1 DEF OwnInv, CurrentTakesRetained
    <3> QED BY <3>1, <3>2, <3>3, <1>1, <1>4 DEF Running
  <2>6. CASE SendRequest(n)
    BY <2>6, <1>1, <1>4 DEF SendRequest, Moves, Answers, NetOK, Fetch, Running, OwnInv, CurrentTakesRetained
  <2>7. CASE ReceiveResponse(n) \/ AbortWait(n)
    BY <2>7, <1>1, <1>4 DEF ReceiveResponse, AbortWait, Answers, NetOK, Fetch, Running, OwnInv, CurrentTakesRetained,
       Active, Teardown, Closed
  <2> QED BY <2>1, <2>2, <2>3, <2>4, <2>5, <2>6, <2>7 DEF FetchStep
<1>8. OutcomesFit'
  BY <1>1, <1>7 DEF OwnInv, OutcomesFit
<1>9. CurrentTakesRetained'
  BY <1>1, <1>4, <1>7 DEF OwnInv, CurrentTakesRetained
<1>10. LeftLinks'
  BY <1>1, <1>5, <1>6, <1>7 DEF OwnInv, LeftLinks
<1>11. LinksAreOwned'
  <2> SUFFICES ASSUME NEW l \in LinkIds, Active(l)', l # retainedLink'
               PROVE  \E m \in Requests : /\ fetches'[m].link = l
                                          /\ Running(m)' \/ fetches'[m].outcome \in Forgetful
    BY DEF LinksAreOwned
  <2>1. CASE Active(l)
    <3>1. PICK m \in Requests : fetches[m].link = l /\ (Running(m) \/ fetches[m].outcome \in Forgetful)
      BY <2>1, <1>1 DEF OwnInv, LinksAreOwned
    <3>2. CASE m = n
      BY <3>1, <3>2, <1>1, <1>7 DEF Forgetful
    <3>3. CASE m # n
      BY <3>1, <3>3, <1>1 DEF Running
    <3> QED BY <3>2, <3>3
  <2>2. CASE l = n /\ fetches[n].pc = "establish"
    <3>1. fetches[n].link = n
      BY <2>2 DEF LinkInv, Establishing
    <3> QED BY <2>2, <3>1, <1>7 DEF Running
  <2> QED BY <2>1, <2>2, <1>3
<1> QED BY <1>8, <1>9, <1>10, <1>11 DEF OwnInv

(***************************************************************************)
(* The callback of a fetch leaves the link to the next fetch, closes it,   *)
(* or is one of the three that forget it.                                  *)
(***************************************************************************)
LEMMA DeliverOwnInv ==
  ASSUME NetOK, LinkInv, OwnInv, NEW n \in Requests, Deliver(n)
  PROVE  OwnInv'
<1>1. /\ UNCHANGED reqSeq
      /\ \A m \in Requests : m # n => fetches'[m] = fetches[m]
      /\ fetches[n].pc \in {"malformed", "cached", "served", "answer"}
      /\ fetches'[n].pc = "end"
      /\ OnlyCloses(fetches[n].link)
      /\ n # reqSeq => retainedLink' = retainedLink
  BY DeliverFacts DEF Deliver, CallDropped, Stale, DeliverMalformed, DeliverFromDisk, DeliverError, DeliverFile,
                      DeliverPage, Cancelled
<1>2. /\ NoLink \notin LinkIds /\ retainedLink \in LinkIds \union {NoLink}
      /\ \A m \in Requests : fetches[m].link \in LinkIds \union {NoLink}
  BY DEF NetOK, Fetch, NoLink, LinkIds, Requests
<1>3. \A k \in LinkIds : Active(k)' => Active(k)
  BY <1>1 DEF Active, OnlyCloses
<1>4. /\ fetches[n].outcome # "lost" /\ fetches'[n].outcome # "error"
      /\ \A l \in LinkIds : l = retainedLink /\ Active(l)' =>
           l = retainedLink' \/ (fetches'[n].link = l /\ fetches'[n].outcome \in {"unsent", "lost"})
      /\ \A l \in LinkIds : l = fetches[n].link /\ Active(l)' =>
           /\ fetches[n].outcome = "unsent" => fetches'[n].link = l /\ fetches'[n].outcome \in {"unsent", "lost"}
           /\ fetches[n].pc = "answer" =>
                \/ l = retainedLink'
                \/ fetches'[n].link = l /\ fetches'[n].outcome \in Forgetful
                \/ \E m \in Requests \ {n} : fetches[m].link = l /\ fetches[m].outcome \in {"unsent", "lost"}
  <2>0. /\ fetches[n].outcome # "lost"
        /\ fetches[n].pc # "answer" => fetches[n].outcome = "none"
        /\ fetches[n].pc = "answer" => fetches[n].outcome \in {"data", "error", "unsent"}
        /\ fetches[n].outcome = "error" /\ Active(fetches[n].link) => n # reqSeq /\ Anchored(fetches[n].link)
        /\ n = reqSeq /\ fetches[n].pc = "answer" /\ Active(retainedLink) => fetches[n].link = retainedLink
    BY <1>1 DEF OwnInv, OutcomesFit, LeftLinks, CurrentTakesRetained
  <2>e. ASSUME NEW outcome, Ends(n, outcome)
        PROVE  IF outcome \in Forgetful
                 THEN /\ fetches'[n].outcome = outcome
                      /\ fetches[n].outcome # "error" => fetches'[n].link = fetches[n].link
                 ELSE fetches'[n].outcome = "none"
    BY <2>e DEF Ends, NetOK, NoFetch
  <2>1. CASE Stale(n)
    <3>1. /\ retainedLink' = retainedLink /\ Ends(n, fetches[n].outcome)
          /\ links' = IF fetches[n].outcome = "data" /\ retainedLink # fetches[n].link
                        THEN Teardown(fetches[n].link) ELSE links
      BY <2>1 DEF Stale
    <3>2. IF fetches[n].outcome \in Forgetful
            THEN fetches'[n].link = fetches[n].link /\ fetches'[n].outcome = fetches[n].outcome
            ELSE fetches'[n].outcome = "none"
      BY <3>1, <2>e DEF Forgetful
    <3>3. ASSUME NEW l \in LinkIds, l = fetches[n].link, Active(l)', fetches[n].pc = "answer"
          PROVE  \/ l = retainedLink'
                 \/ fetches'[n].link = l /\ fetches'[n].outcome \in Forgetful
                 \/ \E m \in Requests \ {n} : fetches[m].link = l /\ fetches[m].outcome \in {"unsent", "lost"}
      <4>1. CASE fetches[n].outcome = "data"
        BY <4>1, <3>1, <3>3, <1>2 DEF Teardown, Active, Closed, NetOK
      <4>2. CASE fetches[n].outcome = "error"
        <5>1. Anchored(l)
          BY <4>2, <3>3, <1>3, <2>0
        <5> QED BY <4>2, <5>1, <3>1 DEF Anchored
      <4>3. CASE fetches[n].outcome = "unsent"
        BY <4>3, <3>2, <3>3 DEF Forgetful
      <4> QED BY <4>1, <4>2, <4>3, <2>0, <3>3
    <3>4. fetches'[n].outcome # "error"
      BY <3>2 DEF Forgetful
    <3>5. fetches[n].outcome = "unsent" => fetches'[n].link = fetches[n].link /\ fetches'[n].outcome = "unsent"
      BY <3>2 DEF Forgetful
    <3> QED BY <3>1, <3>3, <3>4, <3>5, <2>0
  <2>2. CASE DeliverMalformed(n) \/ DeliverFromDisk(n)
    <3>1. retainedLink' = retainedLink /\ Ends(n, "none") /\ fetches[n].pc # "answer"
      BY <2>2 DEF DeliverMalformed, DeliverFromDisk
    <3> QED BY <3>1, <2>e, <2>0 DEF Forgetful
  <2>3. CASE DeliverError(n)
    <3>1. /\ n = reqSeq /\ fetches[n].pc = "answer" /\ fetches[n].outcome # "data"
          /\ Ends(n, fetches[n].outcome)
      BY <2>3 DEF DeliverError, Cancelled
    <3>2. fetches[n].outcome = "unsent" \/ ~Active(fetches[n].link)
      BY <3>1, <2>0
    <3>3. fetches[n].outcome = "unsent" => fetches'[n].link = fetches[n].link /\ fetches'[n].outcome = "unsent"
      BY <3>1, <2>e DEF Forgetful
    <3>4. fetches'[n].outcome # "error"
      BY <3>1, <2>e, <2>0 DEF Forgetful
    <3> QED BY <3>1, <3>2, <3>3, <3>4, <2>0, <1>3 DEF Forgetful
  <2>4. CASE DeliverFile(n)
    <3>1. fetches[n].outcome = "data" /\ Ends(n, "saved") /\ retainedLink' = retainedLink
      BY <2>4 DEF DeliverFile
    <3> QED BY <3>1, <2>e DEF Forgetful
  <2>5. CASE DeliverPage(n)
    <3>1. /\ n = reqSeq /\ fetches[n].pc = "answer" /\ fetches[n].outcome = "data"
          /\ Ends(n, "data") /\ retainedLink' = fetches[n].link
      BY <2>5 DEF DeliverPage, Cancelled
    <3> QED BY <3>1, <2>e, <2>0, <1>3 DEF Forgetful
  <2>6. CASE CallDropped(n)
    <3>1. Ends(n, "lost") /\ UNCHANGED <<retainedLink, links>>
      BY <2>6 DEF CallDropped
    <3>2. /\ fetches'[n].outcome = "lost"
          /\ fetches[n].outcome # "error" => fetches'[n].link = fetches[n].link
      BY <3>1, <2>e DEF Forgetful
    <3>3. ASSUME NEW l \in LinkIds, l = fetches[n].link, Active(l)', fetches[n].pc = "answer"
          PROVE  \/ l = retainedLink'
                 \/ fetches'[n].link = l /\ fetches'[n].outcome \in Forgetful
                 \/ \E m \in Requests \ {n} : fetches[m].link = l /\ fetches[m].outcome \in {"unsent", "lost"}
      <4>1. CASE fetches[n].outcome = "error"
        <5>1. Anchored(l)
          BY <4>1, <3>3, <1>3, <2>0
        <5> QED BY <4>1, <5>1, <3>1 DEF Anchored
      <4>2. CASE fetches[n].outcome # "error"
        BY <4>2, <3>2, <3>3 DEF Forgetful
      <4> QED BY <4>1, <4>2
    <3> QED BY <3>1, <3>2, <3>3, <2>0
  <2> QED BY <2>1, <2>2, <2>3, <2>4, <2>5, <2>6 DEF Deliver
<1>5. \A l \in LinkIds : Active(l)' /\ Anchored(l) => Anchored(l)'
  BY <1>1, <1>4 DEF Anchored
<1>6. OutcomesFit'
  BY <1>1 DEF OwnInv, OutcomesFit
<1>7. CurrentTakesRetained'
  <2> SUFFICES ASSUME NEW x \in Requests, x = reqSeq', Active(retainedLink)', x # n
               PROVE  /\ fetches'[x].pc \in {"enter", "request", "wait", "answer"} => fetches'[x].link = retainedLink'
                      /\ fetches'[x].pc \notin {"resolve", "establish"}
    BY <1>1 DEF CurrentTakesRetained
  <2>1. retainedLink' = retainedLink /\ fetches'[x] = fetches[x] /\ x = reqSeq
    BY <1>1
  <2>2. Active(retainedLink)
    BY <2>1, <1>2, <1>3 DEF Active
  <2> QED BY <2>1, <2>2 DEF OwnInv, CurrentTakesRetained
<1>8. LeftLinks'
  <2> SUFFICES ASSUME NEW x \in Requests, Active(fetches[x].link)', x # n
               PROVE  /\ fetches'[x].pc = "enter" => Anchored(fetches[x].link)'
                      /\ fetches'[x].outcome = "error" => x # reqSeq' /\ Anchored(fetches[x].link)'
    BY <1>1, <1>4 DEF LeftLinks
  <2>1. PICK l \in LinkIds : l = fetches[x].link /\ l = fetches'[x].link /\ fetches'[x] = fetches[x]
    BY <1>1, <1>2 DEF Active
  <2>2. Active(l)' /\ Active(l)
    BY <2>1, <1>3
  <2>3. Anchored(l) => Anchored(l)'
    BY <2>2, <1>5
  <2> QED BY <2>1, <2>2, <2>3, <1>1 DEF OwnInv, LeftLinks
<1>9. LinksAreOwned'
  <2> SUFFICES ASSUME NEW l \in LinkIds, Active(l)'
               PROVE  \/ l = retainedLink'
                      \/ \E m \in Requests : /\ fetches'[m].link = l
                                             /\ Running(m)' \/ fetches'[m].outcome \in Forgetful
    BY DEF LinksAreOwned
  <2>1. CASE l = retainedLink
    BY <2>1, <1>4 DEF Forgetful
  <2>2. ASSUME NEW m \in Requests, fetches[m].link = l, Running(m) \/ fetches[m].outcome \in Forgetful
        PROVE  \/ l = retainedLink'
               \/ \E k \in Requests : /\ fetches'[k].link = l
                                      /\ Running(k)' \/ fetches'[k].outcome \in Forgetful
    <3>1. CASE m # n
      BY <2>2, <3>1, <1>1 DEF Running
    <3>2. CASE m = n
      <4>1. fetches[n].pc = "answer"
        BY <2>2, <3>2, <1>1 DEF Running, OwnInv, OutcomesFit, Forgetful
      <4>2. CASE \E k \in Requests \ {n} : fetches[k].link = l /\ fetches[k].outcome \in {"unsent", "lost"}
        BY <4>2, <1>1 DEF Forgetful
      <4>3. CASE l = retainedLink' \/ (fetches'[n].link = l /\ fetches'[n].outcome \in Forgetful)
        BY <4>3
      <4> QED BY <2>2, <3>2, <4>1, <4>2, <4>3, <1>4
    <3> QED BY <3>1, <3>2
  <2>3. Active(l)
    BY <1>3
  <2> QED BY <2>1, <2>2, <2>3 DEF OwnInv, LinksAreOwned
<1> QED BY <1>6, <1>7, <1>8, <1>9 DEF OwnInv

LEMMA StepOwnInv == TypeOK /\ LinkInv /\ OwnInv /\ [Next]_vars => OwnInv'
<1> SUFFICES ASSUME HistoryOK, NetOK, LinkInv, OwnInv, [Next]_vars
             PROVE  OwnInv'
  BY TypeParts
<1>0. NoLink \notin LinkIds /\ retainedLink \in LinkIds \union {NoLink} /\ RetainedLinkIsForCurrentDest
  BY DEF NetOK, NoLink, LinkIds, Requests, LinkInv
<1>1. ASSUME NEW dest \in Dests \union {None}, SetCurrentDest(dest)
      PROVE  /\ OnlyCloses(retainedLink)
             /\ \/ retainedLink' = retainedLink
                \/ retainedLink' = NoLink /\ (retainedLink # NoLink => links'[retainedLink].state # "active")
  BY <1>0, <1>1, SetCurrentDestFacts DEF SetCurrentDest, Teardown, Closed, NetOK
<1>2. ASSUME NEW url \in URL, NEW useCache, OnRetrieveURL(url, useCache)
      PROVE  OwnInv'
  <2>1. PICK page \in Page \union {NoPage}, pc \in {"malformed", "cached", "local", "start"} :
           /\ reqSeq' = reqSeq + 1 /\ reqSeq + 1 \in Requests
           /\ fetches' = [fetches EXCEPT ![reqSeq + 1] = [NoFetch EXCEPT !.pc = pc, !.page = page]]
           /\ \/ /\ page = NoPage /\ pc = "malformed"
                 /\ UNCHANGED <<currentDest, retainedLink, links>>
              \/ page \in Page /\ SetCurrentDest(page.dest)
    BY <1>2, RequestCases DEF LinkInv
  <2>2. /\ \A m \in Requests : m # reqSeq' => fetches'[m] = fetches[m]
        /\ fetches'[reqSeq'].pc \in {"idle", "malformed", "cached", "local", "start"}
        /\ fetches'[reqSeq'].link = NoLink /\ fetches'[reqSeq'].outcome = "none"
    BY <2>1 DEF NetOK, NoFetch
  <2>3. /\ OnlyCloses(retainedLink)
        /\ \/ retainedLink' = retainedLink
           \/ retainedLink' = NoLink /\ (retainedLink # NoLink => links'[retainedLink].state # "active")
    BY <2>1, <1>1 DEF OnlyCloses, Page
  <2> QED BY <2>1, <2>2, <2>3, NobodyLosesALink
<1>3. CASE LoadURL \/ ClickLink
  <2>1. PICK url \in URL : OnRetrieveURL(url, TRUE)
    BY <1>3, URLAssumption DEF LoadURL, ClickLink, displayURL
  <2> QED BY <2>1, <1>2
<1>4. ASSUME NEW idx, GoTo(idx)
      PROVE  OwnInv'
  <2>1. history[idx] \in URL
    BY <1>4, ElementOfSeq DEF GoTo, HistoryOK
  <2> QED BY <1>4, <2>1, <1>2 DEF GoTo, displayURL
<1>5. CASE Reload
  <2>1. history[histIdx] \in URL
    BY <1>5, ElementOfSeq, LenProperties DEF Reload, HistoryOK
  <2> QED BY <1>5, <2>1, <1>2 DEF Reload, displayURL
<1>6. CASE Disconnect
  <2>1. /\ reqSeq' = reqSeq + 1 /\ reqSeq' \in Requests /\ fetches' = fetches /\ SetCurrentDest(None)
    BY <1>6, BrowserAssumption DEF Disconnect, NetOK, Requests
  <2>2. fetches'[reqSeq'] = NoFetch
    BY <2>1 DEF LinkInv, FutureRequests, NetOK, Requests
  <2> QED BY <2>1, <2>2, <1>1, NobodyLosesALink DEF NoFetch
<1>7. CASE repaint \/ UNCHANGED vars
  BY <1>0, <1>7, NobodyLosesALink DEF repaint, vars, nodeVars, OnlyCloses
<1>8. CASE LinkCloses
  <2>1. UNCHANGED <<reqSeq, fetches, retainedLink>> /\ \E l \in LinkIds : links' = Teardown(l)
    BY <1>8 DEF LinkCloses, UILeftAlone, nodeVars
  <2>2. \E l \in LinkIds : OnlyCloses(l)
    BY <2>1, TeardownFacts DEF OnlyCloses
  <2> QED BY <2>1, <2>2, NobodyLosesALink
<1>9. CASE UserAction
  BY <1>9, <1>3, <1>4, <1>5, <1>6 DEF UserAction, GoBack, GoForward
<1> QED
  BY <1>7, <1>8, <1>9, FetchStepOwnInv, DeliverOwnInv DEF Next

(***************************************************************************)
(* However fetches supersede each other, no link is left open that nobody  *)
(* will close, but those that RetrieveURL's callback forgets or that go    *)
(* with a callback the queue drops.                                        *)
(***************************************************************************)
THEOREM LinksHaveOwners == Spec => []LinksAreOwned
<1>1. Init => OwnInv
  BY InitOwnInv
<1>2. TypeOK /\ LinkInv /\ OwnInv /\ [Next]_vars => OwnInv'
  BY StepOwnInv
<1>3. OwnInv => LinksAreOwned
  BY DEF OwnInv
<1> QED
  BY <1>1, <1>2, <1>3, LinkInvariant, PTL DEF Spec

(***************************************************************************)
(* "Retrieving" goes with the request: the stale-result test of the        *)
(* callback leaves it up only for the request that took over, and only the *)
(* loss of the callback of the request in force can leave it up for good.  *)
(***************************************************************************)
THEOREM RetrievingEnds == Spec => []RetrievingMeansInFlight
<1>1. Init => RetrievingMeansInFlight
  BY DEF Init, RetrievingMeansInFlight
<1>2. ASSUME TypeOK, LinkInv, RetrievingMeansInFlight, [Next]_vars
      PROVE  RetrievingMeansInFlight'
  <2>0. HistoryOK /\ NetOK /\ (loading => \E n \in Requests : n = reqSeq /\
           (fetches[n].pc \notin {"idle", "end"} \/ fetches[n].outcome \in {"saved", "lost"}))
    BY <1>2, TypeParts DEF RetrievingMeansInFlight, Settled
  <2>r. ASSUME loading' => \E n \in Requests : n = reqSeq' /\
                 (fetches'[n].pc \notin {"idle", "end"} \/ fetches'[n].outcome \in {"saved", "lost"})
        PROVE  RetrievingMeansInFlight'
    BY <2>r DEF RetrievingMeansInFlight, Settled
  <2>1. ASSUME NEW url \in URL, NEW useCache, OnRetrieveURL(url, useCache)
        PROVE  RetrievingMeansInFlight'
    <3>1. PICK page \in Page \union {NoPage}, pc \in {"malformed", "cached", "local", "start"} :
             /\ reqSeq' = reqSeq + 1 /\ reqSeq + 1 \in Requests
             /\ fetches' = [fetches EXCEPT ![reqSeq + 1] = [NoFetch EXCEPT !.pc = pc, !.page = page]]
      BY <1>2, <2>0, <2>1, RequestCases
    <3>2. fetches'[reqSeq'].pc = pc
      BY <3>1, <2>0 DEF NetOK, NoFetch
    <3> QED BY <3>1, <3>2, <2>r
  <2>2. CASE LoadURL \/ ClickLink
    <3>1. PICK url \in URL : OnRetrieveURL(url, TRUE)
      BY <2>2, URLAssumption DEF LoadURL, ClickLink, displayURL
    <3> QED BY <3>1, <2>1
  <2>3. ASSUME NEW idx, GoTo(idx)
        PROVE  RetrievingMeansInFlight'
    <3>1. history[idx] \in URL
      BY <2>0, <2>3, ElementOfSeq DEF GoTo, HistoryOK
    <3> QED BY <2>3, <3>1, <2>1 DEF GoTo, displayURL
  <2>4. CASE Reload
    <3>1. history[histIdx] \in URL
      BY <2>0, <2>4, ElementOfSeq, LenProperties DEF Reload, HistoryOK
    <3> QED BY <2>4, <3>1, <2>1 DEF Reload, displayURL
  <2>5. CASE Disconnect \/ repaint
    BY <2>5, <2>r DEF Disconnect, repaint
  <2>6. CASE LinkCloses \/ UNCHANGED vars
    BY <2>0, <2>6, <2>r DEF LinkCloses, UILeftAlone, vars, nodeVars, bodyVars
  <2>7. ASSUME NEW n \in Requests, FetchStep(n)
        PROVE  RetrievingMeansInFlight'
    <3>1. /\ UNCHANGED <<reqSeq, loading>> /\ \A m \in Requests : m # n => fetches'[m] = fetches[m]
      BY <1>2, <2>0, <2>7, FetchStepFacts DEF FetchStep, UILeftAlone, bodyVars
    <3>2. fetches'[n].pc \notin {"idle", "end"}
      BY <2>0, <2>7 DEF FetchStep, ServeLocal, ReadRetainedLink, EnterFetch, ResolvePath, EstablishLink,
         SendRequest, ReceiveResponse, AbortWait, Moves, Answers, NetOK, Fetch
    <3> QED BY <2>0, <3>1, <3>2, <2>r
  <2>8. ASSUME NEW n \in Requests, Deliver(n)
        PROVE  RetrievingMeansInFlight'
    <3>1. /\ reqSeq' = reqSeq /\ \A m \in Requests : m # n => fetches'[m] = fetches[m]
      BY <2>0, <2>8, DeliverFacts
    <3>2. CASE Stale(n)
      <4>1. n # reqSeq /\ loading' = loading
        BY <3>2 DEF Stale, Cancelled, bodyVars
      <4> QED BY <2>0, <3>1, <4>1, <2>r
    <3>3. CASE DeliverMalformed(n) \/ DeliverFromDisk(n) \/ DeliverError(n) \/ DeliverPage(n)
      BY <3>3, <2>r DEF DeliverMalformed, DeliverFromDisk, DeliverError, DeliverPage, NotifyLinkError,
         ShowNotice, RenderPage
    <3>4. CASE DeliverFile(n)
      <4>1. n = reqSeq /\ Ends(n, "saved")
        BY <3>4 DEF DeliverFile, Cancelled
      <4>2. fetches'[n].outcome = "saved"
        BY <4>1, <2>0 DEF Ends, NetOK, NoFetch, Forgetful
      <4> QED BY <4>1, <4>2, <3>1, <2>r
    <3>5. CASE CallDropped(n)
      <4>1. loading' = loading /\ fetches'[n].outcome = "lost"
        BY <3>5, <2>0 DEF CallDropped, Ends, NetOK, NoFetch, Forgetful, bodyVars
      <4> QED BY <2>0, <3>1, <4>1, <2>r
    <3> QED BY <2>8, <3>2, <3>3, <3>4, <3>5 DEF Deliver
  <2>9. CASE UserAction
    BY <2>9, <2>2, <2>3, <2>4, <2>5 DEF UserAction, GoBack, GoForward
  <2> QED
    BY <1>2, <2>5, <2>6, <2>7, <2>8, <2>9 DEF Next
<1> QED
  BY <1>1, <1>2, LinkInvariant, PTL DEF Spec
=============================================================================
