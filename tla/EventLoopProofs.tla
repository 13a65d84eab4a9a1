--------------------------- MODULE EventLoopProofs ---------------------------
(***************************************************************************)
(* The queue of the event loop, and a page that is drawn through it.       *)
(*                                                                         *)
(* Part 1: App.QueueUpdateDraw implements LossyQueue, for any number of    *)
(* callers, lines and slots, and the log view therefore shows its lines in *)
(* order.  IInv is inductive.  Under it every step of UpdateQueue maps to  *)
(* a step of LossyQueue or leaves its variables alone; the order of the    *)
(* lines is proved of the actions of LossyQueue, where it takes one lemma  *)
(* each, and carried over by the refinement.                               *)
(*                                                                         *)
(* Part 2: the channels page, which its own calls and those of the RRC     *)
(* worker reach through such a queue, acts on what it shows, for any       *)
(* number of hubs, rooms, keys, events and slots.  ChannelsInv is          *)
(* inductive: one lemma for each action and, for those that queue a call,  *)
(* one for what the call does to the page when it runs.                    *)
(***************************************************************************)
EXTENDS UpdateQueue, Channels, TLAPS

-----------------------------------------------------------------------------
(***************************************************************************)
(* Part 1: the queue.                                                      *)
(***************************************************************************)

\* While the tail is inside QueueUpdateDraw it has a line to offer.
LineInHand == caller["log"] \in {"full", "freed"} => nextLine \in Lines

IInv == TypeOK /\ LineInHand

-----------------------------------------------------------------------------
\* What the sequences of the model satisfy.

LEMMA CallFields ==
  ASSUME NEW call \in Calls
  PROVE  /\ call.panel \in Callers
         /\ call.panel = "log" => call.line \in Lines
         /\ call.panel # "log" => call.panel \in Panels
BY PanelsAssumption DEF Calls, Callers, Lines

LEMMA CallOfIsACall ==
  ASSUME NEW c \in Callers, c = "log" => nextLine \in Lines
  PROVE  CallOf(c) \in Calls
BY PanelsAssumption DEF CallOf, Calls, Callers, Lines

LEMMA TailOfSeq ==
  ASSUME NEW S, NEW s \in Seq(S), s # <<>>
  PROVE  /\ Head(s) \in S /\ Tail(s) \in Seq(S)
         /\ Len(s) \in Nat /\ Len(s) >= 1 /\ Len(Tail(s)) = Len(s) - 1
OBVIOUS

LEMMA SingletonSeq ==
  ASSUME NEW S, NEW s \in Seq(S), s # <<>>, Len(s) <= 1
  PROVE  s = <<Head(s)>> /\ Head(s) \in S
<1>1. Head(s) \in S /\ Len(s) \in Nat /\ Len(s) >= 1
  OBVIOUS
<1> DEFINE n == Len(s)
<1>2. n = 1
  <2>1. n \in Nat /\ n >= 1 /\ n <= 1
    BY <1>1
  <2> HIDE DEF n
  <2> QED BY <2>1
<1>3. s = [i \in 1 .. 1 |-> s[i]]
  BY <1>2
<1> QED BY <1>1, <1>2, <1>3

\* The outcome of a call that returns, sent or not.
LEMMA ReturnTypes ==
  ASSUME TypeOK, NEW c \in Callers, c = "log" => nextLine \in Lines, Return(c)
  PROVE  /\ caller' \in [Callers -> {"select", "full", "freed", "gone"}]
         /\ nextLine' \in 1 .. NLines + 1
         /\ LineInHand => LineInHand'
BY NLinesAssumption DEF TypeOK, Return, Lines, LineInHand

LEMMA SendTypes ==
  ASSUME TypeOK, NEW c \in Callers, c = "log" => nextLine \in Lines, Send(c)
  PROVE  updates' \in Seq(Calls) /\ Len(updates') <= Capacity
BY CallOfIsACall, CapacityAssumption DEF TypeOK, Send

LEMMA OfferKeepsTypes ==
  ASSUME IInv, NEW c \in Callers, c = "log" => nextLine \in Lines, Offer(c)
  PROVE  /\ updates' \in Seq(Calls) /\ Len(updates') <= Capacity
         /\ caller' \in [Callers -> {"select", "full", "freed", "gone"}]
         /\ nextLine' \in 1 .. NLines + 1
         /\ LineInHand'
         /\ UNCHANGED <<hand, drainer, done, started>>
<1>1. CASE Send(c)
  BY <1>1, SendTypes, ReturnTypes DEF Send, IInv, Offer
<1>2. CASE SeeDone(c)
  BY <1>2, ReturnTypes DEF SeeDone, IInv, TypeOK, Offer
<1>3. CASE /\ Len(updates) >= Capacity /\ ~done
           /\ caller' = [caller EXCEPT ![c] = "full"]
           /\ UNCHANGED <<updates, nextLine>>
  BY <1>3 DEF IInv, TypeOK, Offer, LineInHand
<1> QED BY <1>1, <1>2, <1>3 DEF Offer

-----------------------------------------------------------------------------
LEMMA InitIInv == Init => IInv
<1> SUFFICES ASSUME Init PROVE IInv
  OBVIOUS
<1>1. /\ updates \in Seq(Calls) /\ Len(updates) <= Capacity
      /\ hand \in Seq(Calls) /\ Len(hand) <= 1
      /\ logView \in Seq(Lines)
  BY CapacityAssumption DEF Init
<1>2. nextLine \in 1 .. NLines + 1
  BY NLinesAssumption DEF Init
<1>3. "log" \in Callers
  BY DEF Callers
<1> QED BY <1>1, <1>2, <1>3 DEF Init, IInv, TypeOK, LineInHand

LEMMA NextIInv == IInv /\ [Next]_vars => IInv'
<1> SUFFICES ASSUME IInv, [Next]_vars PROVE IInv'
  OBVIOUS
<1> USE DEF IInv
<1>1. ASSUME NEW c \in Callers, DropOldest(c) PROVE IInv'
  <2>1. updates' \in Seq(Calls) /\ Len(updates') <= Capacity
    BY <1>1, TailOfSeq, CapacityAssumption DEF DropOldest, TypeOK
  <2>2. LineInHand'
    BY <1>1 DEF DropOldest, TypeOK, LineInHand, viewVars
  <2> QED BY <1>1, <2>1, <2>2 DEF DropOldest, TypeOK, loopVars, viewVars
<1>2. ASSUME NEW c \in Callers, Retry(c) PROVE IInv'
  <2>1. c = "log" => nextLine \in Lines
    BY <1>2 DEF Retry, LineInHand
  <2>2. Return(c)
    BY <1>2 DEF Retry, Send, SeeDone
  <2>3. updates' \in Seq(Calls) /\ Len(updates') <= Capacity
    BY <1>2, <2>1, SendTypes DEF Retry, SeeDone, TypeOK
  <2> QED BY <1>2, <2>1, <2>2, <2>3, ReturnTypes DEF Retry, TypeOK, loopVars
<1>3. ASSUME NEW c \in Callers, Exit(c) PROVE IInv'
  BY <1>3 DEF Exit, TypeOK, LineInHand, queueVars, loopVars, viewVars
<1>4. ASSUME NEW c \in Callers, Stop(c) PROVE IInv'
  BY <1>4 DEF Stop, TypeOK, LineInHand, queueVars, viewVars
<1>5. ASSUME NEW p \in Panels, Tick(p) PROVE IInv'
  <2>1. p \in Callers /\ p # "log"
    BY PanelsAssumption DEF Callers
  <2> QED BY <1>5, <2>1, OfferKeepsTypes DEF Tick, TypeOK, loopVars
<1>6. ASSUME NEW p \in Panels, Change(p) PROVE IInv'
  BY <1>6 DEF Change, TypeOK, LineInHand, queueVars, loopVars, callerVars
<1>7. ASSUME NEW p \in Panels, Start(p) PROVE IInv'
  BY <1>7, PanelsAssumption DEF Start, TypeOK, LineInHand, queueVars, loopVars, viewVars, Callers
<1>8. CASE Poll
  <2>1. "log" \in Callers
    BY DEF Callers
  <2> QED BY <1>8, <2>1, OfferKeepsTypes DEF Poll, TypeOK, loopVars
<1>9. CASE Joined \/ RunLoop \/ StopApp \/ RestoreTerminal
  BY <1>9 DEF Joined, RunLoop, StopApp, RestoreTerminal, TypeOK, LineInHand,
              queueVars, loopVars, callerVars, viewVars
<1>10. CASE Take
  <2>1. /\ updates' \in Seq(Calls) /\ Len(updates') <= Capacity
        /\ hand' \in Seq(Calls) /\ Len(hand') <= 1
    <3>1. /\ Head(updates) \in Calls /\ Tail(updates) \in Seq(Calls)
          /\ Len(Tail(updates)) <= Capacity
      BY <1>10, TailOfSeq, CapacityAssumption DEF Take, TypeOK
    <3>2. /\ <<Head(updates)>> \in Seq(Calls)
          /\ Len(<<Head(updates)>>) <= 1
      BY <3>1
    <3> QED BY <1>10, <3>1, <3>2 DEF Take
  <2> QED BY <1>10, <2>1 DEF Take, TypeOK, LineInHand, loopVars, callerVars, viewVars
<1>11. CASE DrainerExit
  BY <1>11 DEF DrainerExit, TypeOK, LineInHand, loopVars, callerVars, viewVars
<1>12. CASE Draw
  <2>1. Head(hand) \in Calls
    BY <1>12, TailOfSeq DEF Draw, TypeOK
  <2>2. logView' \in Seq(Lines) /\ shown' \in [Panels -> Nat]
    <3> DEFINE call == Head(hand)
    <3>1. CASE call.panel = "log"
      <4>1. logView' = Append(logView, call.line) /\ shown' = shown
        BY <1>12, <3>1 DEF Draw
      <4>2. call.line \in Lines
        BY <2>1, <3>1, CallFields
      <4> QED BY <4>1, <4>2 DEF TypeOK
    <3>2. CASE call.panel # "log"
      <4>1. shown' = [shown EXCEPT ![call.panel] = model[call.panel]] /\ logView' = logView
        BY <1>12, <3>2 DEF Draw
      <4>2. call.panel \in Panels
        BY <2>1, <3>2, CallFields
      <4> QED BY <4>1, <4>2 DEF TypeOK
    <3> QED BY <3>1, <3>2
  <2> QED BY <1>12, <2>2 DEF Draw, TypeOK, LineInHand, loopVars, callerVars
<1>13. CASE UNCHANGED vars
  BY <1>13 DEF vars, TypeOK, LineInHand, queueVars, loopVars, callerVars, viewVars
<1> QED
  BY <1>1, <1>2, <1>3, <1>4, <1>5, <1>6, <1>7, <1>8, <1>9, <1>10, <1>11, <1>12, <1>13
     DEF Next

(***************************************************************************)
(* The state has its types in every behaviour, and the tail is inside      *)
(* QueueUpdateDraw only with a line of the file (log.go, StartTailing).    *)
(***************************************************************************)
THEOREM TypesHold == Spec => [](TypeOK /\ LineInHand)
<1>1. IInv => TypeOK /\ LineInHand
  BY DEF IInv
<1> QED BY <1>1, InitIInv, NextIInv, PTL DEF Spec

-----------------------------------------------------------------------------
(***************************************************************************)
(* The refinement.                                                         *)
(***************************************************************************)

LEMMA SameCalls == Abstract!Calls = Calls /\ Abstract!Lines = Lines
BY DEF Calls, Lines, Abstract!Calls, Abstract!Lines

\* Taking the head into the hand moves no call.
LEMMA HandOver ==
  ASSUME NEW s \in Seq(Calls), s # <<>>
  PROVE  <<Head(s)>> \o Tail(s) = <<>> \o s
<1> DEFINE t == <<Head(s)>> \o Tail(s)
<1>1. /\ Head(s) \in Calls /\ Tail(s) \in Seq(Calls)
      /\ Len(s) \in Nat /\ Len(s) >= 1 /\ Len(Tail(s)) = Len(s) - 1
  BY TailOfSeq
<1>2. t \in Seq(Calls) /\ Len(t) = Len(s)
  BY <1>1
<1>3. \A i \in 1 .. Len(s) : t[i] = s[i]
  BY <1>1
<1>4. <<>> \o s \in Seq(Calls) /\ Len(<<>> \o s) = Len(s)
  OBVIOUS
<1>5. \A i \in 1 .. Len(s) : (<<>> \o s)[i] = s[i]
  OBVIOUS
<1> QED BY <1>1, <1>2, <1>3, <1>4, <1>5

\* Dropping the head of the channel removes one pending call.
LEMMA DropIsLose ==
  ASSUME NEW h \in Seq(Calls), NEW s \in Seq(Calls), s # <<>>
  PROVE  /\ Len(h) + 1 \in 1 .. Len(h \o s)
         /\ h \o Tail(s) = Abstract!Without(h \o s, Len(h) + 1)
<1> DEFINE l == h \o Tail(s)  r == Abstract!Without(h \o s, Len(h) + 1)
<1>1. /\ Tail(s) \in Seq(Calls)
      /\ Len(s) \in Nat /\ Len(s) >= 1 /\ Len(Tail(s)) = Len(s) - 1
  BY TailOfSeq
<1>2. l \in Seq(Calls) /\ Len(l) = Len(h) + Len(s) - 1
  BY <1>1
<1>3. Len(h \o s) = Len(h) + Len(s) /\ Len(h) \in Nat
  OBVIOUS
<1>4. \A j \in 1 .. Len(h) + Len(s) - 1 : l[j] = r[j]
  <2> SUFFICES ASSUME NEW j \in 1 .. Len(h) + Len(s) - 1 PROVE l[j] = r[j]
    OBVIOUS
  <2>1. r[j] = IF j < Len(h) + 1 THEN (h \o s)[j] ELSE (h \o s)[j + 1]
    BY <1>3 DEF Abstract!Without
  <2>2. CASE j <= Len(h)
    BY <1>1, <1>3, <2>1, <2>2
  <2>3. CASE j > Len(h)
    <3>1. l[j] = Tail(s)[j - Len(h)]
      BY <1>1, <1>3, <2>3
    <3>2. Tail(s)[j - Len(h)] = s[j - Len(h) + 1]
      BY <1>1, <1>3, <2>3
    <3>3. (h \o s)[j + 1] = s[j + 1 - Len(h)]
      BY <1>1, <1>3, <2>3
    <3> QED BY <1>3, <2>1, <2>3, <3>1, <3>2, <3>3
  <2> QED BY <1>3, <2>2, <2>3
<1>5. r = [j \in 1 .. Len(h) + Len(s) - 1 |-> r[j]]
  BY <1>3 DEF Abstract!Without
<1>6. l = [j \in 1 .. Len(h) + Len(s) - 1 |-> l[j]]
  <2> HIDE DEF l
  <2> QED BY <1>2
<1>7. l = r
  <2> HIDE DEF l, r
  <2> QED BY <1>4, <1>5, <1>6
<1> QED BY <1>1, <1>3, <1>7

LEMMA InitRefines == Init => Abstract!Init
<1> SUFFICES ASSUME Init PROVE Abstract!Init
  OBVIOUS
<1>1. hand \o updates = <<>>
  BY DEF Init
<1> QED BY <1>1 DEF Init, Abstract!Init

\* An accepted call becomes the last pending one.
LEMMA SendRefines ==
  ASSUME IInv, NEW c \in Callers, c = "log" => nextLine \in Lines, Send(c),
         UNCHANGED <<hand, logView>>
  PROVE  Abstract!Next
<1>1. (hand \o updates)' = Append(hand \o updates, CallOf(c))
  BY CallOfIsACall DEF Send, IInv, TypeOK
<1>2. CASE c = "log"
  <2>1. Abstract!AcceptLine
    BY <1>1, <1>2, SameCalls DEF Send, Return, CallOf, Abstract!AcceptLine
  <2> QED BY <2>1 DEF Abstract!Next
<1>3. CASE c # "log"
  <2>1. c \in Panels
    BY <1>3 DEF Callers
  <2>2. Abstract!AcceptRepaint(c)
    BY <1>1, <1>3 DEF Send, Return, CallOf, Abstract!AcceptRepaint
  <2> QED BY <2>1, <2>2 DEF Abstract!Next
<1> QED BY <1>2, <1>3

\* A call that returns without being sent: a line is refused.
LEMMA RefuseRefines ==
  ASSUME NEW c \in Callers, c = "log" => nextLine \in Lines, Return(c),
         UNCHANGED <<updates, hand, logView>>
  PROVE  [Abstract!Next]_(Abstract!vars)
<1>1. CASE c = "log"
  <2>1. Abstract!RefuseLine
    BY <1>1, SameCalls DEF Return, Abstract!RefuseLine
  <2> QED BY <2>1 DEF Abstract!Next
<1>2. CASE c # "log"
  BY <1>2 DEF Return, Abstract!vars
<1> QED BY <1>1, <1>2

LEMMA OfferRefines ==
  ASSUME IInv, NEW c \in Callers, c = "log" => nextLine \in Lines, Offer(c),
         UNCHANGED logView
  PROVE  [Abstract!Next]_(Abstract!vars)
<1>1. CASE Send(c)
  BY <1>1, SendRefines DEF Offer
<1>2. CASE SeeDone(c)
  BY <1>2, RefuseRefines DEF Offer, SeeDone
<1>3. CASE UNCHANGED <<updates, nextLine>>
  BY <1>3 DEF Offer, Abstract!vars
<1> QED BY <1>1, <1>2, <1>3 DEF Offer

LEMMA DrawRefines ==
  ASSUME IInv, Draw
  PROVE  Abstract!Run
<1> DEFINE call == Head(hand)
<1>1. hand = <<call>> /\ call \in Calls
  <2>1. hand \in Seq(Calls) /\ hand # <<>> /\ Len(hand) <= 1
    BY DEF IInv, TypeOK, Draw
  <2> QED BY <2>1, SingletonSeq
<1>2. updates \in Seq(Calls)
  BY DEF IInv, TypeOK
<1>3. /\ hand \o updates # <<>>
      /\ Head(hand \o updates) = call
  BY <1>1, <1>2
<1>4. Tail(hand \o updates) = updates
  <2> HIDE DEF call
  <2>1. Tail(<<call>> \o updates) \in Seq(Calls) /\ Len(Tail(<<call>> \o updates)) = Len(updates)
    BY <1>1, <1>2
  <2>2. \A i \in 1 .. Len(updates) : Tail(<<call>> \o updates)[i] = updates[i]
    BY <1>1, <1>2
  <2> QED BY <1>1, <1>2, <2>1, <2>2
<1>5. (hand \o updates)' = updates
  <2>1. hand' = <<>> /\ updates' = updates
    BY DEF Draw
  <2> QED BY <1>2, <2>1
<1>6. logView' = IF call.panel = "log" THEN Append(logView, call.line) ELSE logView
  BY DEF Draw
<1>7. UNCHANGED nextLine
  BY DEF Draw
<1> QED BY <1>3, <1>4, <1>5, <1>6, <1>7 DEF Abstract!Run

LEMMA NextRefines ==
  IInv /\ [Next]_vars => [Abstract!Next]_(Abstract!vars)
<1> SUFFICES ASSUME IInv, [Next]_vars PROVE [Abstract!Next]_(Abstract!vars)
  OBVIOUS
<1>1. ASSUME NEW c \in Callers, DropOldest(c) PROVE [Abstract!Next]_(Abstract!vars)
  <2>1. CASE updates = <<>>
    BY <1>1, <2>1 DEF DropOldest, viewVars, Abstract!vars
  <2>2. CASE updates # <<>>
    <3>1. hand \in Seq(Calls) /\ updates \in Seq(Calls)
      BY DEF IInv, TypeOK
    <3>2. (hand \o updates)' = hand \o Tail(updates)
      BY <1>1, <2>2 DEF DropOldest
    <3>3. Abstract!Lose
      BY <1>1, <2>2, <3>1, <3>2, DropIsLose DEF DropOldest, viewVars, Abstract!Lose
    <3> QED BY <3>3 DEF Abstract!Next
  <2> QED BY <2>1, <2>2
<1>2. ASSUME NEW c \in Callers, Retry(c) PROVE [Abstract!Next]_(Abstract!vars)
  <2>1. c = "log" => nextLine \in Lines
    BY <1>2 DEF Retry, IInv, LineInHand
  <2>2. CASE Send(c)
    BY <1>2, <2>1, <2>2, SendRefines DEF Retry
  <2>3. CASE Return(c) /\ UNCHANGED updates
    BY <1>2, <2>1, <2>3, RefuseRefines DEF Retry
  <2> QED BY <1>2, <2>2, <2>3 DEF Retry, SeeDone
<1>3. ASSUME NEW c \in Callers, Exit(c) \/ Stop(c) PROVE [Abstract!Next]_(Abstract!vars)
  BY <1>3 DEF Exit, Stop, queueVars, viewVars, Abstract!vars
<1>4. ASSUME NEW p \in Panels, Tick(p) PROVE [Abstract!Next]_(Abstract!vars)
  BY <1>4, OfferRefines, PanelsAssumption DEF Tick, Callers
<1>5. ASSUME NEW p \in Panels, Change(p) \/ Start(p) PROVE [Abstract!Next]_(Abstract!vars)
  BY <1>5 DEF Change, Start, queueVars, viewVars, Abstract!vars
<1>6. CASE Poll
  BY <1>6, OfferRefines DEF Poll, Callers
<1>7. CASE Joined \/ RunLoop \/ StopApp \/ RestoreTerminal \/ DrainerExit
  BY <1>7 DEF Joined, RunLoop, StopApp, RestoreTerminal, DrainerExit, queueVars, viewVars,
              Abstract!vars
<1>8. CASE Take
  <2>1. updates \in Seq(Calls) /\ updates # <<>> /\ hand = <<>>
    BY <1>8 DEF IInv, TypeOK, Take
  <2>2. (hand \o updates)' = hand \o updates
    BY <1>8, <2>1, HandOver DEF Take
  <2> QED BY <1>8, <2>2 DEF Take, viewVars, Abstract!vars
<1>9. CASE Draw
  BY <1>9, DrawRefines DEF Abstract!Next
<1>10. CASE UNCHANGED vars
  BY <1>10 DEF vars, queueVars, viewVars, Abstract!vars
<1> QED
  BY <1>1, <1>2, <1>3, <1>4, <1>5, <1>6, <1>7, <1>8, <1>9, <1>10 DEF Next

(***************************************************************************)
(* QueueUpdateDraw and drainUpdates implement LossyQueue.                  *)
(***************************************************************************)
THEOREM Refinement == Spec => AbstractSpec
<1>1. TypeOK /\ LineInHand => IInv
  BY DEF IInv
<1> QED
  BY <1>1, InitRefines, NextRefines, TypesHold, PTL DEF Spec, AbstractSpec, Abstract!Spec

-----------------------------------------------------------------------------
(***************************************************************************)
(* A queue that may lose any call still keeps the lines of the log in      *)
(* order.  The lemmas are about any calls, next line and view: each action *)
(* of LossyQueue moves one line one place on, or drops it.                 *)
(***************************************************************************)
InFileOrder(calls, next, seen) ==
  /\ \A i, j \in DOMAIN seen : i < j => seen[i] < seen[j]
  /\ \A i, j \in DOMAIN calls :
       i < j /\ calls[i].panel = "log" /\ calls[j].panel = "log"
         => calls[i].line < calls[j].line
  /\ \A i \in DOMAIN calls :
       calls[i].panel = "log" =>
         /\ calls[i].line < next
         /\ \A k \in DOMAIN seen : seen[k] < calls[i].line
  /\ \A k \in DOMAIN seen : seen[k] < next

Ordered(calls, next, seen) ==
  /\ calls \in Seq(Calls) /\ next \in 1 .. NLines + 1 /\ seen \in Seq(Lines)
  /\ InFileOrder(calls, next, seen)

LEMMA LineIsNat ==
  ASSUME NEW call \in Calls
  PROVE  call.line \in Nat /\ (call.panel = "log" => call.line \in Lines)
BY NLinesAssumption, PanelsAssumption DEF Calls, Lines

\* A call is accepted: a repaint, or the next line of the file.
LEMMA AcceptKeepsOrder ==
  ASSUME NEW calls, NEW next, NEW seen, Ordered(calls, next, seen),
         NEW call \in Calls, NEW next2,
         \/ call.panel # "log" /\ next2 = next
         \/ next \in Lines /\ call.line = next /\ next2 = next + 1
  PROVE  Ordered(Append(calls, call), next2, seen)
<1> DEFINE longer == Append(calls, call)
<1>1. calls \in Seq(Calls) /\ seen \in Seq(Lines) /\ next \in 1 .. NLines + 1
  BY DEF Ordered
<1>2. next \in Nat /\ next <= next2 /\ next2 \in 1 .. NLines + 1 /\ next2 \in Nat
  BY <1>1, NLinesAssumption DEF Lines
<1>3. /\ longer \in Seq(Calls) /\ DOMAIN longer = 1 .. Len(calls) + 1
      /\ \A i \in DOMAIN calls : longer[i] = calls[i]
      /\ longer[Len(calls) + 1] = call
  BY <1>1
<1>4. DOMAIN calls = 1 .. Len(calls) /\ Len(calls) \in Nat
  BY <1>1
<1>5. \A i \in DOMAIN calls : calls[i].line \in Nat
  BY <1>1, LineIsNat
<1>6. \A k \in DOMAIN seen : seen[k] \in Nat
  BY <1>1, NLinesAssumption DEF Lines
<1>7. call.line \in Nat
  BY LineIsNat
<1> HIDE DEF longer
<1>8. InFileOrder(calls, next, seen)
  BY DEF Ordered
<1>9. InFileOrder(longer, next2, seen)
  <2>1. \A i, j \in DOMAIN seen : i < j => seen[i] < seen[j]
    BY <1>8 DEF InFileOrder
  <2>2. \A k \in DOMAIN seen : seen[k] < next /\ seen[k] < next2
    BY <1>2, <1>6, <1>8 DEF InFileOrder
  <2>3. \A i \in DOMAIN calls : calls[i].panel = "log" =>
           /\ calls[i].line < next /\ calls[i].line < next2
           /\ \A k \in DOMAIN seen : seen[k] < calls[i].line
    BY <1>2, <1>5, <1>8 DEF InFileOrder
  <2>4. \A i, j \in DOMAIN calls :
           i < j /\ calls[i].panel = "log" /\ calls[j].panel = "log"
             => calls[i].line < calls[j].line
    BY <1>8 DEF InFileOrder
  <2>5. call.panel = "log" => call.line = next /\ call.line < next2
    BY <1>2
  <2>6. \A i \in DOMAIN longer : longer[i].panel = "log" =>
           /\ longer[i].line < next2
           /\ \A k \in DOMAIN seen : seen[k] < longer[i].line
    BY <1>3, <1>4, <2>2, <2>3, <2>5
  <2>7. \A i, j \in DOMAIN longer :
           i < j /\ longer[i].panel = "log" /\ longer[j].panel = "log"
             => longer[i].line < longer[j].line
    BY <1>3, <1>4, <2>3, <2>4, <2>5
  <2> QED BY <2>1, <2>2, <2>6, <2>7 DEF InFileOrder
<1> QED BY <1>1, <1>2, <1>3, <1>9 DEF Ordered, longer

\* A line is refused.
LEMMA RefuseKeepsOrder ==
  ASSUME NEW calls, NEW next, NEW seen, Ordered(calls, next, seen), next \in Lines
  PROVE  Ordered(calls, next + 1, seen)
<1>1. calls \in Seq(Calls) /\ seen \in Seq(Lines) /\ next \in Nat /\ next + 1 \in 1 .. NLines + 1
  BY NLinesAssumption DEF Ordered, Lines
<1>2. /\ \A i \in DOMAIN calls : calls[i].line \in Nat
      /\ \A k \in DOMAIN seen : seen[k] \in Nat
  BY <1>1, LineIsNat, NLinesAssumption DEF Lines
<1> QED BY <1>1, <1>2 DEF Ordered, InFileOrder

\* Any accepted call is lost.
LEMMA LoseKeepsOrder ==
  ASSUME NEW calls, NEW next, NEW seen, Ordered(calls, next, seen),
         NEW n \in 1 .. Len(calls)
  PROVE  Ordered(Abstract!Without(calls, n), next, seen)
<1> DEFINE left == Abstract!Without(calls, n)
           old(j) == IF j < n THEN j ELSE j + 1
<1>1. calls \in Seq(Calls) /\ Len(calls) \in Nat /\ DOMAIN calls = 1 .. Len(calls)
  BY DEF Ordered
<1>2. /\ DOMAIN left = 1 .. Len(calls) - 1
      /\ \A j \in DOMAIN left : left[j] = calls[old(j)] /\ old(j) \in DOMAIN calls
  BY <1>1 DEF Abstract!Without
<1>3. \A i, j \in DOMAIN left : i < j => old(i) < old(j)
  BY <1>1, <1>2
<1>4. left \in Seq(Calls)
  BY <1>1 DEF Abstract!Without
<1> HIDE DEF left, old
<1>5. InFileOrder(left, next, seen)
  BY <1>2, <1>3, <1>4 DEF Ordered, InFileOrder
<1> QED BY <1>4, <1>5 DEF Ordered, left

\* The oldest call runs; a line it carries is shown.
LEMMA RunKeepsOrder ==
  ASSUME NEW calls, NEW next, NEW seen, Ordered(calls, next, seen), calls # <<>>
  PROVE  Ordered(Tail(calls), next,
                 IF Head(calls).panel = "log" THEN Append(seen, Head(calls).line) ELSE seen)
<1> DEFINE call == Head(calls)
           rest == Tail(calls)
           longer == Append(seen, call.line)
<1>1. /\ calls \in Seq(Calls) /\ Len(calls) \in Nat /\ Len(calls) >= 1
      /\ DOMAIN calls = 1 .. Len(calls) /\ call = calls[1] /\ call \in Calls
  BY DEF Ordered
<1>2. /\ rest \in Seq(Calls) /\ DOMAIN rest = 1 .. Len(calls) - 1
      /\ \A j \in DOMAIN rest : rest[j] = calls[j + 1] /\ j + 1 \in DOMAIN calls
  BY <1>1
<1>3. /\ next \in 1 .. NLines + 1 /\ seen \in Seq(Lines)
      /\ DOMAIN seen = 1 .. Len(seen) /\ Len(seen) \in Nat
  BY DEF Ordered
<1> HIDE DEF call, rest
<1>4. InFileOrder(calls, next, seen)
  BY DEF Ordered
<1>5. \A i, j \in DOMAIN rest :
        i < j /\ rest[i].panel = "log" /\ rest[j].panel = "log"
          => rest[i].line < rest[j].line
  BY <1>1, <1>2, <1>4 DEF InFileOrder
<1>6. \A j \in DOMAIN rest : rest[j].panel = "log" =>
        /\ rest[j].line < next
        /\ \A k \in DOMAIN seen : seen[k] < rest[j].line
  BY <1>2, <1>4 DEF InFileOrder
<1>7. /\ \A i, j \in DOMAIN seen : i < j => seen[i] < seen[j]
      /\ \A k \in DOMAIN seen : seen[k] < next
  BY <1>4 DEF InFileOrder
<1>8. CASE call.panel = "log"
  <2>1. call.line \in Lines
    BY <1>1, <1>8, LineIsNat
  <2>2. /\ longer \in Seq(Lines) /\ DOMAIN longer = 1 .. Len(seen) + 1
        /\ \A k \in DOMAIN seen : longer[k] = seen[k]
        /\ longer[Len(seen) + 1] = call.line
    BY <1>3, <2>1
  <2>3. (\A k \in DOMAIN seen : seen[k] < call.line) /\ call.line < next
    BY <1>1, <1>4, <1>8 DEF InFileOrder
  <2>4. \A j \in DOMAIN rest : rest[j].panel = "log" => call.line < rest[j].line
    <3> SUFFICES ASSUME NEW j \in DOMAIN rest, rest[j].panel = "log"
                 PROVE  call.line < rest[j].line
      OBVIOUS
    <3>1. 1 \in DOMAIN calls /\ j + 1 \in DOMAIN calls /\ 1 < j + 1
      BY <1>1, <1>2
    <3> QED BY <1>1, <1>2, <1>4, <1>8, <3>1 DEF InFileOrder
  <2> HIDE DEF longer
  <2>5. InFileOrder(rest, next, longer)
    BY <1>3, <1>5, <1>6, <1>7, <2>2, <2>3, <2>4 DEF InFileOrder
  <2> QED BY <1>2, <1>3, <1>8, <2>2, <2>5 DEF Ordered, call, rest, longer
<1>9. CASE call.panel # "log"
  <2>1. InFileOrder(rest, next, seen)
    BY <1>5, <1>6, <1>7 DEF InFileOrder
  <2> QED BY <1>2, <1>3, <1>9, <2>1 DEF Ordered, call, rest
<1> QED BY <1>8, <1>9

PendingInOrder == Ordered(hand \o updates, nextLine, logView)

LEMMA AbstractKeepsOrder == PendingInOrder /\ [Abstract!Next]_(Abstract!vars) => PendingInOrder'
<1> SUFFICES ASSUME PendingInOrder, [Abstract!Next]_(Abstract!vars) PROVE PendingInOrder'
  OBVIOUS
<1> USE DEF PendingInOrder
<1>1. ASSUME NEW p \in Panels, Abstract!AcceptRepaint(p) PROVE PendingInOrder'
  <2>1. [panel |-> p, line |-> 0] \in Calls /\ p # "log"
    BY PanelsAssumption DEF Calls
  <2> QED BY <1>1, <2>1, AcceptKeepsOrder DEF Abstract!AcceptRepaint
<1>2. CASE Abstract!AcceptLine
  <2>1. nextLine \in Lines /\ [panel |-> "log", line |-> nextLine] \in Calls
    BY <1>2 DEF Abstract!AcceptLine, Abstract!Lines, Calls, Lines
  <2> QED BY <1>2, <2>1, AcceptKeepsOrder DEF Abstract!AcceptLine
<1>3. CASE Abstract!RefuseLine
  BY <1>3, RefuseKeepsOrder DEF Abstract!RefuseLine, Abstract!Lines, Lines
<1>4. CASE Abstract!Lose
  BY <1>4, LoseKeepsOrder DEF Abstract!Lose
<1>5. CASE Abstract!Run
  BY <1>5, RunKeepsOrder DEF Abstract!Run
<1>6. CASE UNCHANGED Abstract!vars
  BY <1>6 DEF Abstract!vars
<1> QED BY <1>1, <1>2, <1>3, <1>4, <1>5, <1>6 DEF Abstract!Next

(***************************************************************************)
(* LossyQueue alone keeps the lines in the order of the file, whatever it  *)
(* loses: the refinement adds nothing to that but the mapping.             *)
(***************************************************************************)
THEOREM OrderHolds == AbstractSpec => []LinesInOrder
<1>1. Abstract!Init => PendingInOrder
  BY NLinesAssumption DEF Abstract!Init, PendingInOrder, Ordered, InFileOrder
<1>2. PendingInOrder => LinesInOrder
  BY DEF PendingInOrder, Ordered, InFileOrder, LinesInOrder, Abstract!InOrder
<1> QED BY <1>1, <1>2, AbstractKeepsOrder, PTL DEF AbstractSpec, Abstract!Spec

(***************************************************************************)
(* The log view shows the lines of the file in their order, for any queue  *)
(* length and any callers (QueueUpdateDraw, drainUpdates, StartTailing).   *)
(***************************************************************************)
THEOREM LinesStayInOrder == Spec => []LinesInOrder
BY Refinement, OrderHolds, PTL

-----------------------------------------------------------------------------
(***************************************************************************)
(* Part 2: the channels page.                                              *)
(***************************************************************************)

(***************************************************************************)
(* The inductive invariant.                                                *)
(***************************************************************************)

\* The rows are those of the hubs the page has read.
Fits(d) ==
  /\ \A i \in DOMAIN d.views : HubRow(i) \in d.rows
  /\ \A row \in d.rows : row.at \in DOMAIN d.views
  /\ d.cursor \in d.rows \cup {NoRow}

\* The user waits: at most one call of his is in the queue.
OnePending ==
  \A i, j \in DOMAIN queue : ByUser(queue[i]) /\ ByUser(queue[j]) => i = j

DialogWaits == dialog.kind # "none" => Settled

\* A room on the screen is that of its header and, unless the active hub has
\* been made active without a room, the active one.
RoomInView(d) ==
  d.pane = "room" =>
    /\ d.at \in DOMAIN hubs /\ hubs[d.at] = d.widget.hub /\ d.room = d.widget.room
    /\ d.room # NoRoom => d.shown = d.widget
    /\ active.room # NoRoom => active = d.widget
    /\ active.hub \in ToSet(hubs)

\* What must hold while call c of the user's is in the queue, for the page d to
\* be right once c has run.
Leads(c, d) ==
  /\ c.call \in {"list", "edited", "roomOf", "noteOf"} => RoomInView(d)
  /\ c.call \in {"info", "room", "roomOf", "noteOf"} => d.views = hubs
  /\ c.call \in {"info", "room"} => c.at \in DOMAIN hubs
  /\ c.call = "room" => c.hub = hubs[c.at]
  /\ c.call \in {"room", "listRoomOf"} => active = [hub |-> c.hub, room |-> c.room]
  /\ c.call \in {"roomOf", "noteOf"} => d.pane = "room" /\ c.hub = active.hub
  /\ c.call = "roomOf" => c.room = active.room
  /\ c.call = "noteOf" => c.room = d.widget.room
  /\ c.call = "listRoomOf" => c.hub \in ToSet(hubs) \/ d.pane # "room"

\* The page is right, or a call that makes it right is in the queue.
Drawn ==
  /\ Settled => page.views = hubs /\ RoomInView(page)
  /\ \A i \in DOMAIN queue : ByUser(queue[i]) => Leads(queue[i], page)

\* A dialog names the hub that is at its place in the list.
DialogNames == dialog.kind \in {"remove", "edit"} => dialog.named.hub = HubAt(hubs, dialog.at)

\* What has been done so far was done where the page said.
NamedActs(l) ==
  /\ l.what = "composer" /\ ~l.bare => l.hub = l.named.hub /\ l.room = l.named.room
  /\ l.what = "list" => l.hub = l.named.hub

\* What holds in any case, and what holds until a call of the user's is dropped.
Shape == ChannelsTypeOK /\ Fits(page) /\ OnePending /\ DialogWaits
Right == Drawn /\ DialogNames /\ NamedActs(last)
ChannelsInv == Shape /\ (~lost => Right)

-----------------------------------------------------------------------------
(***************************************************************************)
(* The list of hubs.                                                       *)
(***************************************************************************)

LEMMA PlaceOf ==
  ASSUME NEW list \in Seq(Hubs), NEW h \in Hubs \cup {NoHub}
  PROVE  /\ IndexFor(list, h) \in 0..Len(list)
         /\ h \in ToSet(list) => /\ IndexFor(list, h) \in DOMAIN list
                                 /\ list[IndexFor(list, h)] = h
         /\ h \notin ToSet(list) => IndexFor(list, h) \notin DOMAIN list
<1>1. DOMAIN list = 1..Len(list) /\ Len(list) \in Nat
  OBVIOUS
<1>2. CASE h \in ToSet(list)
  <2>1. \E i \in DOMAIN list : list[i] = h
    BY <1>2 DEF ToSet
  <2> QED
    BY <1>1, <1>2, <2>1 DEF IndexFor
<1>3. CASE h \notin ToSet(list)
  BY <1>1, <1>3 DEF IndexFor
<1> QED
  BY <1>2, <1>3

LEMMA HubsAt ==
  ASSUME NEW list \in Seq(Hubs), NEW i
  PROVE  /\ HubAt(list, i) \in Hubs \cup {NoHub}
         /\ HubAt(list, i) # NoHub <=> i \in DOMAIN list
         /\ i \in DOMAIN list => HubAt(list, i) = list[i] /\ list[i] \in ToSet(list) /\ list[i] \in Hubs
BY NoHubAssumption DEF HubAt, ToSet

LEMMA RemoveAtKeeps ==
  ASSUME NEW T, NEW s \in Seq(T), NEW n \in 1..Len(s)
  PROVE  RemoveAt(s, n) \in Seq(T) /\ Len(RemoveAt(s, n)) = Len(s) - 1
<1> DEFINE a == SubSeq(s, 1, n - 1)
           b == SubSeq(s, n + 1, Len(s))
<1>1. /\ a \in Seq(T) /\ Len(a) = n - 1
      /\ b \in Seq(T) /\ Len(b) = Len(s) - n
  OBVIOUS
<1>2. RemoveAt(s, n) = a \o b
  BY DEF RemoveAt
<1> HIDE DEF a, b
<1>3. a \o b \in Seq(T) /\ Len(a \o b) = Len(a) + Len(b)
  BY <1>1
<1>4. Len(s) \in Nat /\ n \in Nat
  OBVIOUS
<1> QED
  BY <1>1, <1>2, <1>3, <1>4

LEMMA AppendKeeps ==
  ASSUME NEW T, NEW s \in Seq(T), NEW x \in T
  PROVE  /\ Append(s, x) \in Seq(T) /\ Len(Append(s, x)) = Len(s) + 1
         /\ \A i \in DOMAIN s : i \in DOMAIN Append(s, x) /\ Append(s, x)[i] = s[i]
         /\ ToSet(Append(s, x)) = ToSet(s) \cup {x}
<1>1. /\ Append(s, x) \in Seq(T) /\ Len(Append(s, x)) = Len(s) + 1
      /\ \A i \in DOMAIN s : i \in DOMAIN Append(s, x) /\ Append(s, x)[i] = s[i]
      /\ Append(s, x)[Len(s) + 1] = x
      /\ Len(s) \in Nat /\ DOMAIN s = 1..Len(s) /\ DOMAIN Append(s, x) = 1..Len(s)+1
  OBVIOUS
<1> DEFINE t == Append(s, x)
<1> HIDE DEF t
<1>2. ToSet(t) = ToSet(s) \cup {x}
  BY <1>1 DEF ToSet, t
<1> QED
  BY <1>1, <1>2 DEF t

-----------------------------------------------------------------------------
(***************************************************************************)
(* The queue.                                                              *)
(***************************************************************************)

\* Where the calls of the queue were before one more was queued.
LEMMA Queued ==
  ASSUME queue \in Seq(Call), Len(queue) <= QueueMax, lost \in BOOLEAN,
         NEW c \in Call, MakesRoom(c)
  PROVE  /\ queue' \in Seq(Call) /\ Len(queue') <= QueueMax /\ lost' \in BOOLEAN
         /\ DOMAIN queue' = 1..Len(queue') /\ Len(queue') \in Nat \ {0}
         /\ queue'[Len(queue')] = c
         /\ \E k \in {0, 1} :
              /\ \A i \in DOMAIN queue' : i # Len(queue') => i + k \in DOMAIN queue /\ queue'[i] = queue[i + k]
              /\ \A i \in DOMAIN queue : i > k => i - k \in DOMAIN queue' /\ queue'[i - k] = queue[i]
              /\ lost' = (lost \/ (k = 1 /\ ByUser(queue[1])))
              /\ k = 1 => 1 \in DOMAIN queue
<1> DEFINE full == Len(queue) >= QueueMax
           k == IF full THEN 1 ELSE 0
           q == IF full THEN Tail(queue) ELSE queue
<1>1. Len(queue) \in Nat /\ QueueMax \in Nat /\ QueueMax >= 1 /\ DOMAIN queue = 1..Len(queue)
  BY QueueMaxAssumption
<1>2. /\ q \in Seq(Call) /\ Len(q) = Len(queue) - k
      /\ \A i \in 1..Len(queue) - k : q[i] = queue[i + k]
      /\ k \in {0, 1} /\ Len(queue) >= k /\ Len(queue) - k + 1 <= QueueMax
  <2>1. CASE full
    BY <1>1, <2>1
  <2>2. CASE ~full
    BY <1>1, <2>2
  <2> QED
    BY <2>1, <2>2
<1>3. queue' = Append(q, c) /\ lost' = (lost \/ (full /\ ByUser(Head(queue))))
  BY DEF MakesRoom
<1>4. full <=> k = 1
  OBVIOUS
<1>5. k = 1 => Head(queue) = queue[1]
  OBVIOUS
<1> HIDE DEF q, k, full
<1>6. /\ Append(q, c) \in Seq(Call) /\ Len(Append(q, c)) = Len(q) + 1
      /\ \A i \in 1..Len(q) : Append(q, c)[i] = q[i]
      /\ Append(q, c)[Len(q) + 1] = c /\ DOMAIN Append(q, c) = 1..Len(q)+1
  BY <1>2
<1>7. /\ Len(queue') = Len(queue) - k + 1 /\ DOMAIN queue' = 1..Len(queue) - k + 1
      /\ \A i \in 1..Len(queue) - k : queue'[i] = queue[i + k]
      /\ queue'[Len(queue) - k + 1] = c
  BY <1>1, <1>2, <1>3, <1>6
<1>8. /\ \A i \in DOMAIN queue' : i # Len(queue') => i + k \in DOMAIN queue /\ queue'[i] = queue[i + k]
      /\ \A i \in DOMAIN queue : i > k => i - k \in DOMAIN queue' /\ queue'[i - k] = queue[i]
      /\ k = 1 => 1 \in DOMAIN queue
  BY <1>1, <1>2, <1>7
<1>9. lost' = (lost \/ (k = 1 /\ ByUser(queue[1]))) /\ lost' \in BOOLEAN
  BY <1>3, <1>4, <1>5
<1>10. queue' \in Seq(Call) /\ Len(queue') <= QueueMax /\ Len(queue') \in Nat \ {0}
  BY <1>1, <1>2, <1>3, <1>6, <1>7
<1> QED
  BY <1>2, <1>7, <1>8, <1>9, <1>10

\* A call of the user's, who has waited: it is the only one of his, or it has
\* been dropped.
LEMMA Asks ==
  ASSUME Shape, Settled, NEW c \in Call, ByUser(c), QueueUpdateDraw(c)
  PROVE  /\ queue' \in Seq(Call) /\ Len(queue') <= QueueMax /\ lost' \in BOOLEAN
         /\ ~lost' => ~lost /\ ~Settled'
         /\ OnePending'
         /\ \A i \in DOMAIN queue' : ByUser(queue'[i]) => queue'[i] = c
<1>1. /\ queue \in Seq(Call) /\ Len(queue) <= QueueMax /\ lost \in BOOLEAN
  BY DEF Shape, ChannelsTypeOK
<1>2. \A i \in DOMAIN queue : ~ByUser(queue[i])
  BY DEF Settled
<1>3. CASE MakesRoom(c)
  <2>1. /\ queue' \in Seq(Call) /\ Len(queue') <= QueueMax /\ lost' \in BOOLEAN
        /\ Len(queue') \in DOMAIN queue' /\ queue'[Len(queue')] = c
        /\ \A i \in DOMAIN queue' : i # Len(queue') => ~ByUser(queue'[i])
        /\ ~lost' => ~lost
    BY <1>1, <1>2, <1>3, Queued
  <2>2. ~Settled'
    BY <2>1 DEF Settled
  <2>3. \A i \in DOMAIN queue' : ByUser(queue'[i]) => i = Len(queue')
    BY <2>1
  <2>4. OnePending'
    BY <2>3 DEF OnePending
  <2> QED
    BY <2>1, <2>2, <2>3, <2>4
<1>4. CASE Crowded(c)
  <2>1. queue' = queue /\ lost' = TRUE
    BY <1>4 DEF Crowded
  <2>2. OnePending'
    BY <1>2, <2>1 DEF OnePending
  <2> QED
    BY <1>1, <1>2, <2>1, <2>2
<1> QED
  BY <1>3, <1>4 DEF QueueUpdateDraw

\* A call of the worker's changes nothing in those of the user, unless one of
\* them is dropped.
LEMMA ReportsSent ==
  ASSUME Shape, NEW c \in Call, ~ByUser(c), MakesRoom(c)
  PROVE  /\ queue' \in Seq(Call) /\ Len(queue') <= QueueMax /\ lost' \in BOOLEAN
         /\ ~lost' => ~lost
         /\ ~lost' /\ Settled' => Settled
         /\ Settled => Settled'
         /\ OnePending'
         /\ \A i \in DOMAIN queue' : ByUser(queue'[i]) => \E j \in DOMAIN queue : queue[j] = queue'[i]
<1>1. /\ queue \in Seq(Call) /\ Len(queue) <= QueueMax /\ lost \in BOOLEAN
      /\ \A i, j \in DOMAIN queue : ByUser(queue[i]) /\ ByUser(queue[j]) => i = j
      /\ DOMAIN queue = 1..Len(queue) /\ Len(queue) \in Nat
  BY DEF Shape, ChannelsTypeOK, OnePending
<1>2. PICK k \in {0, 1} :
        /\ \A i \in DOMAIN queue' : i # Len(queue') => i + k \in DOMAIN queue /\ queue'[i] = queue[i + k]
        /\ \A i \in DOMAIN queue : i > k => i - k \in DOMAIN queue' /\ queue'[i - k] = queue[i]
        /\ lost' = (lost \/ (k = 1 /\ ByUser(queue[1])))
        /\ k = 1 => 1 \in DOMAIN queue
  BY <1>1, Queued
<1>3. /\ queue' \in Seq(Call) /\ Len(queue') <= QueueMax /\ lost' \in BOOLEAN
      /\ DOMAIN queue' = 1..Len(queue') /\ Len(queue') \in Nat /\ queue'[Len(queue')] = c
  BY <1>1, Queued
<1>4. \A i \in DOMAIN queue' : ByUser(queue'[i]) => i + k \in DOMAIN queue /\ queue'[i] = queue[i + k]
  BY <1>2, <1>3
<1>5. ~lost' /\ Settled' => Settled
  <2> SUFFICES ASSUME ~lost', Settled', NEW i \in DOMAIN queue, ByUser(queue[i]) PROVE FALSE
    BY DEF Settled
  <2>1. \A j \in DOMAIN queue' : ~ByUser(queue'[j])
    BY DEF Settled
  <2>2. CASE i > k
    BY <1>2, <2>1, <2>2
  <2>3. CASE ~(i > k)
    <3>1. i = 1 /\ k = 1
      BY <1>1, <2>3
    <3> QED
      BY <1>2, <3>1
  <2> QED
    BY <2>2, <2>3
<1>6. Settled => Settled'
  BY <1>4 DEF Settled
<1>7. OnePending'
  <2> SUFFICES ASSUME NEW i \in DOMAIN queue', NEW j \in DOMAIN queue', ByUser(queue'[i]), ByUser(queue'[j])
               PROVE  i = j
    BY DEF OnePending
  <2>1. i + k = j + k
    BY <1>1, <1>4
  <2> QED
    BY <2>1, <1>3
<1>8. ~lost' => ~lost
  BY <1>2
<1> QED
  BY <1>3, <1>4, <1>5, <1>6, <1>7, <1>8

LEMMA Reports ==
  ASSUME Shape, NEW c \in Call, ~ByUser(c), QueueUpdateDraw(c)
  PROVE  /\ queue' \in Seq(Call) /\ Len(queue') <= QueueMax /\ lost' \in BOOLEAN
         /\ ~lost' => ~lost
         /\ ~lost' /\ Settled' => Settled
         /\ Settled => Settled'
         /\ OnePending'
         /\ \A i \in DOMAIN queue' : ByUser(queue'[i]) => \E j \in DOMAIN queue : queue[j] = queue'[i]
<1>1. queue \in Seq(Call) /\ Len(queue) <= QueueMax /\ lost \in BOOLEAN /\ OnePending
  BY DEF Shape, ChannelsTypeOK
<1>2. CASE Crowded(c)
  <2>1. queue' = queue /\ lost' = lost
    BY <1>1, <1>2 DEF Crowded
  <2> QED
    BY <1>1, <2>1 DEF OnePending, Settled
<1> QED
  BY <1>2, ReportsSent DEF QueueUpdateDraw

\* The next call has run.
LEMMA Taken ==
  ASSUME Shape, queue # <<>>, queue' = Tail(queue)
  PROVE  /\ Head(queue) \in Call /\ Head(queue) = queue[1] /\ 1 \in DOMAIN queue
         /\ queue' \in Seq(Call) /\ Len(queue') <= QueueMax
         /\ OnePending'
         /\ Settled => Settled'
         /\ ByUser(Head(queue)) => Settled'
         /\ ~ByUser(Head(queue)) /\ Settled' => Settled
         /\ \A i \in DOMAIN queue' : i + 1 \in DOMAIN queue /\ queue'[i] = queue[i + 1]
<1>1. /\ queue \in Seq(Call) /\ Len(queue) <= QueueMax /\ QueueMax \in Nat
      /\ \A i, j \in DOMAIN queue : ByUser(queue[i]) /\ ByUser(queue[j]) => i = j
      /\ DOMAIN queue = 1..Len(queue) /\ Len(queue) \in Nat
  BY QueueMaxAssumption DEF Shape, ChannelsTypeOK, OnePending
<1>2. /\ Head(queue) \in Call /\ Head(queue) = queue[1] /\ 1 \in DOMAIN queue
      /\ queue' \in Seq(Call) /\ Len(queue') = Len(queue) - 1 /\ DOMAIN queue' = 1..Len(queue)-1
  BY <1>1
<1>3. \A i \in DOMAIN queue' : i + 1 \in DOMAIN queue /\ queue'[i] = queue[i + 1]
  BY <1>1, <1>2
<1>4. \A i \in DOMAIN queue : i # 1 => i - 1 \in DOMAIN queue' /\ queue'[i - 1] = queue[i]
  <2> SUFFICES ASSUME NEW i \in DOMAIN queue, i # 1
               PROVE  i - 1 \in DOMAIN queue' /\ queue'[i - 1] = queue[i]
    OBVIOUS
  <2>1. i - 1 \in DOMAIN queue' /\ (i - 1) + 1 = i
    BY <1>1, <1>2
  <2> QED
    BY <2>1, <1>3
<1>5. OnePending'
  <2> SUFFICES ASSUME NEW i \in DOMAIN queue', NEW j \in DOMAIN queue', ByUser(queue'[i]), ByUser(queue'[j])
               PROVE  i = j
    BY DEF OnePending
  <2>1. i + 1 = j + 1
    BY <1>1, <1>3
  <2> QED
    BY <2>1, <1>2
<1>6. Settled => Settled'
  BY <1>3 DEF Settled
<1>7. ByUser(Head(queue)) => Settled'
  <2> SUFFICES ASSUME ByUser(queue[1]), NEW i \in DOMAIN queue', ByUser(queue'[i]) PROVE FALSE
    BY <1>2 DEF Settled
  <2>1. i + 1 = 1 /\ i \in 1..Len(queue)-1
    BY <1>1, <1>2, <1>3
  <2> QED
    BY <2>1
<1>8. ~ByUser(Head(queue)) /\ Settled' => Settled
  BY <1>2, <1>4 DEF Settled
<1>9. Len(queue') <= QueueMax
  BY <1>1, <1>2
<1> QED
  BY <1>2, <1>3, <1>5, <1>6, <1>7, <1>8, <1>9

-----------------------------------------------------------------------------
(***************************************************************************)
(* What the methods of the page make of it.                                *)
(***************************************************************************)

\* The manager's list, as its types describe it.
ListOK == hubs \in Seq(Hubs) /\ Len(hubs) <= AddMax /\ rooms \in [Hubs -> SUBSET Rooms]

LEMMA RowsTypes ==
  ASSUME NEW d \in Page, Fits(d), NEW i \in DOMAIN d.views
  PROVE  i \in 1..AddMax /\ HubRow(i) \in d.rows /\ HubRow(i) \in Row /\ d.views[i] \in Hubs
<1>1. d.rows \in SUBSET Row /\ d.views \in Seq(Hubs)
  BY DEF Page
<1>2. HubRow(i) \in d.rows
  BY DEF Fits
<1>3. HubRow(i) \in Row
  BY <1>1, <1>2
<1>4. HubRow(i).at = i /\ HubRow(i).at \in 1..AddMax
  BY <1>3 DEF HubRow, Row
<1>5. d.views[i] \in Hubs
  BY <1>1
<1> QED
  BY <1>2, <1>3, <1>4, <1>5

LEMMA SelectRowFacts ==
  ASSUME NEW d \in Page, NEW key, Fits(d)
  PROVE  /\ SelectRow(d, key) \in Page /\ Fits(SelectRow(d, key))
         /\ SelectRow(d, key) = [d EXCEPT !.cursor = SelectRow(d, key).cursor]
<1>1. CASE key \in d.rows
  <2>1. SelectRow(d, key) = [d EXCEPT !.cursor = key]
    BY <1>1 DEF SelectRow
  <2>2. key \in Row
    BY <1>1 DEF Page
  <2> QED
    BY <1>1, <2>1, <2>2 DEF Page, Fits
<1>2. CASE key \notin d.rows
  <2>1. SelectRow(d, key) = d
    BY <1>2 DEF SelectRow
  <2>2. d = [d EXCEPT !.cursor = d.cursor]
    BY DEF Page
  <2> QED
    BY <2>1, <2>2
<1> QED
  BY <1>1, <1>2

LEMMA ListComposed ==
  ASSUME ListOK
  PROVE  /\ ComposeHubList \in SUBSET Row
         /\ FirstRow \in ComposeHubList \cup {NoRow} /\ FirstRow \in Row \cup {NoRow}
         /\ \A i \in DOMAIN hubs : HubRow(i) \in ComposeHubList
         /\ \A row \in ComposeHubList : row.at \in DOMAIN hubs
<1>1. DOMAIN hubs = 1..Len(hubs) /\ Len(hubs) \in Nat /\ \A i \in DOMAIN hubs : hubs[i] \in Hubs
  BY DEF ListOK
<1>2. \A i \in DOMAIN hubs : i \in 1..AddMax /\ rooms[hubs[i]] \in SUBSET Rooms
  BY <1>1, AddMaxAssumption DEF ListOK
<1>3. \A i \in DOMAIN hubs : HubRow(i) \in Row /\ HubRow(i).at = i
  BY <1>2 DEF HubRow, Row
<1>4. \A i \in DOMAIN hubs : \A room \in rooms[hubs[i]] : RoomRow(i, room) \in Row /\ RoomRow(i, room).at = i
  BY <1>2 DEF RoomRow, Row
<1>5. ComposeHubList \in SUBSET Row
  BY <1>3, <1>4 DEF ComposeHubList
<1>6. \A row \in ComposeHubList : row.at \in DOMAIN hubs
  BY <1>3, <1>4 DEF ComposeHubList
<1>7. \A i \in DOMAIN hubs : HubRow(i) \in ComposeHubList
  BY DEF ComposeHubList
<1>8. FirstRow \in ComposeHubList \cup {NoRow}
  <2>1. CASE hubs = <<>>
    BY <2>1 DEF FirstRow
  <2>2. CASE hubs # <<>>
    <3>1. 1 \in DOMAIN hubs
      BY <1>1, <2>2 DEF ListOK
    <3> QED
      BY <1>7, <2>2, <3>1 DEF FirstRow
  <2> QED
    BY <2>1, <2>2
<1> QED
  BY <1>5, <1>6, <1>7, <1>8

\* SetHubs reads the list and leaves the pane alone.
LEMMA SetHubsFacts ==
  ASSUME ListOK, NEW d \in Page
  PROVE  /\ SetHubs(d) \in Page /\ Fits(SetHubs(d)) /\ SetHubs(d).views = hubs
         /\ SetHubs(d).pane = d.pane /\ SetHubs(d).at = d.at /\ SetHubs(d).room = d.room
         /\ SetHubs(d).widget = d.widget /\ SetHubs(d).shown = d.shown
<1> DEFINE e == [d EXCEPT !.views = hubs, !.rows = ComposeHubList, !.cursor = FirstRow]
<1>1. e \in Page
  BY ListComposed DEF Page, ListOK
<1>2. /\ e.views = hubs /\ e.rows = ComposeHubList /\ e.cursor = FirstRow
      /\ e.pane = d.pane /\ e.at = d.at /\ e.room = d.room /\ e.widget = d.widget /\ e.shown = d.shown
  BY DEF Page
<1>3. Fits(e)
  BY <1>2, ListComposed DEF Fits
<1> HIDE DEF e
<1>4. /\ SelectRow(e, d.cursor) \in Page /\ Fits(SelectRow(e, d.cursor))
      /\ SelectRow(e, d.cursor) = [e EXCEPT !.cursor = SelectRow(e, d.cursor).cursor]
  BY <1>1, <1>3, SelectRowFacts
<1>5. SetHubs(d) = SelectRow(e, d.cursor)
  BY DEF SetHubs, e
<1> DEFINE f == SelectRow(e, d.cursor)
<1>6. f = [e EXCEPT !.cursor = f.cursor]
  BY <1>4
<1> HIDE DEF f
<1>7. /\ f.views = e.views /\ f.pane = e.pane /\ f.at = e.at /\ f.room = e.room
      /\ f.widget = e.widget /\ f.shown = e.shown
  BY <1>1, <1>6 DEF Page
<1> QED
  BY <1>2, <1>4, <1>5, <1>7 DEF f

\* ShowHubInfo puts a hub of the list in the pane.
LEMMA ShowHubInfoFacts ==
  ASSUME NEW d \in Page, Fits(d), NEW i
  PROVE  /\ ShowHubInfo(d, i) \in Page /\ Fits(ShowHubInfo(d, i)) /\ ShowHubInfo(d, i).views = d.views
         /\ i \in DOMAIN d.views => ShowHubInfo(d, i).pane = "info"
         /\ i \notin DOMAIN d.views => ShowHubInfo(d, i) = d
         /\ ShowHubInfo(d, i).at = d.at /\ ShowHubInfo(d, i).room = d.room
         /\ ShowHubInfo(d, i).widget = d.widget /\ ShowHubInfo(d, i).shown = d.shown
<1>1. CASE i \notin DOMAIN d.views
  <2>1. ShowHubInfo(d, i) = d
    BY <1>1 DEF ShowHubInfo
  <2> QED
    BY <1>1, <2>1
<1>2. CASE i \in DOMAIN d.views
  <2> DEFINE o == IF d.opens = 0 THEN i ELSE d.opens
             e == [d EXCEPT !.pane = "info", !.info = d.views[i], !.opens = o]
             f == SelectRow(e, HubRow(i))
  <2>1. i \in 1..AddMax /\ HubRow(i) \in d.rows /\ d.views[i] \in Hubs
    BY <1>2, RowsTypes
  <2>2. ShowHubInfo(d, i) = f
    BY <1>2, <2>1 DEF ShowHubInfo
  <2>a. o \in 0..AddMax
    <3>1. d.opens \in 0..AddMax
      BY DEF Page
    <3> QED
      BY <2>1, <3>1, AddMaxAssumption
  <2> HIDE DEF o
  <2>3. e \in Page
    BY <2>1, <2>a DEF Page
  <2>4. /\ e.views = d.views /\ e.rows = d.rows /\ e.cursor = d.cursor /\ e.pane = "info"
        /\ e.at = d.at /\ e.room = d.room /\ e.widget = d.widget /\ e.shown = d.shown
    BY DEF Page
  <2>5. Fits(e)
    BY <2>4 DEF Fits
  <2> HIDE DEF e
  <2>6. f \in Page /\ Fits(f) /\ f = [e EXCEPT !.cursor = f.cursor]
    BY <2>3, <2>5, SelectRowFacts
  <2> HIDE DEF f
  <2>7. /\ f.views = e.views /\ f.pane = e.pane /\ f.at = e.at /\ f.room = e.room
        /\ f.widget = e.widget /\ f.shown = e.shown
    BY <2>3, <2>6 DEF Page
  <2> QED
    BY <1>2, <2>2, <2>4, <2>6, <2>7
<1> QED
  BY <1>1, <1>2

\* ShowRoom puts a room in it, with its messages and under its header.
LEMMA ShowRoomFacts ==
  ASSUME NEW d \in Page, Fits(d), NEW i, NEW room \in Rooms \cup {NoRoom}, NEW messages \in Place
  PROVE  /\ ShowRoom(d, i, room, messages) \in Page /\ Fits(ShowRoom(d, i, room, messages))
         /\ ShowRoom(d, i, room, messages).views = d.views
         /\ i \notin DOMAIN d.views => ShowRoom(d, i, room, messages) = d
         /\ i \in DOMAIN d.views =>
              /\ ShowRoom(d, i, room, messages).at = i
              /\ ShowRoom(d, i, room, messages).room = room
              /\ ShowRoom(d, i, room, messages).widget = [hub |-> d.views[i], room |-> room]
              /\ ShowRoom(d, i, room, messages).shown = messages
<1>1. CASE i \notin DOMAIN d.views
  <2>1. ShowRoom(d, i, room, messages) = d
    BY <1>1 DEF ShowRoom
  <2> QED
    BY <1>1, <2>1
<1>2. CASE i \in DOMAIN d.views
  <2> DEFINE w == [hub |-> d.views[i], room |-> room]
             e == [d EXCEPT !.pane = "room", !.at = i, !.room = room, !.widget = w, !.shown = messages]
             f == SelectRow(e, RoomRow(i, room))
  <2>1. i \in 1..AddMax /\ d.views[i] \in Hubs
    BY <1>2, RowsTypes
  <2>2. w \in Place
    BY <2>1 DEF Place
  <2>3. ShowRoom(d, i, room, messages) = f
    BY <1>2 DEF ShowRoom
  <2> HIDE DEF w
  <2>4. e \in Page
    BY <2>1, <2>2 DEF Page
  <2>5. /\ e.views = d.views /\ e.rows = d.rows /\ e.cursor = d.cursor
        /\ e.at = i /\ e.room = room /\ e.widget = w /\ e.shown = messages
    BY DEF Page
  <2>6. Fits(e)
    BY <2>5 DEF Fits
  <2> HIDE DEF e
  <2>7. f \in Page /\ Fits(f) /\ f = [e EXCEPT !.cursor = f.cursor]
    BY <2>4, <2>6, SelectRowFacts
  <2> HIDE DEF f
  <2>8. /\ f.views = e.views /\ f.at = e.at /\ f.room = e.room
        /\ f.widget = e.widget /\ f.shown = e.shown
    BY <2>4, <2>7 DEF Page
  <2> QED
    BY <1>2, <2>3, <2>5, <2>7, <2>8 DEF w
<1> QED
  BY <1>1, <1>2

LEMMA ShowRoomShape ==
  ASSUME NEW d \in Page, Fits(d), NEW i, NEW room \in Rooms \cup {NoRoom}, NEW messages \in Place,
         NEW e, e = ShowRoom(d, i, room, messages)
  PROVE  e \in Page /\ Fits(e)
BY ShowRoomFacts

\* The refreshes read the list and the messages, and leave the pane alone.
RefreshedFrom(e, d) ==
  /\ e \in Page /\ Fits(e) /\ e.views = hubs
  /\ e.pane = d.pane /\ e.at = d.at /\ e.room = d.room /\ e.widget = d.widget
  /\ e.shown \in {d.shown, [hub |-> HubAt(hubs, d.at), room |-> d.room]}

LEMMA RefreshRoomFacts ==
  ASSUME ListOK, NEW d \in Page, NEW e \in Page, Fits(e), e.views = hubs,
         e.pane = d.pane, e.at = d.at, e.room = d.room, e.widget = d.widget, e.shown = d.shown
  PROVE  RefreshedFrom(RefreshRoomIfVisible(e), d)
<1> DEFINE new == [hub |-> HubAt(hubs, e.at), room |-> e.room]
<1>1. HubAt(hubs, e.at) \in Hubs \cup {NoHub}
  BY HubsAt DEF ListOK
<1>2. new \in Place
  BY <1>1 DEF Place, Page
<1> DEFINE f == [e EXCEPT !.shown = new]
<1>3. RefreshRoomIfVisible(e) \in {e, f}
  BY DEF RefreshRoomIfVisible
<1>4. new = [hub |-> HubAt(hubs, d.at), room |-> d.room]
  OBVIOUS
<1> HIDE DEF new
<1>5. /\ f \in Page /\ f.views = e.views /\ f.rows = e.rows /\ f.cursor = e.cursor
      /\ f.pane = e.pane /\ f.at = e.at /\ f.room = e.room /\ f.widget = e.widget /\ f.shown = new
  BY <1>2 DEF Page
<1> HIDE DEF f
<1>6. Fits(f)
  BY <1>5 DEF Fits
<1> QED
  BY <1>3, <1>4, <1>5, <1>6 DEF RefreshedFrom

LEMMA refreshFacts ==
  ASSUME ListOK, NEW d \in Page
  PROVE  /\ RefreshedFrom(refreshChannels(d), d)
         /\ RefreshedFrom(RefreshRoomIfVisible(SetHubs(d)), d)
<1> DEFINE e == SetHubs(d)
           f == RefreshHubInfoIfVisible(e)
<1>1. /\ e \in Page /\ Fits(e) /\ e.views = hubs
      /\ e.pane = d.pane /\ e.at = d.at /\ e.room = d.room /\ e.widget = d.widget /\ e.shown = d.shown
  BY SetHubsFacts
<1> HIDE DEF e
<1>2. /\ f \in Page /\ Fits(f) /\ f.views = e.views
      /\ f.pane = e.pane /\ f.at = e.at /\ f.room = e.room /\ f.widget = e.widget /\ f.shown = e.shown
  <2>1. CASE e.pane = "info" /\ e.at \in DOMAIN e.views
    <3>1. f = ShowHubInfo(e, e.at)
      BY <2>1 DEF RefreshHubInfoIfVisible
    <3> QED
      BY <1>1, <2>1, <3>1, ShowHubInfoFacts
  <2>2. CASE ~(e.pane = "info" /\ e.at \in DOMAIN e.views)
    <3>1. f = e
      BY <2>2 DEF RefreshHubInfoIfVisible
    <3> QED
      BY <1>1, <3>1
  <2> QED
    BY <2>1, <2>2
<1>3. RefreshedFrom(RefreshRoomIfVisible(e), d)
  BY <1>1, RefreshRoomFacts
<1> HIDE DEF f
<1>4. RefreshedFrom(RefreshRoomIfVisible(f), d)
  BY <1>1, <1>2, RefreshRoomFacts
<1> QED
  BY <1>3, <1>4 DEF refreshChannels, e, f

-----------------------------------------------------------------------------
(***************************************************************************)
(* What a call of the queue makes of the page.                             *)
(***************************************************************************)

LEMMA ShapeFacts ==
  ASSUME Shape
  PROVE  /\ ListOK /\ page \in Page /\ Fits(page) /\ active \in Place
         /\ \A h \in Hubs \cup {NoHub} : IndexFor(hubs, h) \in 0..AddMax
<1>1. ListOK /\ page \in Page /\ Fits(page) /\ active \in Place
  BY DEF Shape, ChannelsTypeOK, ListOK
<1>2. ASSUME NEW h \in Hubs \cup {NoHub} PROVE IndexFor(hubs, h) \in 0..AddMax
  <2>1. hubs \in Seq(Hubs) /\ Len(hubs) <= AddMax /\ Len(hubs) \in Nat
    BY <1>1 DEF ListOK
  <2>2. IndexFor(hubs, h) \in 0..Len(hubs)
    BY <2>1, PlaceOf
  <2> QED
    BY <2>1, <2>2, AddMaxAssumption
<1> QED
  BY <1>1, <1>2

LEMMA EffectShape ==
  ASSUME Shape, NEW c \in Call
  PROVE  Effect(c, page) \in Page /\ Fits(Effect(c, page))
<1> DEFINE whose(room) == [hub |-> c.hub, room |-> room]
<1>b. page \in Page /\ Fits(page) /\ ListOK /\ active \in Place
  BY ShapeFacts
<1>1. c.call \in CallNames /\ c.room \in Rooms \cup {NoRoom}
  BY DEF Call
<1>a. \A room \in Rooms \cup {NoRoom} : whose(room) \in Place
  BY DEF Call, Place
<1>2. RefreshedFrom(refreshChannels(page), page) /\ RefreshedFrom(RefreshRoomIfVisible(SetHubs(page)), page)
  BY <1>b, refreshFacts
<1>3. SetHubs(page) \in Page /\ Fits(SetHubs(page))
  BY <1>b, SetHubsFacts
<1>4. CASE c.call = "refresh"
  BY <1>2, <1>4 DEF Effect, RefreshedFrom
<1>5. CASE c.call = "message"
  BY <1>2, <1>5 DEF Effect, RefreshedFrom
<1>6. CASE c.call = "list"
  BY <1>3, <1>6 DEF Effect
<1>7. CASE c.call = "info"
  BY <1>7, <1>b, ShowHubInfoFacts DEF Effect
<1>8. CASE c.call = "room"
  <2>1. Effect(c, page) = ShowRoom(page, c.at, c.room, whose(c.room))
    BY <1>8 DEF Effect
  <2> HIDE DEF whose
  <2> QED
    BY <1>1, <1>a, <1>b, <2>1, ShowRoomShape
<1>9. CASE c.call = "roomOf"
  <2>1. Effect(c, page) = ShowRoom(page, IndexFor(hubs, c.hub), c.room, whose(c.room))
    BY <1>9 DEF Effect
  <2> HIDE DEF whose
  <2> QED
    BY <1>1, <1>a, <1>b, <2>1, ShowRoomShape
<1>10. CASE c.call = "noteOf"
  <2> DEFINE room == IF c.room = NoRoom THEN active.room ELSE c.room
  <2>1. Effect(c, page) = ShowRoom(page, IndexFor(hubs, c.hub), room, whose(room))
    BY <1>10 DEF Effect
  <2>2. room \in Rooms \cup {NoRoom}
    BY <1>1, <1>b DEF Place
  <2> HIDE DEF room, whose
  <2> QED
    BY <1>a, <1>b, <2>1, <2>2, ShowRoomShape
<1>11. CASE c.call = "listRoomOf"
  <2>1. Effect(c, page) = ShowRoom(SetHubs(page), IndexFor(hubs, c.hub), c.room, whose(c.room))
    BY <1>11 DEF Effect
  <2> HIDE DEF whose
  <2> QED
    BY <1>1, <1>3, <1>a, <2>1, ShowRoomShape
<1>12. CASE c.call = "removed"
  <2> DEFINE e == refreshChannels(page)
  <2>1. Effect(c, page) = [e EXCEPT !.pane = ""]
    BY <1>12 DEF Effect, ShowPlaceholder
  <2>2. e \in Page /\ Fits(e)
    BY <1>2 DEF RefreshedFrom
  <2> HIDE DEF e
  <2>3. /\ [e EXCEPT !.pane = ""] \in Page
        /\ [e EXCEPT !.pane = ""].views = e.views /\ [e EXCEPT !.pane = ""].rows = e.rows
        /\ [e EXCEPT !.pane = ""].cursor = e.cursor
    BY <2>2 DEF Page
  <2> QED
    BY <2>1, <2>2, <2>3 DEF Fits
<1>13. CASE c.call = "edited"
  <2> DEFINE e == refreshChannels(page)
  <2>1. Effect(c, page) \in {e, ShowHubInfo(e, c.at)}
    BY <1>13 DEF Effect
  <2>2. e \in Page /\ Fits(e)
    BY <1>2 DEF RefreshedFrom
  <2> HIDE DEF e
  <2> QED
    BY <2>1, <2>2, ShowHubInfoFacts
<1> QED
  BY <1>1, <1>4, <1>5, <1>6, <1>7, <1>8, <1>9, <1>10, <1>11, <1>12, <1>13 DEF CallNames

\* The messages a refresh puts under the header are those of the header's room.
LEMMA RefreshKeeps ==
  ASSUME Shape, NEW e, RefreshedFrom(e, page)
  PROVE  /\ RoomInView(page) => RoomInView(e)
         /\ \A c \in Call : Leads(c, page) => Leads(c, e)
<1>1. RoomInView(page) => RoomInView(e)
  <2> SUFFICES ASSUME RoomInView(page), e.pane = "room" PROVE RoomInView(e)
    BY DEF RoomInView
  <2>1. /\ page.pane = "room" /\ e.at = page.at /\ e.room = page.room /\ e.widget = page.widget
        /\ e.shown \in {page.shown, [hub |-> HubAt(hubs, page.at), room |-> page.room]}
    BY DEF RefreshedFrom
  <2>2. /\ page.at \in DOMAIN hubs /\ hubs[page.at] = page.widget.hub /\ page.room = page.widget.room
        /\ page.room # NoRoom => page.shown = page.widget
        /\ active.room # NoRoom => active = page.widget
        /\ active.hub \in ToSet(hubs)
    BY <2>1 DEF RoomInView
  <2>3. page.widget = [hub |-> page.widget.hub, room |-> page.widget.room]
    BY ShapeFacts DEF Page, Place
  <2>4. [hub |-> HubAt(hubs, page.at), room |-> page.room] = page.widget
    BY <2>2, <2>3 DEF HubAt
  <2> QED
    BY <2>1, <2>2, <2>4 DEF RoomInView
<1>2. e.views = hubs /\ e.pane = page.pane /\ e.widget = page.widget
  BY DEF RefreshedFrom
<1> QED
  BY <1>1, <1>2 DEF Leads

\* A room shown at the place of its hub is in view.
LEMMA ShownInView ==
  ASSUME Shape, NEW d \in Page, Fits(d), d.views = hubs,
         NEW i \in DOMAIN hubs, NEW room \in Rooms \cup {NoRoom},
         active.hub = hubs[i], active.room # NoRoom => active.room = room
  PROVE  LET e == ShowRoom(d, i, room, [hub |-> hubs[i], room |-> room])
         IN  e.views = hubs /\ RoomInView(e)
<1> DEFINE w == [hub |-> hubs[i], room |-> room]
           e == ShowRoom(d, i, room, w)
<1>1. hubs[i] \in Hubs /\ hubs[i] \in ToSet(hubs) /\ active \in Place
  BY ShapeFacts, HubsAt DEF ListOK
<1>2. w \in Place /\ w.hub = hubs[i] /\ w.room = room
  BY <1>1 DEF Place
<1>3. active = [hub |-> active.hub, room |-> active.room]
  BY <1>1 DEF Place
<1>4. active.room # NoRoom => active = w
  BY <1>3
<1> HIDE DEF w
<1>5. e.views = hubs /\ e.at = i /\ e.room = room /\ e.widget = [hub |-> hubs[i], room |-> room] /\ e.shown = w
  BY <1>2, ShowRoomFacts
<1>6. e.widget = w
  BY <1>5 DEF w
<1> HIDE DEF e
<1>7. RoomInView(e)
  BY <1>1, <1>2, <1>4, <1>5, <1>6 DEF RoomInView
<1> QED
  BY <1>5, <1>7 DEF e, w

\* A call of the user's leaves the page right.
LEMMA CallDraws ==
  ASSUME Shape, NEW c \in Call, ByUser(c), Leads(c, page)
  PROVE  Effect(c, page).views = hubs /\ RoomInView(Effect(c, page))
<1> USE ShapeFacts
<1>1. /\ c.call \in {"list", "info", "room", "roomOf", "noteOf", "listRoomOf", "removed", "edited"}
      /\ c.room \in Rooms \cup {NoRoom} /\ c.hub \in Hubs \cup {NoHub}
  BY DEF Call, CallNames, ByUser
<1>2. RefreshedFrom(refreshChannels(page), page)
  BY refreshFacts
<1>3. /\ SetHubs(page) \in Page /\ Fits(SetHubs(page)) /\ SetHubs(page).views = hubs
      /\ SetHubs(page).pane = page.pane /\ SetHubs(page).at = page.at /\ SetHubs(page).room = page.room
      /\ SetHubs(page).widget = page.widget /\ SetHubs(page).shown = page.shown
  BY SetHubsFacts
<1>4. hubs \in Seq(Hubs)
  BY DEF ListOK
<1>5. CASE c.call = "list"
  <2>1. Effect(c, page) = SetHubs(page) /\ RoomInView(page)
    BY <1>5 DEF Effect, Leads
  <2> QED
    BY <1>3, <2>1 DEF RoomInView
<1>6. CASE c.call = "info"
  <2>1. Effect(c, page) = ShowHubInfo(page, c.at) /\ page.views = hubs /\ c.at \in DOMAIN hubs
    BY <1>6 DEF Effect, Leads
  <2>2. ShowHubInfo(page, c.at).pane = "info" /\ ShowHubInfo(page, c.at).views = hubs
    BY <2>1, ShowHubInfoFacts
  <2> QED
    BY <2>1, <2>2 DEF RoomInView
<1>7. CASE c.call = "room"
  <2>1. /\ Effect(c, page) = ShowRoom(page, c.at, c.room, [hub |-> c.hub, room |-> c.room])
        /\ page.views = hubs /\ c.at \in DOMAIN hubs /\ c.hub = hubs[c.at]
        /\ active = [hub |-> c.hub, room |-> c.room]
    BY <1>7 DEF Effect, Leads
  <2>2. active.hub = hubs[c.at] /\ active.room = c.room
    BY <2>1
  <2> QED
    BY <1>1, <2>1, <2>2, ShownInView
<1>8. CASE c.call = "roomOf"
  <2> DEFINE i == IndexFor(hubs, c.hub)
  <2>1. /\ Effect(c, page) = ShowRoom(page, i, c.room, [hub |-> c.hub, room |-> c.room])
        /\ page.views = hubs /\ RoomInView(page) /\ page.pane = "room" /\ c.hub = active.hub /\ c.room = active.room
    BY <1>8 DEF Effect, Leads
  <2>2. i \in DOMAIN hubs /\ hubs[i] = c.hub
    BY <1>1, <1>4, <2>1, PlaceOf DEF RoomInView
  <2> HIDE DEF i
  <2> QED
    BY <1>1, <2>1, <2>2, ShownInView
<1>9. CASE c.call = "noteOf"
  <2> DEFINE i == IndexFor(hubs, c.hub)
             room == IF c.room = NoRoom THEN active.room ELSE c.room
  <2>1. /\ Effect(c, page) = ShowRoom(page, i, room, [hub |-> c.hub, room |-> room])
        /\ page.views = hubs /\ RoomInView(page) /\ page.pane = "room" /\ c.hub = active.hub
        /\ c.room = page.widget.room
    BY <1>9 DEF Effect, Leads
  <2>2. i \in DOMAIN hubs /\ hubs[i] = c.hub
    BY <1>1, <1>4, <2>1, PlaceOf DEF RoomInView
  <2>3. active.room # NoRoom => active.room = room
    BY <2>1 DEF RoomInView
  <2>4. room \in Rooms \cup {NoRoom}
    BY <1>1 DEF Place
  <2> HIDE DEF i, room
  <2> QED
    BY <2>1, <2>2, <2>3, <2>4, ShownInView
<1>10. CASE c.call = "listRoomOf"
  <2> DEFINE i == IndexFor(hubs, c.hub)
             e == SetHubs(page)
  <2>1. /\ Effect(c, page) = ShowRoom(e, i, c.room, [hub |-> c.hub, room |-> c.room])
        /\ active = [hub |-> c.hub, room |-> c.room]
        /\ c.hub \in ToSet(hubs) \/ page.pane # "room"
    BY <1>10 DEF Effect, Leads
  <2>2. active.hub = c.hub /\ active.room = c.room
    BY <2>1
  <2>3. CASE c.hub \in ToSet(hubs)
    <3>1. i \in DOMAIN hubs /\ hubs[i] = c.hub
      BY <1>1, <1>4, <2>3, PlaceOf
    <3> HIDE DEF i, e
    <3>2. e \in Page /\ Fits(e) /\ e.views = hubs
      BY <1>3 DEF e
    <3> QED
      BY <1>1, <2>1, <2>2, <3>1, <3>2, ShownInView
  <2>4. CASE c.hub \notin ToSet(hubs)
    <3>1. i \notin DOMAIN hubs
      BY <1>1, <1>4, <2>4, PlaceOf
    <3>2. ShowRoom(e, i, c.room, [hub |-> c.hub, room |-> c.room]) = e
      BY <1>3, <3>1 DEF ShowRoom
    <3> QED
      BY <1>3, <2>1, <2>4, <3>2 DEF RoomInView
  <2> QED
    BY <2>3, <2>4
<1>11. CASE c.call = "removed"
  <2> DEFINE e == refreshChannels(page)
  <2>1. Effect(c, page) = [e EXCEPT !.pane = ""] /\ e \in Page /\ e.views = hubs
    BY <1>2, <1>11 DEF Effect, ShowPlaceholder, RefreshedFrom
  <2> HIDE DEF e
  <2>2. [e EXCEPT !.pane = ""].views = hubs /\ [e EXCEPT !.pane = ""].pane = ""
    BY <2>1 DEF Page
  <2> QED
    BY <2>1, <2>2 DEF RoomInView
<1>12. CASE c.call = "edited"
  <2> DEFINE e == refreshChannels(page)
  <2>1. Effect(c, page) \in {e, ShowHubInfo(e, c.at)} /\ RoomInView(page)
    BY <1>12 DEF Effect, Leads
  <2>2. e \in Page /\ Fits(e) /\ e.views = hubs
    BY <1>2 DEF RefreshedFrom
  <2>3. RoomInView(e)
    BY <1>2, <2>1, RefreshKeeps
  <2> HIDE DEF e
  <2>4. ShowHubInfo(e, c.at).views = hubs /\ RoomInView(ShowHubInfo(e, c.at))
    <3>1. CASE c.at \in DOMAIN e.views
      <4>1. ShowHubInfo(e, c.at).pane = "info" /\ ShowHubInfo(e, c.at).views = hubs
        BY <2>2, <3>1, ShowHubInfoFacts
      <4> QED
        BY <4>1 DEF RoomInView
    <3>2. CASE c.at \notin DOMAIN e.views
      <4>1. ShowHubInfo(e, c.at) = e
        BY <2>2, <3>2, ShowHubInfoFacts
      <4> QED
        BY <2>2, <2>3, <4>1
    <3> QED
      BY <3>1, <3>2
  <2> QED
    BY <2>1, <2>2, <2>3, <2>4
<1> QED
  BY <1>1, <1>5, <1>6, <1>7, <1>8, <1>9, <1>10, <1>11, <1>12

-----------------------------------------------------------------------------
(***************************************************************************)
(* The kinds of steps.                                                     *)
(***************************************************************************)

\* Everything but the queue.
StateOK ==
  /\ ListOK /\ connected \subseteq Hubs /\ active \in Place
  /\ page \in Page /\ Fits(page) /\ dialog \in Dialog
  /\ last.named \in Place /\ keys \in Nat /\ events \in Nat
QueueOK == queue \in Seq(Call) /\ Len(queue) <= QueueMax /\ lost \in BOOLEAN

LEMMA ShapeParts == Shape <=> StateOK /\ QueueOK /\ OnePending /\ DialogWaits
BY DEF Shape, ChannelsTypeOK, StateOK, QueueOK, ListOK, Fits

\* The fields that tell which room is in view.
SameView(d, e) ==
  /\ e.views = d.views /\ e.pane = d.pane /\ e.at = d.at /\ e.room = d.room
  /\ e.widget = d.widget /\ e.shown = d.shown

\* Nothing that the page shows has changed, nor what it shows it from.
LEMMA ViewStays ==
  ASSUME Shape, Right, UNCHANGED <<hubs, active>>, SameView(page, page')
  PROVE  /\ page.views = hubs /\ RoomInView(page) => (page.views = hubs /\ RoomInView(page))'
         /\ \A c \in Call : Leads(c, page) => Leads(c, page)'
<1>1. RoomInView(page) => RoomInView(page)'
  BY DEF RoomInView, SameView
<1> QED
  BY <1>1 DEF Leads, SameView

LEMMA Stays ==
  ASSUME ChannelsInv, UNCHANGED <<hubs, active, updateVars>>, SameView(page, page'), StateOK',
         dialog'.kind # "none" => Settled,
         Right => DialogNames' /\ NamedActs(last')
  PROVE  ChannelsInv'
<1>1. Shape /\ queue' = queue /\ lost' = lost
  BY DEF ChannelsInv, updateVars
<1>2. Shape'
  <2>1. QueueOK' /\ OnePending' /\ DialogWaits'
    BY <1>1, ShapeParts DEF QueueOK, OnePending, DialogWaits, Settled
  <2> QED
    BY <2>1, ShapeParts DEF Shape, ChannelsTypeOK, StateOK, QueueOK, ListOK, Fits
<1>3. ASSUME ~lost' PROVE Right'
  <2>1. Right
    BY <1>1, <1>3 DEF ChannelsInv
  <2>2. queue \in Seq(Call) /\ \A i \in DOMAIN queue : queue[i] \in Call
    BY <1>1 DEF Shape, ChannelsTypeOK
  <2>3. Drawn'
    BY <1>1, <2>1, <2>2, ViewStays DEF Right, Drawn, Settled
  <2> QED
    BY <2>1, <2>3 DEF Right
<1> QED
  BY <1>2, <1>3 DEF ChannelsInv

\* The user does something at once, without a call.
LEMMA Acts ==
  ASSUME ChannelsInv, Settled, UNCHANGED updateVars, StateOK', dialog'.kind = "none",
         Right => (page.views = hubs /\ RoomInView(page))' /\ NamedActs(last')
  PROVE  ChannelsInv'
<1>1. Shape /\ queue' = queue /\ lost' = lost
  BY DEF ChannelsInv, updateVars
<1>2. Shape'
  <2>1. QueueOK' /\ OnePending' /\ DialogWaits'
    BY <1>1, ShapeParts DEF QueueOK, OnePending, DialogWaits, Settled
  <2> QED
    BY <2>1, ShapeParts DEF Shape, ChannelsTypeOK, StateOK, QueueOK, ListOK, Fits
<1>3. ASSUME ~lost' PROVE Right'
  <2>1. Right
    BY <1>1, <1>3 DEF ChannelsInv
  <2>2. \A i \in DOMAIN queue' : ~ByUser(queue'[i])
    BY <1>1 DEF Settled
  <2> QED
    BY <2>1, <2>2 DEF Right, Drawn, DialogNames
<1> QED
  BY <1>2, <1>3 DEF ChannelsInv

\* The user asks for something and waits.
LEMMA AsksFor ==
  ASSUME ChannelsInv, Settled, NEW c \in Call, ByUser(c), QueueUpdateDraw(c),
         StateOK', dialog'.kind = "none",
         Right => Leads(c, page)' /\ NamedActs(last')
  PROVE  ChannelsInv'
<1>1. Shape
  BY DEF ChannelsInv
<1>2. /\ queue' \in Seq(Call) /\ Len(queue') <= QueueMax /\ lost' \in BOOLEAN
      /\ ~lost' => ~lost /\ ~Settled'
      /\ OnePending'
      /\ \A i \in DOMAIN queue' : ByUser(queue'[i]) => queue'[i] = c
  BY <1>1, Asks
<1>3. Shape'
  <2>1. QueueOK' /\ DialogWaits'
    BY <1>2 DEF QueueOK, DialogWaits
  <2> QED
    BY <1>2, <2>1 DEF Shape, ChannelsTypeOK, StateOK, QueueOK, ListOK, Fits
<1>4. ASSUME ~lost' PROVE Right'
  <2>1. Right
    BY <1>2, <1>4 DEF ChannelsInv
  <2>2. \A i \in DOMAIN queue' : ByUser(queue'[i]) => Leads(queue[i], page)'
    BY <1>2, <2>1
  <2>3. ~Settled'
    BY <1>2, <1>4
  <2>4. Drawn'
    BY <2>2, <2>3 DEF Drawn
  <2>5. DialogNames' /\ NamedActs(last')
    BY <2>1 DEF DialogNames
  <2> QED
    BY <2>4, <2>5 DEF Right
<1> QED
  BY <1>3, <1>4 DEF ChannelsInv

\* The worker reports something.
LEMMA ReportsOf ==
  ASSUME ChannelsInv, NEW c \in Call, ~ByUser(c), QueueUpdateDraw(c),
         UNCHANGED <<hubs, active, page, dialog, last>>, StateOK'
  PROVE  ChannelsInv'
<1>1. Shape /\ (DialogWaits /\ queue \in Seq(Call))
  BY DEF ChannelsInv, Shape, ChannelsTypeOK
<1>2. /\ queue' \in Seq(Call) /\ Len(queue') <= QueueMax /\ lost' \in BOOLEAN
      /\ ~lost' => ~lost
      /\ ~lost' /\ Settled' => Settled
      /\ Settled => Settled'
      /\ OnePending'
      /\ \A i \in DOMAIN queue' : ByUser(queue'[i]) => \E j \in DOMAIN queue : queue[j] = queue'[i]
  BY <1>1, Reports
<1>3. Shape'
  <2>1. QueueOK' /\ DialogWaits'
    BY <1>1, <1>2 DEF QueueOK, DialogWaits
  <2> QED
    BY <1>2, <2>1 DEF Shape, ChannelsTypeOK, StateOK, QueueOK, ListOK, Fits
<1>4. ASSUME ~lost' PROVE Right'
  <2>1. Right
    BY <1>2, <1>4 DEF ChannelsInv
  <2>2. /\ page.views = hubs /\ RoomInView(page) => (page.views = hubs /\ RoomInView(page))'
        /\ \A x \in Call : Leads(x, page) => Leads(x, page)'
    BY <1>1, <2>1, ViewStays DEF SameView
  <2>3. Settled' => (page.views = hubs /\ RoomInView(page))'
    BY <1>2, <1>4, <2>1, <2>2 DEF Right, Drawn
  <2>4. ASSUME NEW i \in DOMAIN queue', ByUser(queue'[i]) PROVE Leads(queue[i], page)'
    <3>1. PICK j \in DOMAIN queue : queue[j] = queue'[i]
      BY <1>2, <2>4
    <3>2. queue[j] \in Call /\ Leads(queue[j], page)
      BY <1>1, <2>1, <2>4, <3>1 DEF Right, Drawn
    <3> QED
      BY <2>2, <3>1, <3>2
  <2>5. Drawn'
    BY <2>3, <2>4 DEF Drawn
  <2> QED
    BY <2>1, <2>5 DEF Right, DialogNames
<1> QED
  BY <1>3, <1>4 DEF ChannelsInv

-----------------------------------------------------------------------------
(***************************************************************************)
(* The steps.                                                              *)
(***************************************************************************)

\* The types, as the steps use them.
LEMMA Typed ==
  ASSUME ChannelsInv
  PROVE  /\ Shape /\ StateOK /\ ListOK
         /\ hubs \in Seq(Hubs) /\ Len(hubs) <= AddMax /\ Len(hubs) \in Nat
         /\ rooms \in [Hubs -> SUBSET Rooms] /\ connected \subseteq Hubs /\ active \in Place
         /\ page \in Page /\ Fits(page) /\ dialog \in Dialog /\ last.named \in Place
         /\ keys \in Nat /\ events \in Nat
         /\ active.hub \in Hubs \cup {NoHub} /\ active.room \in Rooms \cup {NoRoom}
BY ShapeParts DEF ChannelsInv, StateOK, ListOK, Place

\* What the user may rely on once what he asked for has been drawn.
LEMMA Waited ==
  ASSUME Settled, Right
  PROVE  page.views = hubs /\ RoomInView(page) /\ DialogNames /\ NamedActs(last)
BY DEF Right, Drawn

LEMMA KeyCounted == ASSUME ChannelsInv, keys' = keys + 1 PROVE keys' \in Nat
BY Typed

LEMMA InitInv == ChannelsInit => ChannelsInv
<1> SUFFICES ASSUME ChannelsInit PROVE ChannelsInv
  OBVIOUS
<1>1. ListOK
  <2>1. hubs \in SeqOf(Hubs, AddMax) /\ rooms \in [Hubs -> SUBSET Rooms]
    BY DEF ChannelsInit
  <2>2. PICK n \in 0..AddMax : hubs \in [1..n -> Hubs]
    BY <2>1 DEF SeqOf
  <2>3. hubs \in Seq(Hubs) /\ Len(hubs) = n
    BY <2>2
  <2> QED
    BY <2>1, <2>2, <2>3, AddMaxAssumption DEF ListOK
<1>2. Nowhere \in Place
  BY DEF Nowhere, Place
<1>3. NoPage \in Page
  BY <1>2, AddMaxAssumption DEF NoPage, Page
<1>4. /\ page \in Page /\ Fits(page) /\ page.views = hubs /\ page.pane = ""
  <2>1. page = SetHubs(NoPage) /\ NoPage.pane = ""
    BY DEF ChannelsInit, NoPage
  <2> QED
    BY <1>1, <1>3, <2>1, SetHubsFacts
<1>5. NoDialog \in Dialog
  BY <1>2, AddMaxAssumption DEF NoDialog, Dialog
<1>6. StateOK
  BY <1>1, <1>2, <1>4, <1>5 DEF ChannelsInit, StateOK
<1>7. QueueOK /\ DOMAIN queue = {}
  <2>1. queue = <<>> /\ lost = FALSE
    BY DEF ChannelsInit
  <2>2. queue \in Seq(Call) /\ Len(queue) = 0 /\ DOMAIN queue = {}
    BY <2>1
  <2>3. Len(queue) <= QueueMax
    BY <2>2, QueueMaxAssumption
  <2> QED
    BY <2>1, <2>2, <2>3 DEF QueueOK
<1>8. Shape
  BY <1>6, <1>7, ShapeParts DEF OnePending, DialogWaits, Settled
<1>9. Right
  <2>1. RoomInView(page)
    BY <1>4 DEF RoomInView
  <2>2. dialog.kind = "none" /\ last.what = "none"
    BY DEF ChannelsInit, NoDialog
  <2> QED
    BY <1>4, <1>7, <2>1, <2>2 DEF Right, Drawn, DialogNames, NamedActs
<1> QED
  BY <1>8, <1>9 DEF ChannelsInv

LEMMA RunStep == ASSUME ChannelsInv, Run PROVE ChannelsInv'
<1> DEFINE c == Head(queue)
<1>1. /\ Shape /\ queue # <<>> /\ queue' = Tail(queue) /\ page' = Effect(c, page)
      /\ UNCHANGED <<hubs, rooms, connected, active, dialog, lost, last, keys, events>>
  BY Typed DEF Run, rrcVars
<1>2. /\ c \in Call /\ c = queue[1] /\ 1 \in DOMAIN queue
      /\ queue' \in Seq(Call) /\ Len(queue') <= QueueMax
      /\ OnePending'
      /\ Settled => Settled'
      /\ ByUser(c) => Settled'
      /\ ~ByUser(c) /\ Settled' => Settled
      /\ \A i \in DOMAIN queue' : i + 1 \in DOMAIN queue /\ queue'[i] = queue[i + 1]
  BY <1>1, Taken
<1> HIDE DEF c
<1>3. page' \in Page /\ Fits(page')
  BY <1>1, <1>2, EffectShape
<1>4. StateOK'
  <2>1. Fits(page)'
    BY <1>3 DEF Fits
  <2> QED
    BY <1>1, <1>3, <2>1, Typed DEF StateOK, ListOK
<1>5. Shape'
  <2>1. QueueOK'
    BY <1>1, <1>2 DEF QueueOK, Shape, ChannelsTypeOK
  <2>2. DialogWaits'
    BY <1>1, <1>2 DEF DialogWaits, Shape
  <2> QED
    BY <1>2, <1>4, <2>1, <2>2 DEF Shape, ChannelsTypeOK, StateOK, QueueOK, ListOK, Fits
<1>6. ASSUME ~lost' PROVE Right'
  <2>1. Right
    BY <1>1, <1>6 DEF ChannelsInv
  <2>2. DialogNames' /\ NamedActs(last')
    BY <1>1, <2>1 DEF Right, DialogNames
  <2>3. CASE ByUser(c)
    <3>1. Leads(c, page)
      BY <1>2, <2>1, <2>3 DEF Right, Drawn
    <3>2. page'.views = hubs /\ RoomInView(page')
      BY <1>1, <1>2, <2>3, <3>1, CallDraws
    <3>3. (page.views = hubs /\ RoomInView(page))'
      BY <1>1, <3>2 DEF RoomInView
    <3>4. \A i \in DOMAIN queue' : ~ByUser(queue'[i])
      BY <1>2, <2>3 DEF Settled
    <3> QED
      BY <2>2, <3>3, <3>4 DEF Right, Drawn
  <2>4. CASE ~ByUser(c)
    <3>1. page' = refreshChannels(page) \/ page' = RefreshRoomIfVisible(SetHubs(page))
      BY <1>1, <2>4 DEF ByUser, Effect
    <3>2. RefreshedFrom(page', page)
      BY <1>1, <3>1, ShapeFacts, refreshFacts
    <3>3. /\ page'.views = hubs
          /\ RoomInView(page) => RoomInView(page')
          /\ \A x \in Call : Leads(x, page) => Leads(x, page')
      BY <1>1, <3>2, RefreshKeeps DEF RefreshedFrom
    <3>4. /\ page'.views = hubs'
          /\ RoomInView(page) => RoomInView(page)'
      BY <1>1, <3>3 DEF RoomInView
    <3>5. \A x \in Call : Leads(x, page) => Leads(x, page)'
      BY <1>1, <3>3 DEF Leads, RoomInView
    <3>6. Settled' => (page.views = hubs /\ RoomInView(page))'
      BY <1>2, <2>1, <2>4, <3>4 DEF Right, Drawn
    <3>7. ASSUME NEW i \in DOMAIN queue', ByUser(queue'[i]) PROVE Leads(queue[i], page)'
      <4>1. i + 1 \in DOMAIN queue /\ queue'[i] = queue[i + 1]
        BY <1>2
      <4>2. queue[i + 1] \in Call
        BY <1>1, <4>1 DEF Shape, ChannelsTypeOK
      <4>3. Leads(queue[i + 1], page)
        BY <2>1, <3>7, <4>1 DEF Right, Drawn
      <4> QED
        BY <3>5, <4>1, <4>2, <4>3
    <3>8. Drawn'
      BY <3>6, <3>7 DEF Drawn
    <3> QED
      BY <2>2, <3>8 DEF Right
  <2> QED
    BY <2>3, <2>4
<1> QED
  BY <1>5, <1>6 DEF ChannelsInv

LEMMA WorkerCalls ==
  /\ NewCall("refresh") \in Call /\ ~ByUser(NewCall("refresh"))
  /\ NewCall("message") \in Call /\ ~ByUser(NewCall("message"))
BY AddMaxAssumption DEF NewCall, Call, CallNames, ByUser

LEMMA HubChangesStep == ASSUME ChannelsInv, NEW h \in Hubs, HubChanges(h) PROVE ChannelsInv'
<1>1. /\ QueueUpdateDraw(NewCall("refresh")) /\ connected' \in {connected \cup {h}, connected \ {h}}
      /\ events' = events + 1
      /\ UNCHANGED <<hubs, rooms, active, page, dialog, last, keys>>
  BY DEF HubChanges
<1>2. events' \in Nat /\ connected' \subseteq Hubs
  BY <1>1, Typed
<1>3. StateOK'
  BY <1>1, <1>2, Typed DEF StateOK, ListOK, Fits
<1> QED
  BY <1>1, <1>3, WorkerCalls, ReportsOf

LEMMA MessageArrivesStep ==
  ASSUME ChannelsInv, NEW h \in Hubs, NEW room \in Rooms, MessageArrives(h, room) PROVE ChannelsInv'
<1>1. /\ QueueUpdateDraw(NewCall("message")) /\ rooms' = [rooms EXCEPT ![h] = @ \cup {room}]
      /\ events' = events + 1
      /\ UNCHANGED <<hubs, connected, active, page, dialog, last, keys>>
  BY DEF MessageArrives
<1>2. events' \in Nat
  BY <1>1, Typed
<1>3. rooms' \in [Hubs -> SUBSET Rooms]
  BY <1>1, Typed
<1>4. StateOK'
  BY <1>1, <1>2, <1>3, Typed DEF StateOK, ListOK, Fits
<1> QED
  BY <1>1, <1>4, WorkerCalls, ReportsOf

LEMMA MoveStep == ASSUME ChannelsInv, NEW row \in page.rows, Move(row) PROVE ChannelsInv'
<1>1. /\ page' = [page EXCEPT !.cursor = row] /\ dialog.kind = "none"
      /\ UNCHANGED <<hubs, rooms, connected, active, dialog, updateVars, last, keys, events>>
  BY DEF Move, rrcVars
<1>2. row \in Row
  BY Typed DEF Page
<1>3. page' \in Page /\ SameView(page, page') /\ page'.rows = page.rows /\ page'.cursor = row
  BY <1>1, <1>2, Typed DEF Page, SameView
<1>4. Fits(page')
  BY <1>3, Typed DEF Fits, SameView
<1>5. StateOK'
  BY <1>1, <1>3, <1>4, Typed DEF StateOK, ListOK, Fits
<1>6. Right => DialogNames' /\ NamedActs(last')
  BY <1>1 DEF Right, DialogNames
<1> QED
  BY <1>1, <1>3, <1>5, <1>6, Stays

LEMMA StutterStep == ASSUME ChannelsInv, UNCHANGED channelsVars PROVE ChannelsInv'
<1>1. UNCHANGED <<hubs, rooms, connected, active, page, dialog, updateVars, last, keys, events>>
  BY DEF channelsVars, rrcVars
<1>2. SameView(page, page')
  BY <1>1 DEF SameView
<1>3. StateOK'
  BY <1>1, Typed DEF StateOK, ListOK, Fits
<1>4. Right => DialogNames' /\ NamedActs(last')
  BY <1>1 DEF Right, DialogNames
<1>5. dialog'.kind # "none" => Settled
  BY <1>1, Typed DEF Shape, DialogWaits
<1> QED
  BY <1>1, <1>2, <1>3, <1>4, <1>5, Stays

LEMMA CloseDialogStep == ASSUME ChannelsInv, CloseDialog PROVE ChannelsInv'
<1>1. /\ dialog' = NoDialog
      /\ UNCHANGED <<hubs, rooms, connected, active, page, updateVars, last, keys, events>>
  BY DEF CloseDialog, rrcVars
<1>2. NoDialog \in Dialog /\ NoDialog.kind = "none"
  BY AddMaxAssumption DEF NoDialog, Dialog, Nowhere, Place
<1>3. SameView(page, page')
  BY <1>1 DEF SameView
<1>4. StateOK'
  BY <1>1, <1>2, Typed DEF StateOK, ListOK, Fits
<1>5. Right => DialogNames' /\ NamedActs(last')
  BY <1>1, <1>2 DEF Right, DialogNames
<1> QED
  BY <1>1, <1>2, <1>3, <1>4, <1>5, Stays

\* The row a key acts on, the place it is at and the hub that is named there.
LEMMA EntryNames ==
  ASSUME ChannelsInv, OnRow
  PROVE  /\ SelectedEntry \in page.rows /\ SelectedEntry \in Row
         /\ SelectedEntry.at \in DOMAIN page.views /\ SelectedEntry.at \in 0..AddMax
         /\ SelectedEntry.room \in Rooms \cup {NoRoom}
         /\ NamedBy(SelectedEntry) \in Place
         /\ NamedBy(SelectedEntry).hub = HubAt(page.views, SelectedEntry.at)
         /\ NamedBy(SelectedEntry).room = SelectedEntry.room
<1> DEFINE e == SelectedEntry
<1>1. e \in page.rows
  BY Typed DEF Fits, OnRow, SelectedEntry
<1>2. e \in Row /\ page.views \in Seq(Hubs)
  BY <1>1, Typed DEF Page
<1>3. e.at \in DOMAIN page.views
  BY <1>1, Typed DEF Fits
<1>4. e.at \in 1..AddMax /\ e.room \in Rooms \cup {NoRoom}
  BY <1>2 DEF Row
<1>5. HubAt(page.views, e.at) \in Hubs \cup {NoHub}
  BY <1>2, HubsAt
<1> HIDE DEF e
<1>6. /\ NamedBy(e) \in Place /\ NamedBy(e).hub = HubAt(page.views, e.at) /\ NamedBy(e).room = e.room
  BY <1>4, <1>5 DEF NamedBy, Place
<1>7. e.at \in 0..AddMax
  BY <1>4, AddMaxAssumption
<1> QED
  BY <1>1, <1>2, <1>3, <1>4, <1>6, <1>7 DEF e

\* What the history remembers of a deed.
LEMMA Remembered ==
  ASSUME NEW what, NEW hub, NEW room, NEW named, Does(what, hub, room, named)
  PROVE  /\ last'.named = named /\ last'.hub = hub /\ last'.room = room /\ last'.what = what
         /\ last'.bare = (active.room = NoRoom)
BY DEF Does

LEMMA HubKeyStep == ASSUME ChannelsInv, HubKey PROVE ChannelsInv'
<1> DEFINE h == HubAt(hubs, SelectedEntry.at)
           named == [NamedBy(SelectedEntry) EXCEPT !.room = NoRoom]
<1>1. /\ Settled /\ keys' = keys + 1 /\ dialog.kind = "none" /\ OnRow
      /\ connected' \in {connected, connected \ {h}}
      /\ Does("list", h, NoRoom, named)
      /\ UNCHANGED <<hubs, rooms, active, page, dialog, updateVars, events>>
  BY DEF HubKey, ListKey, Keypress
<1>2. named \in Place /\ named.hub = HubAt(page.views, SelectedEntry.at)
  BY <1>1, EntryNames DEF Place
<1> HIDE DEF named
<1>3. last'.named = named /\ last'.hub = h /\ last'.what = "list"
  BY <1>1, Remembered
<1> HIDE DEF h
<1>4. keys' \in Nat /\ connected' \subseteq Hubs
  BY <1>1, Typed, KeyCounted
<1>5. StateOK'
  BY <1>1, <1>2, <1>3, <1>4, Typed DEF StateOK, ListOK, Fits
<1>6. Right => DialogNames' /\ NamedActs(last')
  BY <1>1, <1>2, <1>3, Waited DEF h, DialogNames, NamedActs
<1>7. SameView(page, page')
  BY <1>1 DEF SameView
<1> QED
  BY <1>1, <1>5, <1>6, <1>7, Stays

\* A dialog of the list opens.
LEMMA DialogOpens ==
  ASSUME ChannelsInv, Settled, keys' = keys + 1, dialog' \in Dialog,
         UNCHANGED <<rrcVars, page, updateVars, last, events>>,
         Right => DialogNames'
  PROVE  ChannelsInv'
<1>1. UNCHANGED <<hubs, rooms, connected, active, page, updateVars, last, events>>
  BY DEF rrcVars
<1>2. SameView(page, page')
  BY <1>1 DEF SameView
<1>3. keys' \in Nat
  BY KeyCounted
<1>4. StateOK'
  BY <1>1, <1>3, Typed DEF StateOK, ListOK, Fits
<1>5. Right => NamedActs(last')
  BY <1>1 DEF Right
<1> QED
  BY <1>1, <1>2, <1>4, <1>5, Stays

LEMMA EntryDialogStep ==
  ASSUME ChannelsInv, RemoveSelectedDialog \/ EditHubDialog PROVE ChannelsInv'
<1> DEFINE e == SelectedEntry
           named == NamedBy(e)
<1>1. PICK kind \in {"remove", "edit"} :
        /\ Settled /\ keys' = keys + 1 /\ OnRow
        /\ dialog' = [kind |-> kind, at |-> e.at, named |-> named]
        /\ UNCHANGED <<rrcVars, page, updateVars, last, events>>
  BY DEF RemoveSelectedDialog, EditHubDialog, ListKey, Keypress
<1>2. e.at \in 0..AddMax /\ named \in Place /\ named.hub = HubAt(page.views, e.at)
  BY <1>1, EntryNames
<1> HIDE DEF e, named
<1>3. dialog' \in Dialog /\ dialog'.at = e.at /\ dialog'.named = named
  BY <1>1, <1>2 DEF Dialog
<1>4. Right => DialogNames'
  BY <1>1, <1>2, <1>3, Waited DEF DialogNames, rrcVars
<1> QED
  BY <1>1, <1>3, <1>4, DialogOpens

LEMMA JoinRoomDialogStep == ASSUME ChannelsInv, JoinRoomDialog PROVE ChannelsInv'
<1> DEFINE named == IF OnRow THEN NamedBy(SelectedEntry) ELSE [hub |-> HubAt(page.views, 1), room |-> NoRoom]
<1>1. /\ Settled /\ keys' = keys + 1
      /\ dialog' = [kind |-> "join", at |-> 0, named |-> named]
      /\ UNCHANGED <<rrcVars, page, updateVars, last, events>>
  BY DEF JoinRoomDialog, ListKey, Keypress
<1>2. named \in Place
  <2>1. CASE OnRow
    BY <2>1, EntryNames
  <2>2. CASE ~OnRow
    <3>1. page.views \in Seq(Hubs)
      BY Typed DEF Page
    <3>2. HubAt(page.views, 1) \in Hubs \cup {NoHub}
      BY <3>1, HubsAt
    <3> QED
      BY <2>2, <3>2 DEF Place
  <2> QED
    BY <2>1, <2>2
<1> HIDE DEF named
<1>3. dialog' \in Dialog /\ dialog'.kind = "join"
  BY <1>1, <1>2, AddMaxAssumption DEF Dialog
<1>4. Right => DialogNames'
  BY <1>3 DEF DialogNames
<1> QED
  BY <1>1, <1>3, <1>4, DialogOpens

LEMMA SendTextStep == ASSUME ChannelsInv, SendText PROVE ChannelsInv'
<1>1. /\ Settled /\ keys' = keys + 1 /\ dialog.kind = "none" /\ page.pane = "room"
      /\ Does("composer", active.hub, active.room, page.widget)
      /\ UNCHANGED <<hubs, rooms, connected, active, page, dialog, updateVars, events>>
  BY DEF SendText, Composer, Keypress, rrcVars
<1>2. /\ last'.named = page.widget /\ last'.hub = active.hub /\ last'.room = active.room
      /\ last'.what = "composer" /\ last'.bare = (active.room = NoRoom)
  BY <1>1, Remembered
<1>3. keys' \in Nat /\ page.widget \in Place
  BY <1>1, Typed, KeyCounted DEF Page
<1>4. StateOK'
  BY <1>1, <1>2, <1>3, Typed DEF StateOK, ListOK, Fits
<1>5. Right => DialogNames' /\ NamedActs(last')
  BY <1>1, <1>2, Waited DEF RoomInView, DialogNames, NamedActs
<1>6. SameView(page, page')
  BY <1>1 DEF SameView
<1> QED
  BY <1>1, <1>4, <1>5, <1>6, Stays

\* The calls the user's keys queue, by their fields.
UserCallNames == CallNames \ {"refresh", "message"}

LEMMA PlainCall ==
  ASSUME NEW name \in UserCallNames
  PROVE  \E c \in Call : c = NewCall(name) /\ ByUser(c) /\ c.call = name
<1> DEFINE c == [call |-> name, at |-> 0, hub |-> NoHub, room |-> NoRoom]
<1>1. c = NewCall(name)
  BY DEF NewCall
<1>2. c \in Call /\ ByUser(c) /\ c.call = name
  BY AddMaxAssumption DEF Call, ByUser, UserCallNames
<1> QED
  BY <1>1, <1>2

LEMMA CallOfPlace ==
  ASSUME NEW name \in UserCallNames, NEW i \in 0..AddMax
  PROVE  \E c \in Call : c = [NewCall(name) EXCEPT !.at = i] /\ ByUser(c) /\ c.call = name /\ c.at = i
<1> DEFINE c == [call |-> name, at |-> i, hub |-> NoHub, room |-> NoRoom]
<1>1. c = [NewCall(name) EXCEPT !.at = i]
  BY DEF NewCall
<1>2. c \in Call /\ ByUser(c) /\ c.call = name /\ c.at = i
  BY DEF Call, ByUser, UserCallNames
<1> QED
  BY <1>1, <1>2

LEMMA CallOfRoom ==
  ASSUME NEW name \in UserCallNames, NEW h \in Hubs \cup {NoHub}, NEW room \in Rooms \cup {NoRoom}
  PROVE  \E c \in Call : /\ c = NewRoomCall(name, h, room)
                         /\ ByUser(c) /\ c.call = name /\ c.hub = h /\ c.room = room
<1> DEFINE c == [call |-> name, at |-> 0, hub |-> h, room |-> room]
<1>1. c = NewRoomCall(name, h, room)
  BY DEF NewRoomCall
<1>2. c \in Call /\ ByUser(c) /\ c.call = name /\ c.hub = h /\ c.room = room
  BY AddMaxAssumption DEF Call, ByUser, UserCallNames
<1> QED
  BY <1>1, <1>2

LEMMA CallOfRow ==
  ASSUME NEW i \in 0..AddMax, NEW h \in Hubs \cup {NoHub}, NEW room \in Rooms \cup {NoRoom}
  PROVE  \E c \in Call : /\ c = [call |-> "room", at |-> i, hub |-> h, room |-> room]
                         /\ ByUser(c) /\ c.call = "room" /\ c.at = i /\ c.hub = h /\ c.room = room
<1> DEFINE c == [call |-> "room", at |-> i, hub |-> h, room |-> room]
<1>1. c \in Call /\ ByUser(c) /\ c.call = "room" /\ c.at = i /\ c.hub = h /\ c.room = room
  BY DEF Call, ByUser, CallNames
<1> QED
  BY <1>1

LEMMA CallNamesListed ==
  {"list", "info", "room", "roomOf", "noteOf", "listRoomOf", "removed", "edited"}
    \subseteq UserCallNames
BY DEF CallNames, UserCallNames

LEMMA SelectHubStep == ASSUME ChannelsInv, SelectHub PROVE ChannelsInv'
<1> DEFINE i == SelectedEntry.at
           h == HubAt(hubs, i)
<1>1. /\ Settled /\ keys' = keys + 1 /\ dialog.kind = "none" /\ OnRow
      /\ page' = [page EXCEPT !.at = i]
      /\ active' = IF h = NoHub THEN active ELSE [hub |-> h, room |-> NoRoom]
      /\ QueueUpdateDraw([NewCall("info") EXCEPT !.at = i])
      /\ UNCHANGED <<hubs, rooms, connected, dialog, last, events>>
  BY DEF SelectHub, ListKey, Keypress
<1>2. i \in DOMAIN page.views /\ i \in 1..AddMax /\ i \in 0..AddMax
  BY <1>1, EntryNames, RowsTypes, Typed
<1>3. h \in Hubs \cup {NoHub}
  BY HubsAt, Typed
<1> HIDE DEF i, h
<1>4. PICK c \in Call : c = [NewCall("info") EXCEPT !.at = i] /\ ByUser(c) /\ c.call = "info" /\ c.at = i
  BY <1>2, CallOfPlace, CallNamesListed
<1>5. page' \in Page /\ page'.views = page.views /\ page'.rows = page.rows /\ page'.cursor = page.cursor
  BY <1>1, <1>2, Typed DEF Page
<1>6. Fits(page')
  BY <1>5, Typed DEF Fits
<1>7. active' \in Place /\ keys' \in Nat
  BY <1>1, <1>3, Typed, KeyCounted DEF Place
<1>8. StateOK'
  BY <1>1, <1>5, <1>6, <1>7, Typed DEF StateOK, ListOK, Fits
<1>9. Right => Leads(c, page)' /\ NamedActs(last')
  BY <1>1, <1>2, <1>4, <1>5, Waited DEF Leads
<1> QED
  BY <1>1, <1>4, <1>8, <1>9, AsksFor

\* selectRoomRow, from wherever it is called.
LEMMA OpensFacts ==
  ASSUME ChannelsInv, Settled, NEW i \in 0..AddMax, NEW room \in Rooms, Opens(i, room), UNCHANGED <<hubs, page>>
  PROVE  /\ active' \in Place /\ rooms' \in [Hubs -> SUBSET Rooms]
         /\ \E c \in Call : ByUser(c) /\ QueueUpdateDraw(c) /\ (Right => Leads(c, page)')
<1> DEFINE h == HubAt(hubs, i)
<1>1. /\ h # NoHub /\ active' = [hub |-> h, room |-> room]
      /\ (rooms' = [rooms EXCEPT ![h] = @ \cup {room}] \/ UNCHANGED rooms)
      /\ QueueUpdateDraw([call |-> "room", at |-> i, hub |-> h, room |-> room])
  BY DEF Opens
<1>2. h \in Hubs /\ i \in DOMAIN hubs /\ h = hubs[i]
  BY <1>1, HubsAt, Typed
<1> HIDE DEF h
<1>3. PICK c \in Call : /\ c = [call |-> "room", at |-> i, hub |-> h, room |-> room]
                       /\ ByUser(c) /\ c.call = "room" /\ c.at = i /\ c.hub = h /\ c.room = room
  BY <1>2, CallOfRow
<1>4. active' \in Place
  BY <1>1, <1>2 DEF Place
<1>5. rooms' \in [Hubs -> SUBSET Rooms]
  BY <1>1, <1>2, Typed
<1>6. Right => Leads(c, page)'
  BY <1>1, <1>2, <1>3, Waited DEF Leads
<1> QED
  BY <1>1, <1>3, <1>4, <1>5, <1>6

LEMMA OpensStep ==
  ASSUME ChannelsInv, Settled, keys' = keys + 1, dialog.kind = "none",
         NEW i \in 0..AddMax, NEW room \in Rooms, Opens(i, room),
         UNCHANGED <<hubs, connected, page, dialog, events>>,
         last' = last \/ (last'.what \in {"list", "stale"} /\ last'.named \in Place),
         Right => NamedActs(last')
  PROVE  ChannelsInv'
<1>1. PICK c \in Call : ByUser(c) /\ QueueUpdateDraw(c) /\ (Right => Leads(c, page)')
  BY OpensFacts
<1>2. active' \in Place /\ rooms' \in [Hubs -> SUBSET Rooms] /\ keys' \in Nat
  BY OpensFacts, KeyCounted
<1>3. StateOK'
  BY <1>2, Typed DEF StateOK, ListOK, Fits
<1> QED
  BY <1>1, <1>3, AsksFor

LEMMA SelectRoomStep == ASSUME ChannelsInv, SelectRoom PROVE ChannelsInv'
<1>1. /\ Settled /\ keys' = keys + 1 /\ dialog.kind = "none" /\ OnRow /\ SelectedEntry.kind = "room"
      /\ Opens(SelectedEntry.at, SelectedEntry.room)
      /\ UNCHANGED <<hubs, connected, page, dialog, last, events>>
  BY DEF SelectRoom, ListKey, Keypress
<1>2. SelectedEntry.at \in 0..AddMax
  BY <1>1, EntryNames
<1>3. SelectedEntry.room \in Rooms
  BY <1>1, EntryNames DEF Row
<1>4. Right => NamedActs(last')
  BY <1>1 DEF Right
<1> QED
  BY <1>1, <1>2, <1>3, <1>4, OpensStep

LEMMA OpenRoomStep == ASSUME ChannelsInv, NEW room \in Rooms, OpenRoom(room) PROVE ChannelsInv'
<1>1. /\ Settled /\ keys' = keys + 1 /\ dialog.kind = "none"
      /\ Opens(page.opens, room)
      /\ Does(IF PanelIsItsHubs THEN "list" ELSE "stale", HubAt(hubs, page.opens), room,
              [hub |-> page.info, room |-> room])
      /\ UNCHANGED <<hubs, connected, page, dialog, events>>
  BY DEF OpenRoom, ListKey, Keypress
<1>2. /\ last'.what = IF PanelIsItsHubs THEN "list" ELSE "stale"
      /\ last'.hub = HubAt(hubs, page.opens) /\ last'.named = [hub |-> page.info, room |-> room]
  BY <1>1, Remembered
<1>3. page.opens \in 0..AddMax /\ page.info \in Hubs \cup {NoHub}
  BY Typed DEF Page
<1>4. last'.named \in Place /\ last'.named.hub = page.info
  BY <1>2, <1>3 DEF Place
<1>5. Right => page.views = hubs
  BY <1>1 DEF Right, Drawn
<1>6. Right => NamedActs(last')
  BY <1>2, <1>4, <1>5 DEF PanelIsItsHubs, NamedActs
<1> QED
  BY <1>1, <1>2, <1>3, <1>4, <1>6, OpensStep

LEMMA ChatLinkStep == ASSUME ChannelsInv, NEW room \in Rooms, ChatLink(room) PROVE ChannelsInv'
<1>1. /\ Settled /\ keys' = keys + 1 /\ dialog.kind = "none"
      /\ Opens(IndexFor(hubs, active.hub), room)
      /\ UNCHANGED <<hubs, connected, page, dialog, last, events>>
  BY DEF ChatLink, Composer, Keypress
<1>2. IndexFor(hubs, active.hub) \in 0..AddMax
  BY Typed, ShapeFacts
<1>3. Right => NamedActs(last')
  BY <1>1 DEF Right
<1> QED
  BY <1>1, <1>2, <1>3, OpensStep

LEMMA NoDialogOpen == NoDialog \in Dialog /\ NoDialog.kind = "none"
BY AddMaxAssumption DEF NoDialog, Dialog, Nowhere, Place

LEMMA RemoveSelectedStep == ASSUME ChannelsInv, RemoveSelected PROVE ChannelsInv'
<1> DEFINE h == HubAt(hubs, dialog.at)
           i == IndexFor(hubs, h)
<1>1. /\ Settled /\ dialog.kind = "remove" /\ dialog' = NoDialog /\ h # NoHub
      /\ Does("list", h, dialog.named.room, dialog.named)
      /\ \/ /\ rooms' = [rooms EXCEPT ![h] = @ \ {dialog.named.room}]
            /\ UNCHANGED <<hubs, connected, active>>
         \/ /\ hubs' = RemoveAt(hubs, i) /\ connected' = connected \ {h}
            /\ active' \in {active, IF active.hub = h THEN Nowhere ELSE active}
            /\ UNCHANGED rooms
      /\ QueueUpdateDraw(NewCall("removed"))
      /\ UNCHANGED <<page, keys, events>>
  BY DEF RemoveSelected
<1>2. h \in Hubs /\ h \in ToSet(hubs)
  BY <1>1, HubsAt, Typed
<1>3. i \in 1..Len(hubs)
  BY <1>2, PlaceOf, Typed
<1> HIDE DEF i
<1>4. RemoveAt(hubs, i) \in Seq(Hubs) /\ Len(RemoveAt(hubs, i)) = Len(hubs) - 1
  BY <1>3, RemoveAtKeeps, Typed
<1>5. Len(hubs) - 1 <= AddMax
  BY Typed, AddMaxAssumption
<1>6. hubs' \in Seq(Hubs) /\ Len(hubs') <= AddMax
  BY <1>1, <1>4, <1>5, Typed
<1>7. rooms' \in [Hubs -> SUBSET Rooms]
  BY <1>1, <1>2, Typed
<1>8. connected' \subseteq Hubs /\ active' \in Place
  BY <1>1, Typed DEF Place, Nowhere
<1>9. /\ last'.named = dialog.named /\ last'.hub = h /\ last'.what = "list"
  BY <1>1, Remembered
<1>10. dialog.named \in Place
  BY Typed DEF Dialog
<1>11. StateOK'
  BY <1>1, <1>6, <1>7, <1>8, <1>9, <1>10, NoDialogOpen, Typed DEF StateOK, ListOK, Fits
<1>12. PICK c \in Call : c = NewCall("removed") /\ ByUser(c) /\ c.call = "removed"
  BY PlainCall, CallNamesListed
<1>13. Right => Leads(c, page)' /\ NamedActs(last')
  <2>1. Leads(c, page)'
    BY <1>12 DEF Leads
  <2>2. Right => NamedActs(last')
    BY <1>1, <1>9, Waited DEF NamedActs, DialogNames
  <2> QED
    BY <2>1, <2>2
<1> QED
  BY <1>1, <1>11, <1>12, <1>13, NoDialogOpen, AsksFor

LEMMA EditHubStep == ASSUME ChannelsInv, EditHub PROVE ChannelsInv'
<1> DEFINE h == HubAt(hubs, dialog.at)
<1>1. /\ Settled /\ dialog.kind = "edit" /\ dialog' = NoDialog
      /\ Does("list", h, NoRoom, dialog.named)
      /\ QueueUpdateDraw([NewCall("edited") EXCEPT !.at = dialog.at])
      /\ UNCHANGED <<hubs, rooms, connected, active, page, keys, events>>
  BY DEF EditHub, rrcVars
<1>2. dialog.named \in Place /\ dialog.at \in 0..AddMax
  BY Typed DEF Dialog
<1>3. PICK c \in Call : c = [NewCall("edited") EXCEPT !.at = dialog.at] /\ ByUser(c) /\ c.call = "edited"
  BY <1>2, CallOfPlace, CallNamesListed
<1>4. last'.named = dialog.named /\ last'.hub = h /\ last'.what = "list"
  BY <1>1, Remembered
<1>5. StateOK'
  BY <1>1, <1>2, <1>4, NoDialogOpen, Typed DEF StateOK, ListOK, Fits
<1>6. Right => Leads(c, page)' /\ NamedActs(last')
  BY <1>1, <1>3, <1>4, Waited DEF Leads, RoomInView, NamedActs, DialogNames
<1> QED
  BY <1>1, <1>3, <1>5, <1>6, NoDialogOpen, AsksFor

\* A room joined by its name, from the dialog or the composer.
LEMMA JoinsFacts ==
  ASSUME ChannelsInv, Settled, NEW room \in Rooms, Joins(room), UNCHANGED <<hubs, page>>
  PROVE  /\ active' \in Place /\ rooms' \in [Hubs -> SUBSET Rooms]
         /\ \E c \in Call : ByUser(c) /\ QueueUpdateDraw(c) /\ (Right => Leads(c, page)')
<1> DEFINE h == IF active.hub # NoHub THEN active.hub ELSE HubAt(hubs, 1)
<1>1. /\ h # NoHub /\ rooms' = [rooms EXCEPT ![h] = @ \cup {room}]
      /\ active' = [hub |-> h, room |-> room]
      /\ QueueUpdateDraw(NewRoomCall("listRoomOf", h, room))
  BY DEF Joins
<1>2. HubAt(hubs, 1) \in Hubs \cup {NoHub} /\ (HubAt(hubs, 1) # NoHub => HubAt(hubs, 1) \in ToSet(hubs))
  BY HubsAt, Typed
<1>3. h \in Hubs
  BY <1>1, <1>2, Typed
<1>4. RoomInView(page) => h \in ToSet(hubs) \/ page.pane # "room"
  BY <1>1, <1>2 DEF RoomInView
<1> HIDE DEF h
<1>5. PICK c \in Call : /\ c = NewRoomCall("listRoomOf", h, room)
                       /\ ByUser(c) /\ c.call = "listRoomOf" /\ c.hub = h /\ c.room = room
  BY <1>3, CallOfRoom, CallNamesListed
<1>6. active' \in Place
  BY <1>1, <1>3 DEF Place
<1>7. rooms' \in [Hubs -> SUBSET Rooms]
  BY <1>1, <1>3, Typed
<1>8. Right => Leads(c, page)'
  BY <1>1, <1>4, <1>5, Waited DEF Leads
<1> QED
  BY <1>1, <1>5, <1>6, <1>7, <1>8

LEMMA JoinRoomStep == ASSUME ChannelsInv, NEW room \in Rooms, JoinRoom(room) PROVE ChannelsInv'
<1>1. /\ Settled /\ dialog' = NoDialog /\ Joins(room)
      /\ Does("join", active'.hub, room, dialog.named)
      /\ UNCHANGED <<hubs, connected, page, keys, events>>
  BY DEF JoinRoom
<1>2. PICK c \in Call : ByUser(c) /\ QueueUpdateDraw(c) /\ (Right => Leads(c, page)')
  BY <1>1, JoinsFacts
<1>3. active' \in Place /\ rooms' \in [Hubs -> SUBSET Rooms] /\ dialog.named \in Place
  BY <1>1, JoinsFacts, Typed DEF Dialog
<1>4. last'.what = "join" /\ last'.named = dialog.named
  BY <1>1 DEF Does
<1>5. StateOK'
  BY <1>1, <1>3, <1>4, NoDialogOpen, Typed DEF StateOK, ListOK, Fits
<1>6. NamedActs(last')
  BY <1>4 DEF NamedActs
<1> QED
  BY <1>1, <1>2, <1>5, <1>6, NoDialogOpen, AsksFor

LEMMA JoinNamedStep == ASSUME ChannelsInv, NEW room \in Rooms, JoinNamed(room) PROVE ChannelsInv'
<1>1. /\ Settled /\ keys' = keys + 1 /\ dialog.kind = "none" /\ Joins(room)
      /\ UNCHANGED <<hubs, connected, page, dialog, last, events>>
  BY DEF JoinNamed, Composer, Keypress
<1>2. PICK c \in Call : ByUser(c) /\ QueueUpdateDraw(c) /\ (Right => Leads(c, page)')
  BY <1>1, JoinsFacts
<1>3. active' \in Place /\ rooms' \in [Hubs -> SUBSET Rooms] /\ keys' \in Nat
  BY <1>1, JoinsFacts, KeyCounted
<1>4. StateOK'
  BY <1>1, <1>3, Typed DEF StateOK, ListOK, Fits
<1>5. Right => NamedActs(last')
  BY <1>1, Waited
<1> QED
  BY <1>1, <1>2, <1>4, <1>5, AsksFor

\* A hub at the end of the list leaves the others where they are.
LEMMA HubAppended ==
  ASSUME ChannelsInv, NEW h \in Hubs, Len(hubs) < AddMax, hubs' = Append(hubs, h)
  PROVE  /\ hubs' \in Seq(Hubs) /\ Len(hubs') <= AddMax
         /\ \A i \in DOMAIN hubs : i \in DOMAIN hubs' /\ hubs'[i] = hubs[i]
         /\ ToSet(hubs') = ToSet(hubs) \cup {h}
<1>1. /\ hubs' \in Seq(Hubs) /\ Len(hubs') = Len(hubs) + 1
      /\ \A i \in DOMAIN hubs : i \in DOMAIN hubs' /\ hubs'[i] = hubs[i]
      /\ ToSet(hubs') = ToSet(hubs) \cup {h}
  BY AppendKeeps, Typed
<1>2. Len(hubs) + 1 <= AddMax
  BY Typed, AddMaxAssumption
<1> QED
  BY <1>1, <1>2

LEMMA AddHubStep == ASSUME ChannelsInv, NEW h \in Hubs, AddHub(h) PROVE ChannelsInv'
<1>1. /\ Settled /\ keys' = keys + 1 /\ dialog.kind = "none" /\ Len(hubs) < AddMax
      /\ hubs' = Append(hubs, h) /\ rooms' = [rooms EXCEPT ![h] = {}]
      /\ QueueUpdateDraw(NewCall("list"))
      /\ UNCHANGED <<connected, active, page, dialog, last, events>>
  BY DEF AddHub, ListKey, Keypress
<1>2. /\ hubs' \in Seq(Hubs) /\ Len(hubs') <= AddMax
      /\ \A i \in DOMAIN hubs : i \in DOMAIN hubs' /\ hubs'[i] = hubs[i]
      /\ ToSet(hubs') = ToSet(hubs) \cup {h}
  BY <1>1, HubAppended
<1>3. PICK c \in Call : c = NewCall("list") /\ ByUser(c) /\ c.call = "list"
  BY PlainCall, CallNamesListed
<1>4. rooms' \in [Hubs -> SUBSET Rooms] /\ keys' \in Nat
  BY <1>1, Typed, KeyCounted
<1>5. StateOK'
  BY <1>1, <1>2, <1>4, Typed DEF StateOK, ListOK, Fits
<1>6. RoomInView(page) => RoomInView(page)'
  BY <1>1, <1>2 DEF RoomInView
<1>7. Right => Leads(c, page)' /\ NamedActs(last')
  BY <1>1, <1>3, <1>6, Waited DEF Leads
<1> QED
  BY <1>1, <1>3, <1>5, <1>7, AsksFor

LEMMA OpenLinkStep ==
  ASSUME ChannelsInv, NEW h \in Hubs, NEW room \in Rooms \cup {NoRoom}, OpenLink(h, room)
  PROVE  ChannelsInv'
<1>1. /\ Settled /\ keys' = keys + 1 /\ dialog.kind = "none"
      /\ \/ h \in ToSet(hubs) /\ UNCHANGED hubs
         \/ Len(hubs) < AddMax /\ hubs' = Append(hubs, h)
      /\ active' = [hub |-> h, room |-> room]
      /\ rooms' = [rooms EXCEPT ![h] = IF room = NoRoom THEN @ ELSE @ \cup {room}]
      /\ UNCHANGED <<connected, page, dialog, last, events>>
  BY DEF OpenLink, ListKey, Keypress
<1>2. /\ hubs' \in Seq(Hubs) /\ Len(hubs') <= AddMax
      /\ \A i \in DOMAIN hubs : i \in DOMAIN hubs' /\ hubs'[i] = hubs[i]
      /\ h \in ToSet(hubs')
  BY <1>1, HubAppended, Typed
<1>3. rooms' \in [Hubs -> SUBSET Rooms] /\ keys' \in Nat
  BY <1>1, Typed, KeyCounted
<1>4. active' \in Place
  BY <1>1 DEF Place
<1>5. StateOK'
  BY <1>1, <1>2, <1>3, <1>4, Typed DEF StateOK, ListOK, Fits
<1>6. Right => NamedActs(last')
  BY <1>1, Waited
<1>7. CASE room = NoRoom
  <2>1. QueueUpdateDraw(NewCall("list"))
    BY <1>7 DEF OpenLink
  <2>2. PICK c \in Call : c = NewCall("list") /\ ByUser(c) /\ c.call = "list"
    BY PlainCall, CallNamesListed
  <2>3. RoomInView(page) => RoomInView(page)'
    BY <1>1, <1>2, <1>7 DEF RoomInView
  <2>4. Right => Leads(c, page)'
    BY <1>1, <2>2, <2>3, Waited DEF Leads
  <2> QED
    BY <1>1, <1>5, <1>6, <2>1, <2>2, <2>4, AsksFor
<1>8. CASE room # NoRoom
  <2>1. QueueUpdateDraw(NewRoomCall("listRoomOf", h, room))
    BY <1>8 DEF OpenLink
  <2>2. PICK c \in Call : /\ c = NewRoomCall("listRoomOf", h, room)
                         /\ ByUser(c) /\ c.call = "listRoomOf" /\ c.hub = h /\ c.room = room
    BY CallOfRoom, CallNamesListed
  <2>3. Right => Leads(c, page)'
    BY <1>1, <1>2, <2>2 DEF Leads
  <2> QED
    BY <1>1, <1>5, <1>6, <2>1, <2>2, <2>3, AsksFor
<1> QED
  BY <1>7, <1>8

LEMMA LocalMessageStep == ASSUME ChannelsInv, LocalMessage PROVE ChannelsInv'
<1>1. /\ Settled /\ keys' = keys + 1 /\ dialog.kind = "none" /\ page.pane = "room" /\ active.hub # NoHub
      /\ rooms' = [rooms EXCEPT ![active.hub] = @ \cup ({page.widget.room} \ {NoRoom})]
      /\ Does("composer", active.hub, page.widget.room, page.widget)
      /\ QueueUpdateDraw(NewRoomCall("noteOf", active.hub, page.widget.room))
      /\ UNCHANGED <<hubs, connected, active, page, dialog, events>>
  BY DEF LocalMessage, Composer, Keypress
<1>2. page.widget \in Place /\ page.widget.room \in Rooms \cup {NoRoom}
  BY Typed DEF Page, Place
<1>3. PICK c \in Call : /\ c = NewRoomCall("noteOf", active.hub, page.widget.room)
                       /\ ByUser(c) /\ c.call = "noteOf" /\ c.hub = active.hub /\ c.room = page.widget.room
  <2>1. active.hub \in Hubs \cup {NoHub} /\ "noteOf" \in UserCallNames
    BY Typed, CallNamesListed
  <2> QED
    BY <2>1, <1>2, CallOfRoom
<1>4. /\ last'.named = page.widget /\ last'.hub = active.hub /\ last'.room = page.widget.room
      /\ last'.what = "composer" /\ last'.bare = (active.room = NoRoom)
  BY <1>1, Remembered
<1>5. rooms' \in [Hubs -> SUBSET Rooms] /\ keys' \in Nat
  BY <1>1, <1>2, Typed, KeyCounted
<1>6. StateOK'
  BY <1>1, <1>2, <1>4, <1>5, Typed DEF StateOK, ListOK, Fits
<1>7. RoomInView(page) => RoomInView(page)'
  BY <1>1 DEF RoomInView
<1>8. Right => Leads(c, page)'
  BY <1>1, <1>3, <1>7, Waited DEF Leads
<1>9. Right => NamedActs(last')
  BY <1>1, <1>4, Waited DEF RoomInView, NamedActs
<1> QED
  BY <1>1, <1>3, <1>6, <1>8, <1>9, AsksFor

LEMMA ClearStep == ASSUME ChannelsInv, Clear PROVE ChannelsInv'
<1>1. /\ Settled /\ keys' = keys + 1 /\ dialog.kind = "none" /\ page.pane = "room" /\ active.hub # NoHub
      /\ rooms' \in {rooms, [rooms EXCEPT ![active.hub] = @ \ {active.room}]}
      /\ Does("composer", active.hub, active.room, page.widget)
      /\ QueueUpdateDraw(NewRoomCall("roomOf", active.hub, active.room))
      /\ UNCHANGED <<hubs, connected, active, page, dialog, events>>
  BY DEF Clear, Composer, Keypress
<1>2. page.widget \in Place
  BY Typed DEF Page
<1>3. PICK c \in Call : /\ c = NewRoomCall("roomOf", active.hub, active.room)
                       /\ ByUser(c) /\ c.call = "roomOf" /\ c.hub = active.hub /\ c.room = active.room
  <2>1. active.hub \in Hubs \cup {NoHub} /\ active.room \in Rooms \cup {NoRoom}
    BY Typed
  <2>2. "roomOf" \in UserCallNames
    BY CallNamesListed
  <2> QED
    BY <2>1, <2>2, CallOfRoom
<1>4. /\ last'.named = page.widget /\ last'.hub = active.hub /\ last'.room = active.room
      /\ last'.what = "composer" /\ last'.bare = (active.room = NoRoom)
  BY <1>1, Remembered
<1>5. rooms' \in [Hubs -> SUBSET Rooms] /\ keys' \in Nat
  BY <1>1, Typed, KeyCounted
<1>6. StateOK'
  BY <1>1, <1>2, <1>4, <1>5, Typed DEF StateOK, ListOK, Fits
<1>7. RoomInView(page) => RoomInView(page)'
  BY <1>1 DEF RoomInView
<1>8. Right => Leads(c, page)'
  BY <1>1, <1>3, <1>7, Waited DEF Leads
<1>9. Right => NamedActs(last')
  BY <1>1, <1>4, Waited DEF RoomInView, NamedActs
<1> QED
  BY <1>1, <1>3, <1>6, <1>8, <1>9, AsksFor

LEMMA HubCommandStep == ASSUME ChannelsInv, HubCommand PROVE ChannelsInv'
<1>1. /\ Settled /\ keys' = keys + 1 /\ dialog.kind = "none" /\ page.pane = "room"
      /\ connected' \in {connected, connected \ {active.hub}}
      /\ QueueUpdateDraw(NewCall("list")) \/ UNCHANGED updateVars
      /\ Does("composer", active.hub, page.widget.room, page.widget)
      /\ UNCHANGED <<hubs, rooms, active, page, dialog, events>>
  BY DEF HubCommand, Composer, Keypress
<1>2. page.widget \in Place
  BY Typed DEF Page
<1>3. /\ last'.named = page.widget /\ last'.hub = active.hub /\ last'.room = page.widget.room
      /\ last'.what = "composer" /\ last'.bare = (active.room = NoRoom)
  BY <1>1, Remembered
<1>4. connected' \subseteq Hubs /\ keys' \in Nat
  BY <1>1, Typed, KeyCounted
<1>5. StateOK'
  BY <1>1, <1>2, <1>3, <1>4, Typed DEF StateOK, ListOK, Fits
<1>6. RoomInView(page) => RoomInView(page)'
  BY <1>1 DEF RoomInView
<1>7. Right => NamedActs(last')
  BY <1>1, <1>3, Waited DEF RoomInView, NamedActs
<1>8. CASE QueueUpdateDraw(NewCall("list"))
  <2>1. PICK c \in Call : c = NewCall("list") /\ ByUser(c) /\ c.call = "list"
    BY PlainCall, CallNamesListed
  <2>2. Right => Leads(c, page)'
    BY <1>6, <2>1, Waited, <1>1 DEF Leads
  <2> QED
    BY <1>1, <1>5, <1>7, <1>8, <2>1, <2>2, AsksFor
<1>9. CASE UNCHANGED updateVars
  <2>1. Right => (page.views = hubs /\ RoomInView(page))'
    BY <1>1, <1>6, Waited
  <2> QED
    BY <1>1, <1>5, <1>7, <1>9, <2>1, Acts
<1> QED
  BY <1>1, <1>8, <1>9

\* A room left, by its name or as the one the page has shown.
LEMMA LeavesStep ==
  ASSUME ChannelsInv, Settled, keys' = keys + 1, dialog.kind = "none", NEW target, Leaves(target),
         UNCHANGED <<hubs, connected, active, dialog, events>>,
         last'.named \in Place, Right => NamedActs(last')
  PROVE  ChannelsInv'
<1> DEFINE gone == [page EXCEPT !.pane = ""]
<1>1. /\ page' \in {page, gone}
      /\ \/ UNCHANGED <<rooms, updateVars>>
         \/ /\ active.hub # NoHub /\ QueueUpdateDraw(NewCall("list"))
            /\ rooms' \in {rooms, [rooms EXCEPT ![active.hub] = @ \ {target}]}
  BY DEF Leaves, ShowPlaceholder
<1>2. /\ gone \in Page /\ gone.views = page.views /\ gone.rows = page.rows /\ gone.cursor = page.cursor
      /\ gone.pane = ""
  BY Typed DEF Page
<1> HIDE DEF gone
<1>3. page' \in Page /\ Fits(page') /\ page'.views = page.views
  BY <1>1, <1>2, Typed DEF Fits
<1>4. rooms' \in [Hubs -> SUBSET Rooms] /\ keys' \in Nat
  BY <1>1, Typed, KeyCounted
<1>5. StateOK'
  BY <1>3, <1>4, Typed DEF StateOK, ListOK, Fits
<1>6. RoomInView(page) => RoomInView(page)'
  BY <1>1, <1>2 DEF RoomInView
<1>7. CASE UNCHANGED updateVars
  <2>1. Right => (page.views = hubs /\ RoomInView(page))'
    BY <1>3, <1>6, Waited
  <2> QED
    BY <1>5, <1>7, <2>1, Acts
<1>8. CASE QueueUpdateDraw(NewCall("list"))
  <2>1. PICK c \in Call : c = NewCall("list") /\ ByUser(c) /\ c.call = "list"
    BY PlainCall, CallNamesListed
  <2>2. Right => Leads(c, page)'
    BY <1>6, <2>1, Waited DEF Leads
  <2> QED
    BY <1>5, <1>8, <2>1, <2>2, AsksFor
<1> QED
  BY <1>1, <1>7, <1>8

LEMMA LeaveStep == ASSUME ChannelsInv, NEW room \in Rooms, Leave(room) PROVE ChannelsInv'
<1> DEFINE named == [page.widget EXCEPT !.room = room]
<1>1. /\ Settled /\ keys' = keys + 1 /\ dialog.kind = "none" /\ page.pane = "room" /\ Leaves(room)
      /\ Does("composer", active.hub, room, named)
      /\ UNCHANGED <<hubs, connected, active, dialog, events>>
  BY DEF Leave, Composer, Keypress
<1>2. page.widget \in Place
  BY Typed DEF Page
<1>3. named \in Place /\ named.hub = page.widget.hub /\ named.room = room
  BY <1>2 DEF Place
<1> HIDE DEF named
<1>4. /\ last'.named = named /\ last'.hub = active.hub /\ last'.room = room
      /\ last'.what = "composer" /\ last'.bare = (active.room = NoRoom)
  BY <1>1, Remembered
<1>5. Right => NamedActs(last')
  BY <1>1, <1>3, <1>4, Waited DEF RoomInView, NamedActs
<1> QED
  BY <1>1, <1>3, <1>4, <1>5, LeavesStep

LEMMA LeaveShownStep == ASSUME ChannelsInv, LeaveShown PROVE ChannelsInv'
<1>1. /\ Settled /\ keys' = keys + 1 /\ dialog.kind = "none" /\ Leaves(page.room)
      /\ Does("leave", active.hub, page.room, page.widget)
      /\ UNCHANGED <<hubs, connected, active, dialog, events>>
  BY DEF LeaveShown, ListKey, Keypress
<1>2. page.widget \in Place
  BY Typed DEF Page
<1>3. last'.named = page.widget /\ last'.what = "leave"
  BY <1>1, Remembered
<1> QED
  BY <1>1, <1>2, <1>3, LeavesStep DEF NamedActs

LEMMA UserStep == ASSUME ChannelsInv, User PROVE ChannelsInv'
<1>1. ASSUME NEW row \in page.rows, Move(row) PROVE ChannelsInv'
  BY <1>1, MoveStep
<1>2. CASE SelectHub \/ SelectRoom \/ HubKey
  BY <1>2, SelectHubStep, SelectRoomStep, HubKeyStep
<1>3. CASE RemoveSelectedDialog \/ RemoveSelected \/ EditHubDialog \/ EditHub \/ JoinRoomDialog \/ CloseDialog
  BY <1>3, EntryDialogStep, RemoveSelectedStep, EditHubStep, JoinRoomDialogStep, CloseDialogStep
<1>4. ASSUME NEW room \in Rooms, OpenRoom(room) \/ ChatLink(room) \/ JoinRoom(room) PROVE ChannelsInv'
  BY <1>4, OpenRoomStep, ChatLinkStep, JoinRoomStep
<1>5. ASSUME NEW h \in Hubs, AddHub(h) PROVE ChannelsInv'
  BY <1>5, AddHubStep
<1>6. ASSUME NEW h \in Hubs, NEW room \in Rooms \cup {NoRoom}, OpenLink(h, room) PROVE ChannelsInv'
  BY <1>6, OpenLinkStep
<1>7. CASE SlashCommand
  <2>1. CASE SendText \/ LocalMessage \/ Clear \/ HubCommand
    BY <2>1, SendTextStep, LocalMessageStep, ClearStep, HubCommandStep
  <2>2. ASSUME NEW room \in Rooms, JoinNamed(room) \/ Leave(room) PROVE ChannelsInv'
    BY <2>2, JoinNamedStep, LeaveStep
  <2> QED
    BY <1>7, <2>1, <2>2 DEF SlashCommand
<1>8. CASE LeaveShown
  BY <1>8, LeaveShownStep
<1> QED
  BY <1>1, <1>2, <1>3, <1>4, <1>5, <1>6, <1>7, <1>8 DEF User

LEMMA ChannelsStep == ChannelsInv /\ [ChannelsNext]_channelsVars => ChannelsInv'
<1> SUFFICES ASSUME ChannelsInv, [ChannelsNext]_channelsVars PROVE ChannelsInv'
  OBVIOUS
<1>1. ASSUME NEW h \in Hubs, HubChanges(h) PROVE ChannelsInv'
  BY <1>1, HubChangesStep
<1>2. ASSUME NEW h \in Hubs, NEW room \in Rooms, MessageArrives(h, room) PROVE ChannelsInv'
  BY <1>2, MessageArrivesStep
<1>3. CASE Worker
  BY <1>1, <1>2, <1>3 DEF Worker
<1> QED
  BY <1>3, RunStep, UserStep, StutterStep DEF ChannelsNext

(***************************************************************************)
(* The inductive invariant: the page is right, or the one call of the      *)
(* user's that is in the queue will make it so, until such a call is       *)
(* dropped (SetHubs, ShowRoom and the closures of textui.go that the       *)
(* callbacks hand to QueueUpdateDraw).                                     *)
(***************************************************************************)
THEOREM ChannelsInvHolds == ChannelsSpec => []ChannelsInv
BY InitInv, ChannelsStep, PTL DEF ChannelsSpec

(***************************************************************************)
(* The types, and that the selected row is always a row of the list        *)
(* (SetHubs, restoreRowSelection), whatever was dropped.                   *)
(***************************************************************************)
THEOREM ChannelsTypesHold == ChannelsSpec => []ChannelsTypeOK
<1>1. ChannelsInv => ChannelsTypeOK
  BY DEF ChannelsInv, Shape
<1> QED
  BY <1>1, ChannelsInvHolds, PTL

(***************************************************************************)
(* Unless a call of the user's has been dropped, what the composer sends   *)
(* goes to the hub and room whose chat is on the screen                    *)
(* (RoomWidget.sendMessage, handleSlashCommand).                           *)
(***************************************************************************)
THEOREM ComposerActsWhereShown == ChannelsSpec => []ActsWhereShown
<1>1. ChannelsInv => ActsWhereShown
  BY DEF ChannelsInv, Right, NamedActs, ActsWhereShown
<1> QED
  BY <1>1, ChannelsInvHolds, PTL

(***************************************************************************)
(* Unless a call of the user's has been dropped, what knows a hub by its   *)
(* place in the list acts on the hub that the screen names (rrcHubAt of    *)
(* OnConnect, OnDisconnect, OnRemoveSelected, OnEditHubSubmitted, and of   *)
(* OnOpenRoom in a panel that shows the hub for which it was built).  The  *)
(* dialog to join a room does not go by a place and is not covered.        *)
(***************************************************************************)
THEOREM ListActsOnTheHubNamed == ChannelsSpec => []ActsOnTheHubListed
<1>1. ChannelsInv => ActsOnTheHubListed
  BY DEF ChannelsInv, Right, NamedActs, ActsOnTheHubListed
<1> QED
  BY <1>1, ChannelsInvHolds, PTL

(***************************************************************************)
(* Unless a call of the user's has been dropped, the messages on the       *)
(* screen are those of the room in the header (RefreshRoomIfVisible,       *)
(* ShowRoom).                                                              *)
(***************************************************************************)
THEOREM HeaderNamesTheMessages == ChannelsSpec => []MessagesAreTheRooms
<1>1. ChannelsInv => MessagesAreTheRooms
  BY HubsAt DEF ChannelsInv, Right, Drawn, RoomInView, MessagesAreTheRooms, HubAt
<1> QED
  BY <1>1, ChannelsInvHolds, PTL
=============================================================================
