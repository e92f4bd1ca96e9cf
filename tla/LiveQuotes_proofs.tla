-------------------------- MODULE LiveQuotes_proofs --------------------------
(***************************************************************************)
(* Proofs about LiveQuotes for every set of sockets and symbols, every     *)
(* limit and bound, in every build and every world.                        *)
(***************************************************************************)
EXTENDS LiveQuotes, SequenceTheorems, FiniteSetTheorems, TLAPS

\* What RemoveAt leaves of a sequence.
LEMMA RemoveAtType ==
    ASSUME NEW S, NEW s \in Seq(S), NEW i \in DOMAIN s
    PROVE  RemoveAt(s, i) \in Seq(S)
  BY DEF RemoveAt

\* One subscription more or, if there was one, one less leaves the counts counts.
LEMMA CountsStayCounts ==
    ASSUME NEW h \in [Symbols -> [Conns -> Nat]], NEW s \in Symbols, NEW c \in Conns
    PROVE  /\ [h EXCEPT ![s][c] = @ + 1] \in [Symbols -> [Conns -> Nat]]
           /\ h[s][c] - 1 \in Nat
              => [h EXCEPT ![s][c] = @ - 1] \in [Symbols -> [Conns -> Nat]]
  <1>1. h[s] \in [Conns -> Nat] /\ h[s][c] \in Nat
    OBVIOUS
  <1>2. ASSUME NEW n \in Nat PROVE [h EXCEPT ![s][c] = n] \in [Symbols -> [Conns -> Nat]]
    <2>1. [h[s] EXCEPT ![c] = n] \in [Conns -> Nat]
      BY <1>1
    <2>2. QED BY <2>1
  <1>3. QED BY <1>1, <1>2

\* The messages of the handlers are messages.
LEMMA MessageTypes ==
    ASSUME NEW s \in Symbols, TypeOK
    PROVE  /\ Subscribe(s) \in Messages /\ Unsubscribe(s) \in Messages
           /\ <<Subscribe(s)>> \in Seq(Messages) /\ <<Unsubscribe(s)>> \in Seq(Messages)
           /\ Move(s) \in Seq(Messages)
  BY DEF TypeOK, Subscribe, Unsubscribe, Messages, Move

LEMMA SendType ==
    ASSUME TypeOK, NEW ms \in Seq(Messages), Send(ms)
    PROVE  toServer' \in [Conns -> Seq(Messages)]
  <1>1. ASSUME NEW c \in Conns PROVE toServer[c] \o ms \in Seq(Messages)
    BY DEF TypeOK
  <1>2. QED BY <1>1 DEF Send, TypeOK

LEMMA FetchType ==
    ASSUME TypeOK, NEW ss \in Seq(Symbols), ss # <<>>, Fetch(ss)
    PROVE  loads' \in Seq(Symbols) /\ candles' \in Symbols \cup {Nothing}
  <1>1. Last(ss) \in Symbols
    BY DEF Last
  <1>2. loads \o ss \in Seq(Symbols)
    BY DEF TypeOK
  <1>3. CASE "slow_market" \in world
    BY <1>2, <1>3 DEF Fetch, TypeOK
  <1>4. CASE "slow_market" \notin world
    BY <1>1, <1>4 DEF Fetch, TypeOK
  <1>5. QED BY <1>3, <1>4

LEMMA ShutType == TypeOK => Shut \in [Conns -> ReadyStates]
  BY DEF TypeOK, Shut, ReadyStates

LEMMA ClearTimerType == \A n \in Nat : ClearTimer(n) \in Nat /\ ClearTimer(n) <= n
  BY DEF ClearTimer

-----------------------------------------------------------------------------
\* The steps of the page that are no handler of the user keep the types.
LEMMA SocketTypes ==
    ASSUME PageAssumption, TypeOK,
           \/ \E b \in Builds : Mount(b)
           \/ Unmount \/ RetryTimer \/ Render
           \/ \E c \in Conns : Opened(c) \/ ConnectFails(c) \/ Lost(c) \/ CloseEvent(c)
    PROVE  TypeOK'
  <1>1. ASSUME NEW b \in Builds, Mount(b) PROVE TypeOK'
    <2>1. <<currentSymbol>> \in Seq(Symbols) /\ <<currentSymbol, currentSymbol>> \in Seq(Symbols)
      BY DEF TypeOK
    <2>2. /\ loads' \in Seq(Symbols) /\ candles' \in Symbols \cup {Nothing}
      BY <1>1, <2>1, FetchType DEF Mount
    <2>3. ws' \in Conns /\ readyState' \in [Conns -> ReadyStates]
      BY <1>1 DEF Mount, TypeOK, ReadyStates
    <2>4. QED BY <1>1, <2>2, <2>3 DEF Mount, TypeOK
  <1>2. ASSUME Unmount PROVE TypeOK'
    <2>1. readyState' \in [Conns -> ReadyStates]
      BY <1>2, ShutType DEF Unmount
    <2>2. timers' \in Nat /\ loads' \in Seq(Symbols)
      BY <1>2, ClearTimerType DEF Unmount, TypeOK
    <2>3. subscriptions' \in SUBSET Symbols
      BY <1>2 DEF Unmount, TypeOK
    <2>4. QED BY <1>2, <2>1, <2>2, <2>3 DEF Unmount, TypeOK
  <1>3. ASSUME RetryTimer PROVE TypeOK'
    <2>1. timers - 1 \in Nat
      BY <1>3 DEF RetryTimer, TypeOK
    <2>2. /\ ws' \in Conns \cup {Nothing} /\ readyState' \in [Conns -> ReadyStates]
          /\ isConnected' \in BOOLEAN /\ timers' \in Nat
      <3>1. CASE ws # Nothing /\ readyState[ws] \in {"open", "connecting"}
        BY <1>3, <2>1, <3>1 DEF RetryTimer, Connect, TypeOK
      <3>2. CASE ~ (ws # Nothing /\ readyState[ws] \in {"open", "connecting"})
        <4>1. PICK c \in Conns :
                /\ readyState' = [Shut EXCEPT ![c] = "connecting"]
                /\ ws' = c /\ isConnected' = FALSE /\ timers' = ClearTimer(timers - 1)
          BY <1>3, <3>2 DEF RetryTimer, Connect
        <4>2. QED BY <2>1, <4>1, ShutType, ClearTimerType DEF ReadyStates
      <3>3. QED BY <3>1, <3>2
    <2>3. QED BY <1>3, <2>2 DEF RetryTimer, TypeOK
  <1>4. ASSUME Render PROVE TypeOK'
    <2>1. toServer' \in [Conns -> Seq(Messages)]
      BY <1>4, MessageTypes, SendType DEF Render, TypeOK
    <2>2. subscriptions' \in SUBSET Symbols
      BY <1>4 DEF Render, TypeOK
    <2>3. QED BY <1>4, <2>1, <2>2 DEF Render, TypeOK
  <1>5. ASSUME NEW c \in Conns, Opened(c) PROVE TypeOK'
    <2>1. PICK q \in SetToSeqs(subscriptions) :
            toServer' = [toServer EXCEPT ![c] = [i \in DOMAIN q |-> Subscribe(q[i])]]
      BY <1>5 DEF Opened
    <2> DEFINE n == Cardinality(subscriptions)
               ms == [i \in DOMAIN q |-> Subscribe(q[i])]
    <2>2. q \in [1..n -> subscriptions]
      BY <2>1 DEF SetToSeqs
    <2>3. \A i \in 1..n : q[i] \in Symbols
      BY <2>2 DEF TypeOK
    <2>4. ms \in [1..n -> Messages]
      BY <2>2, <2>3, MessageTypes
    <2>5. ms \in Seq(Messages)
      <3>1. n \in Nat
        BY FS_Subset, FS_CardinalityType DEF PageAssumption, TypeOK
      <3>2. QED BY <2>4, <3>1, SeqDef
    <2>6. toServer' \in [Conns -> Seq(Messages)]
      BY <2>1, <2>5 DEF TypeOK
    <2>7. QED BY <1>5, <2>6 DEF Opened, TypeOK, ReadyStates
  <1>6. ASSUME NEW c \in Conns, ConnectFails(c) \/ Lost(c) PROVE TypeOK'
    BY <1>6 DEF ConnectFails, Lost, TypeOK, ReadyStates
  <1>7. ASSUME NEW c \in Conns, CloseEvent(c) PROVE TypeOK'
    <2>1. attempts' \in 0..MaxReconnectAttempts /\ timers' \in Nat
      <3>1. \/ /\ attempts < MaxReconnectAttempts
               /\ attempts' = attempts + 1 /\ timers' = timers + 1
            \/ UNCHANGED <<attempts, timers>>
        BY <1>7 DEF CloseEvent
      <3>2. /\ attempts \in 0..MaxReconnectAttempts /\ timers \in Nat
            /\ MaxReconnectAttempts \in Nat
        BY DEF TypeOK, PageAssumption
      <3>3. QED BY <3>1, <3>2
    <2>2. hitches' \in SUBSET Hitches
      BY <1>7 DEF CloseEvent, TypeOK, Hitches
    <2>3. toServer' \in [Conns -> Seq(Messages)]
      BY <1>7 DEF CloseEvent, TypeOK
    <2>4. QED BY <1>7, <2>1, <2>2, <2>3 DEF CloseEvent, TypeOK, ReadyStates
  <1>8. QED BY <1>1, <1>2, <1>3, <1>4, <1>5, <1>6, <1>7

\* So do the handlers of the user and the answers of fetches.
LEMMA UserTypes ==
    ASSUME PageAssumption, TypeOK,
           \/ HandleTimeframeChange
           \/ \E s \in Symbols : HandleSymbolChange(s) \/ Navigate(s)
           \/ \E i \in 1..MaxLoads : LoadArrives(i) \/ LoadFails(i)
    PROVE  TypeOK'
  <1>1. ASSUME HandleTimeframeChange PROVE TypeOK'
    <2>1. <<currentSymbol>> \in Seq(Symbols)
      BY DEF TypeOK
    <2>2. loads' \in Seq(Symbols) /\ candles' \in Symbols \cup {Nothing}
      BY <1>1, <2>1, FetchType DEF HandleTimeframeChange
    <2>3. QED BY <1>1, <2>2 DEF HandleTimeframeChange, TypeOK
  <1>2. ASSUME NEW s \in Symbols, HandleSymbolChange(s) PROVE TypeOK'
    <2> DEFINE ss == IF s = currentSymbol THEN <<s>> ELSE <<s, s>>
               ms == Move(s) \o (IF s = currentSymbol THEN <<>> ELSE Move(s))
    <2>1. ss \in Seq(Symbols) /\ ss # <<>>
      OBVIOUS
    <2>2. Fetch(ss)
      BY <1>2 DEF HandleSymbolChange
    <2> HIDE DEF ss
    <2>3. loads' \in Seq(Symbols) /\ candles' \in Symbols \cup {Nothing}
      BY <2>1, <2>2, FetchType
    <2>4. ms \in Seq(Messages)
      BY MessageTypes
    <2>5. \/ UNCHANGED <<subscriptions, toServer>>
          \/ subscriptions' = Moved(s) /\ Send(ms)
      BY <1>2 DEF HandleSymbolChange
    <2> HIDE DEF ms
    <2>6. subscriptions' \in SUBSET Symbols
      BY <2>5 DEF Moved, TypeOK
    <2>7. toServer' \in [Conns -> Seq(Messages)]
      BY <2>4, <2>5, SendType DEF TypeOK
    <2>8. QED BY <1>2, <2>3, <2>6, <2>7 DEF HandleSymbolChange, TypeOK
  <1>3. ASSUME NEW s \in Symbols, Navigate(s) PROVE TypeOK'
    <2>1. <<s>> \in Seq(Symbols)
      OBVIOUS
    <2>2. loads' \in Seq(Symbols) /\ candles' \in Symbols \cup {Nothing}
      BY <1>3, <2>1, FetchType DEF Navigate
    <2>3. subscriptions' \in SUBSET Symbols
      BY <1>3 DEF Navigate, Moved, TypeOK
    <2>4. toServer' \in [Conns -> Seq(Messages)]
      BY <1>3, MessageTypes, SendType DEF Navigate, TypeOK
    <2>5. QED BY <1>3, <2>2, <2>3, <2>4 DEF Navigate, TypeOK
  <1>4. ASSUME NEW i \in 1..MaxLoads, LoadArrives(i) \/ LoadFails(i) PROVE TypeOK'
    <2>1. i \in DOMAIN loads /\ loads' = RemoveAt(loads, i)
      BY <1>4 DEF LoadArrives, LoadFails
    <2>2. loads' \in Seq(Symbols) /\ loads[i] \in Symbols
      BY <2>1, RemoveAtType DEF TypeOK
    <2>3. QED BY <1>4, <2>2 DEF LoadArrives, LoadFails, TypeOK
  <1>5. QED BY <1>1, <1>2, <1>3, <1>4

\* And the hub.
LEMMA HubTypes ==
    ASSUME PageAssumption, TypeOK,
           \/ HubSweeps
           \/ \E c \in Conns : HubAnswers(c) \/ HubReceives(c) \/ HubLoses(c) \/ HubForgets(c)
           \/ \E s \in Symbols : HubFallsSilent(s)
    PROVE  TypeOK'
  <1> USE DEF pageVars, feedVars
  <1>1. ASSUME HubSweeps PROVE TypeOK'
    <2>1. holds' \in [Symbols -> [Conns -> Nat]]
      BY <1>1 DEF HubSweeps, TypeOK
    <2>2. QED BY <1>1, <2>1 DEF HubSweeps, Feed!Evict, TypeOK
  <1>2. ASSUME NEW c \in Conns, HubAnswers(c) PROVE TypeOK'
    BY <1>2 DEF HubAnswers, Feed!Attach, Feed!TurnAway, Feed!LinkStates, TypeOK
  <1>3. ASSUME NEW c \in Conns, HubReceives(c) PROVE TypeOK'
    <2> DEFINE m == Head(toServer[c])
    <2>1. toServer[c] \in Seq(Messages) /\ toServer[c] # <<>>
      BY <1>3 DEF HubReceives, TypeOK
    <2>2. m \in Messages /\ Tail(toServer[c]) \in Seq(Messages)
      BY <2>1
    <2>3. toServer' \in [Conns -> Seq(Messages)]
      BY <1>3, <2>2 DEF HubReceives, TypeOK
    <2>4. m.symbol \in Symbols
      BY <2>2 DEF Messages
    <2>5. \/ Feed!Subscribe(c, m.symbol)
          \/ holds[m.symbol][c] > 0 /\ Feed!Unsubscribe(c, m.symbol)
          \/ UNCHANGED feedVars
      BY <1>3 DEF HubReceives
    <2> HIDE DEF m
    <2>6. ASSUME NEW s \in Symbols, Feed!Subscribe(c, s)
          PROVE  holds' \in [Symbols -> [Conns -> Nat]] /\ silent' \in SUBSET Symbols
      <3> DEFINE h == [holds EXCEPT ![s][c] = @ + 1]
      <3>1. h \in [Symbols -> [Conns -> Nat]]
        BY CountsStayCounts DEF TypeOK
      <3> HIDE DEF h
      <3>2. Feed!Sent(h, s) \in [Symbols -> [Conns -> Nat]]
        BY <3>1 DEF Feed!Sent
      <3>3. \/ holds' = h /\ silent' = silent
            \/ holds' = Feed!Sent(h, s) /\ silent' = silent \ {s}
        BY <2>6 DEF Feed!Subscribe, h
      <3>4. QED BY <3>1, <3>2, <3>3 DEF TypeOK
    <2>7. ASSUME NEW s \in Symbols, holds[s][c] > 0, Feed!Unsubscribe(c, s)
          PROVE  holds' \in [Symbols -> [Conns -> Nat]] /\ silent' \in SUBSET Symbols
      <3>0. holds \in [Symbols -> [Conns -> Nat]]
        BY DEF TypeOK
      <3>1. holds[s][c] - 1 \in Nat
        BY <2>7, <3>0
      <3>2. holds' = [holds EXCEPT ![s][c] = @ - 1] /\ silent' = silent
        BY <2>7 DEF Feed!Unsubscribe
      <3>3. [holds EXCEPT ![s][c] = @ - 1] \in [Symbols -> [Conns -> Nat]]
        BY <3>1, CountsStayCounts DEF TypeOK
      <3>4. QED BY <3>2, <3>3 DEF TypeOK
    <2>8. /\ holds' \in [Symbols -> [Conns -> Nat]] /\ silent' \in SUBSET Symbols
          /\ running' = running /\ link' = link
      BY <2>4, <2>5, <2>6, <2>7 DEF Feed!Subscribe, Feed!Unsubscribe, TypeOK
    <2>9. QED BY <1>3, <2>3, <2>8 DEF HubReceives, TypeOK
  <1>4. ASSUME NEW c \in Conns, HubLoses(c) \/ HubForgets(c) PROVE TypeOK'
    <2>1. holds' \in [Symbols -> [Conns -> Nat]]
      <3>1. \A D : Feed!Without(holds, D) \in [Symbols -> [Conns -> Nat]]
        BY DEF Feed!Without, TypeOK
      <3>2. \/ holds' = holds
            \/ holds' = Feed!Without(holds, {c})
        BY <1>4 DEF HubLoses, HubForgets, Feed!Fail, Feed!Leave
      <3>3. QED BY <3>1, <3>2 DEF TypeOK
    <2>2. link' \in [Conns -> Feed!LinkStates]
      BY <1>4 DEF HubLoses, HubForgets, Feed!Fail, Feed!Leave, Feed!LinkStates, TypeOK
    <2>3. QED BY <1>4, <2>1, <2>2 DEF HubLoses, HubForgets, Feed!Fail, Feed!Leave, TypeOK
  <1>5. ASSUME NEW s \in Symbols, HubFallsSilent(s) PROVE TypeOK'
    BY <1>5 DEF HubFallsSilent, Feed!Silence, TypeOK
  <1>6. QED BY <1>1, <1>2, <1>3, <1>4, <1>5

(***************************************************************************)
(* The types: of the hooks' refs and states, of the sockets, and of the    *)
(* messages on their way to the hub (useWebSocket.tsx).                    *)
(***************************************************************************)
THEOREM TypeCorrect == Spec => []TypeOK
  <1>1. Init => TypeOK
    <2>1. SUFFICES ASSUME Init PROVE TypeOK
      OBVIOUS
    <2>2. holds \in [Symbols -> [Conns -> Nat]]
      BY <2>1 DEF Init, Feed!Init, Feed!None
    <2>3. running \in BOOLEAN /\ link \in [Conns -> Feed!LinkStates] /\ silent \in SUBSET Symbols
      BY <2>1 DEF Init, Feed!Init, Feed!LinkStates
    <2>4. loads \in Seq(Symbols) /\ toServer \in [Conns -> Seq(Messages)]
      <3>1. <<>> \in Seq(Symbols) /\ <<>> \in Seq(Messages)
        OBVIOUS
      <3>2. QED BY <2>1, <3>1 DEF Init
    <2>5. readyState \in [Conns -> ReadyStates]
      BY <2>1 DEF Init, ReadyStates
    <2>6. /\ world \in Worlds /\ mounted \in {"new", "mounted", "gone"}
          /\ ws \in Conns \cup {Nothing} /\ candles \in Symbols \cup {Nothing}
          /\ isConnected \in BOOLEAN /\ rendered \in BOOLEAN
      BY <2>1 DEF Init
    <2>7. /\ subscriptions \in SUBSET Symbols /\ hitches \in SUBSET Hitches
          /\ attempts \in 0..MaxReconnectAttempts /\ timers \in Nat /\ currentSymbol \in Symbols
      BY <2>1, PageAssumption DEF Init, PageAssumption
    <2>8. QED BY <2>2, <2>3, <2>4, <2>5, <2>6, <2>7 DEF TypeOK
  <1>2. TypeOK /\ [Next]_vars => TypeOK'
    <2>1. TypeOK /\ UNCHANGED vars => TypeOK'
      BY DEF TypeOK, vars
    <2>2. QED BY <2>1, PageAssumption, SocketTypes, UserTypes, HubTypes DEF Next
  <1>3. QED
    BY <1>1, <1>2, PTL DEF Spec

-----------------------------------------------------------------------------
(***************************************************************************)
(* Sockets.  Before the page is mounted there are none.                    *)
(***************************************************************************)
Live(c) == readyState[c] \in {"connecting", "open"}

NotYet == mounted = "new" => ws = Nothing /\ timers = 0 /\ \A c \in Conns : readyState[c] = "new"

SocketInv == NoOrphanSocket /\ NotYet

\* What connect() does: a socket is made only when that of wsRef is not alive.
LEMMA ConnectMoves ==
    ASSUME PageAssumption, TypeOK, NoOrphanSocket, NEW n, Connect(n)
    PROVE  /\ NoOrphanSocket'
           /\ timers' = n \/ timers' = ClearTimer(n)
  <1>1. CASE ws # Nothing /\ readyState[ws] \in {"open", "connecting"}
    BY <1>1 DEF Connect, NoOrphanSocket
  <1>2. CASE ~ (ws # Nothing /\ readyState[ws] \in {"open", "connecting"})
    <2>1. PICK c \in Conns : /\ readyState' = [Shut EXCEPT ![c] = "connecting"]
                             /\ ws' = c /\ timers' = ClearTimer(n)
      BY <1>2 DEF Connect
    <2>2. \A d \in Conns : ~Live(d)
      BY <1>2 DEF NoOrphanSocket, Live, PageAssumption
    <2>3. \A d \in Conns : d # c => readyState'[d] \notin {"connecting", "open"}
      BY <2>1, <2>2 DEF Shut, Live, TypeOK
    <2>4. QED BY <2>1, <2>3 DEF NoOrphanSocket
  <1>3. QED BY <1>1, <1>2

\* cleanup() leaves no socket alive.
LEMMA UnmountMoves ==
    ASSUME PageAssumption, TypeOK, NoOrphanSocket, Unmount
    PROVE  \A c \in Conns : readyState'[c] \notin {"connecting", "open"}
  BY DEF Unmount, Shut, NoOrphanSocket, TypeOK

\* The steps that touch no socket, no timer and no hitch.
Elsewhere ==
    \/ Render \/ HandleTimeframeChange \/ HubSweeps
    \/ \E c \in Conns : HubAnswers(c) \/ HubReceives(c) \/ HubLoses(c) \/ HubForgets(c)
    \/ \E s \in Symbols : HandleSymbolChange(s) \/ Navigate(s) \/ HubFallsSilent(s)
    \/ \E i \in 1..MaxLoads : LoadArrives(i) \/ LoadFails(i)
    \/ UNCHANGED vars

LEMMA ElsewhereFrame == Elsewhere => UNCHANGED <<world, mounted, ws, readyState, timers, hitches>>
  BY DEF Elsewhere, Render, HandleTimeframeChange, HubSweeps, HubAnswers, HubReceives, HubLoses,
         HubForgets, HandleSymbolChange, Navigate, HubFallsSilent, LoadArrives, LoadFails,
         pageVars, vars

LEMMA StepSockets ==
    ASSUME PageAssumption, TypeOK, SocketInv, [Next]_vars
    PROVE  SocketInv'
  <1>1. ASSUME NEW b \in Builds, Mount(b) PROVE SocketInv'
    <2>1. \A c \in Conns : readyState[c] = "new"
      BY <1>1 DEF Mount, SocketInv, NotYet
    <2>2. \A c \in Conns : readyState'[c] \in {"connecting", "open"} => c = ws'
      BY <1>1, <2>1 DEF Mount, TypeOK
    <2>3. QED BY <1>1, <2>2 DEF Mount, SocketInv, NoOrphanSocket, NotYet
  <1>2. ASSUME Unmount PROVE SocketInv'
    BY <1>2, UnmountMoves DEF SocketInv, NoOrphanSocket, NotYet, Unmount
  <1>3. ASSUME RetryTimer PROVE SocketInv'
    BY <1>3, ConnectMoves DEF RetryTimer, SocketInv, NotYet, TypeOK
  <1>4. ASSUME NEW c \in Conns, Opened(c) PROVE SocketInv'
    BY <1>4 DEF Opened, SocketInv, NoOrphanSocket, NotYet, TypeOK
  <1>5. ASSUME NEW c \in Conns, ConnectFails(c) \/ Lost(c) PROVE SocketInv'
    BY <1>5 DEF ConnectFails, Lost, SocketInv, NoOrphanSocket, NotYet, TypeOK
  <1>6. ASSUME NEW c \in Conns, CloseEvent(c) PROVE SocketInv'
    BY <1>6 DEF CloseEvent, SocketInv, NoOrphanSocket, NotYet, TypeOK
  <1>7. ASSUME Elsewhere PROVE SocketInv'
    BY <1>7, ElsewhereFrame DEF SocketInv, NoOrphanSocket, NotYet
  <1>8. QED
    BY <1>1, <1>2, <1>3, <1>4, <1>5, <1>6, <1>7 DEF Next, Elsewhere

(***************************************************************************)
(* Every live socket is the one of wsRef, which cleanup() closes: no       *)
(* socket is orphaned by a reconnection, a remount or a late close event   *)
(* (useWebSocket.tsx:138-262).                                             *)
(***************************************************************************)
THEOREM NoOrphans == Spec => []NoOrphanSocket
  <1>1. Init => SocketInv
    BY DEF Init, SocketInv, NoOrphanSocket, NotYet
  <1>2. TypeOK /\ SocketInv /\ [Next]_vars => SocketInv'
    BY StepSockets, PageAssumption
  <1>3. SocketInv => NoOrphanSocket
    BY DEF SocketInv
  <1>4. QED
    BY <1>1, <1>2, <1>3, TypeCorrect, PTL DEF Spec

-----------------------------------------------------------------------------
(***************************************************************************)
(* The page that has gone.  The timer armed last is the only one, as long  *)
(* as none was lost.                                                       *)
(***************************************************************************)
OneTimer == "timer_lost" \notin hitches => timers <= 1

GoneInv == OneTimer /\ GoneStaysGone

LEMMA StepGone ==
    ASSUME PageAssumption, TypeOK, SocketInv, GoneInv, [Next]_vars
    PROVE  GoneInv'
  <1> USE DEF Unhindered
  <1>0. timers \in Nat
    BY DEF TypeOK
  <1>1. ASSUME NEW b \in Builds, Mount(b) PROVE GoneInv'
    BY <1>1 DEF Mount, GoneInv, OneTimer, GoneStaysGone
  <1>2. ASSUME Unmount PROVE GoneInv'
    <2>1. \A c \in Conns : readyState'[c] \notin {"connecting", "open"}
      BY <1>2, UnmountMoves DEF SocketInv
    <2>2. timers' = ClearTimer(timers) /\ hitches' = hitches
      BY <1>2 DEF Unmount
    <2>3. OneTimer'
      BY <1>0, <2>2 DEF GoneInv, OneTimer, ClearTimer
    <2>4. "timer_lost" \notin hitches => timers' = 0
      BY <1>0, <2>2 DEF GoneInv, OneTimer, ClearTimer
    <2>5. QED BY <2>1, <2>2, <2>3, <2>4 DEF GoneInv, GoneStaysGone
  <1>3. ASSUME RetryTimer PROVE GoneInv'
    <2>1. timers > 0 /\ timers' <= timers /\ UNCHANGED <<mounted, hitches, world>>
      BY <1>0, <1>3, ConnectMoves DEF RetryTimer, SocketInv, ClearTimer
    <2>2. OneTimer'
      <3>1. timers' \in Nat
        BY <1>0, <1>3, ConnectMoves DEF RetryTimer, SocketInv, ClearTimer
      <3>2. QED BY <1>0, <2>1, <3>1 DEF GoneInv, OneTimer
    <2>3. GoneStaysGone'
      BY <2>1 DEF GoneInv, GoneStaysGone
    <2>4. QED BY <2>2, <2>3 DEF GoneInv
  <1>4. ASSUME NEW c \in Conns, Opened(c) PROVE GoneInv'
    <2>1. /\ UNCHANGED <<mounted, timers, hitches, world>> /\ readyState[c] = "connecting"
      BY <1>4 DEF Opened
    <2>2. QED BY <2>1 DEF GoneInv, OneTimer, GoneStaysGone
  <1>5. ASSUME NEW c \in Conns, ConnectFails(c) \/ Lost(c) PROVE GoneInv'
    BY <1>5 DEF ConnectFails, Lost, GoneInv, OneTimer, GoneStaysGone, TypeOK
  <1>6. ASSUME NEW c \in Conns, CloseEvent(c) PROVE GoneInv'
    <2>1. PICK clean \in {FALSE, readyState[c] = "closing"} :
            /\ IF ~clean /\ attempts < MaxReconnectAttempts
               THEN timers' = timers + 1 ELSE timers' = timers
            /\ hitches' = hitches
                  \cup (IF mounted = "gone" /\ ~clean THEN {"unclean_exit"} ELSE {})
                  \cup (IF ws \notin {c, Nothing} /\ readyState[ws] = "open"
                        THEN {"late_close"} ELSE {})
                  \cup (IF timers > 0 /\ timers' > timers THEN {"timer_lost"} ELSE {})
      BY <1>6 DEF CloseEvent
    <2>2. UNCHANGED <<mounted, world>> /\ readyState' = [readyState EXCEPT ![c] = "closed"]
      BY <1>6 DEF CloseEvent
    <2>3. ASSUME "timer_lost" \notin hitches' PROVE timers' <= 1
      BY <1>0, <2>1, <2>3 DEF GoneInv, OneTimer
    <2>4. ASSUME mounted = "gone", Unhindered({"unclean_exit", "timer_lost"})'
          PROVE  timers' = timers /\ Unhindered({"unclean_exit", "timer_lost"})
      BY <2>1, <2>2, <2>4
    <2>5. QED BY <2>2, <2>3, <2>4 DEF GoneInv, OneTimer, GoneStaysGone, TypeOK
  <1>7. ASSUME Elsewhere PROVE GoneInv'
    BY <1>7, ElsewhereFrame DEF GoneInv, OneTimer, GoneStaysGone
  <1>8. QED
    BY <1>1, <1>2, <1>3, <1>4, <1>5, <1>6, <1>7 DEF Next, Elsewhere

(***************************************************************************)
(* A page that has gone stays gone: cleanup() clears the only timer and    *)
(* closes the only socket, and no close event arms another unless a close  *)
(* was not clean or a timer had been lost (useWebSocket.tsx:173-202).      *)
(***************************************************************************)
THEOREM PageStaysGone == Spec => []GoneStaysGone
  <1>1. Init => SocketInv /\ GoneInv
    BY DEF Init, SocketInv, NoOrphanSocket, NotYet, GoneInv, OneTimer, GoneStaysGone
  <1>2. TypeOK /\ SocketInv /\ GoneInv /\ [Next]_vars => SocketInv' /\ GoneInv'
    BY StepSockets, StepGone, PageAssumption
  <1>3. GoneInv => GoneStaysGone
    BY DEF GoneInv
  <1>4. QED
    BY <1>1, <1>2, <1>3, TypeCorrect, PTL DEF Spec

-----------------------------------------------------------------------------
(***************************************************************************)
(* Candles.  The last call of fetchData is for the symbol shown, and the   *)
(* answers come in the order of the calls.                                 *)
(***************************************************************************)
CandlesInv ==
    /\ "slow_market" \notin world => loads = <<>>
    /\ mounted = "mounted" /\ Unhindered({"disorder", "load_fails"})
       => IF loads = <<>> THEN candles = currentSymbol ELSE Last(loads) = currentSymbol

\* The last of two sequences in a row is the last of the second.
LEMMA LastOfBoth ==
    ASSUME NEW S, NEW s \in Seq(S), NEW t \in Seq(S), t # <<>>
    PROVE  s \o t # <<>> /\ Last(s \o t) = Last(t)
  <1>1. Len(t) > 0 /\ Len(s \o t) = Len(s) + Len(t)
    OBVIOUS
  <1>2. (s \o t)[Len(s) + Len(t)] = t[Len(t)]
    BY <1>1
  <1>3. QED BY <1>1, <1>2 DEF Last

\* Without its first element a sequence is empty or has the same last one.
LEMMA WithoutFirst ==
    ASSUME NEW S, NEW s \in Seq(S), 1 \in DOMAIN s
    PROVE  /\ RemoveAt(s, 1) = <<>> => s[1] = Last(s)
           /\ RemoveAt(s, 1) # <<>> => Last(RemoveAt(s, 1)) = Last(s)
  <1> DEFINE t == SubSeq(s, 2, Len(s))
  <1>1. SubSeq(s, 1, 0) = <<>>
    OBVIOUS
  <1>2. t \in Seq(S) /\ Len(t) = Len(s) - 1 /\ \A i \in 1..Len(t) : t[i] = s[i + 1]
    <2>1. s # <<>>
      OBVIOUS
    <2>2. t = Tail(s)
      BY <2>1, TailIsSubSeq
    <2>3. QED BY <2>1, <2>2, HeadTailProperties
  <1>3. RemoveAt(s, 1) = t
    BY <1>1, <1>2 DEF RemoveAt
  <1>4. CASE t = <<>>
    BY <1>2, <1>3, <1>4 DEF Last
  <1>5. CASE t # <<>>
    <2>1. Len(t) >= 1
      BY <1>2, <1>5
    <2>2. t[Len(t)] = s[Len(s)]
      BY <1>2, <2>1
    <2>3. QED BY <1>3, <1>5, <2>2 DEF Last
  <1>6. QED BY <1>4, <1>5

\* A fetch of ss, the last of which is the symbol shown from then on.
LEMMA FetchCandles ==
    ASSUME TypeOK, CandlesInv, NEW ss \in Seq(Symbols), ss # <<>>, Fetch(ss),
           world' = world, currentSymbol' = Last(ss)
    PROVE  CandlesInv'
  <1>1. CASE "slow_market" \in world
    <2>1. loads' = loads \o ss
      BY <1>1 DEF Fetch
    <2>2. loads' # <<>> /\ Last(loads') = Last(ss)
      BY <2>1, LastOfBoth DEF TypeOK
    <2>3. QED BY <1>1, <2>2 DEF CandlesInv
  <1>2. CASE "slow_market" \notin world
    BY <1>2 DEF Fetch, CandlesInv
  <1>3. QED BY <1>1, <1>2

LEMMA StepCandles ==
    ASSUME PageAssumption, TypeOK, CandlesInv, [Next]_vars
    PROVE  CandlesInv'
  <1>0. /\ currentSymbol \in Symbols /\ loads \in Seq(Symbols)
        /\ \A s \in Symbols : /\ <<s>> \in Seq(Symbols) /\ <<s>> # <<>> /\ Last(<<s>>) = s
                              /\ <<s, s>> \in Seq(Symbols) /\ <<s, s>> # <<>> /\ Last(<<s, s>>) = s
    BY DEF TypeOK, Last
  <1>1. ASSUME NEW b \in Builds, Mount(b) PROVE CandlesInv'
    <2>1. Fetch(<<currentSymbol>>) \/ Fetch(<<currentSymbol, currentSymbol>>)
      BY <1>1 DEF Mount
    <2>2. UNCHANGED <<world, currentSymbol>>
      BY <1>1 DEF Mount
    <2>3. QED BY <1>0, <2>1, <2>2, FetchCandles
  <1>2. ASSUME Unmount PROVE CandlesInv'
    BY <1>2 DEF Unmount, CandlesInv
  <1>3. ASSUME HandleTimeframeChange PROVE CandlesInv'
    BY <1>0, <1>3, FetchCandles DEF HandleTimeframeChange
  <1>4. ASSUME NEW s \in Symbols, HandleSymbolChange(s) PROVE CandlesInv'
    <2>1. /\ Fetch(<<s>>) \/ Fetch(<<s, s>>)
          /\ world' = world /\ currentSymbol' = s
      BY <1>4 DEF HandleSymbolChange
    <2>2. QED BY <1>0, <2>1, FetchCandles
  <1>5. ASSUME NEW s \in Symbols, Navigate(s) PROVE CandlesInv'
    <2>1. Fetch(<<s>>) /\ world' = world /\ currentSymbol' = s
      BY <1>5 DEF Navigate
    <2>2. QED BY <1>0, <2>1, FetchCandles
  <1>6. ASSUME NEW i \in 1..MaxLoads, LoadArrives(i) \/ LoadFails(i) PROVE CandlesInv'
    <2>1. /\ i \in DOMAIN loads /\ loads' = RemoveAt(loads, i)
          /\ UNCHANGED <<world, mounted, currentSymbol, hitches>>
          /\ i = 1 \/ "disorder" \in world
          /\ candles' = loads[i] \/ "load_fails" \in world
      BY <1>6 DEF LoadArrives, LoadFails
    <2>2. "slow_market" \in world
      BY <2>1 DEF CandlesInv
    <2>3. SUFFICES ASSUME mounted = "mounted", Unhindered({"disorder", "load_fails"})
                   PROVE  IF loads' = <<>> THEN candles' = currentSymbol
                                           ELSE Last(loads') = currentSymbol
      BY <2>1, <2>2 DEF CandlesInv, Unhindered
    <2>4. i = 1 /\ candles' = loads[1] /\ loads # <<>>
      BY <2>1, <2>3 DEF Unhindered
    <2>5. Last(loads) = currentSymbol
      BY <2>3, <2>4 DEF CandlesInv
    <2>6. QED BY <1>0, <2>1, <2>4, <2>5, WithoutFirst
  <1>7. ASSUME \/ RetryTimer \/ Render \/ HubSweeps
               \/ \E c \in Conns : \/ Opened(c) \/ ConnectFails(c) \/ Lost(c)
                                   \/ HubAnswers(c) \/ HubReceives(c) \/ HubLoses(c) \/ HubForgets(c)
               \/ \E s \in Symbols : HubFallsSilent(s)
               \/ UNCHANGED vars
        PROVE  CandlesInv'
    <2>1. UNCHANGED <<world, mounted, currentSymbol, loads, candles, hitches>>
      BY <1>7 DEF RetryTimer, Render, HubSweeps, Opened, ConnectFails, Lost, HubAnswers,
                  HubReceives, HubLoses, HubForgets, HubFallsSilent, pageVars, vars
    <2>2. QED BY <2>1 DEF CandlesInv, Unhindered
  <1>8. ASSUME NEW c \in Conns, CloseEvent(c) PROVE CandlesInv'
    BY <1>8 DEF CloseEvent, CandlesInv, Unhindered
  <1>9. QED
    BY <1>1, <1>2, <1>3, <1>4, <1>5, <1>6, <1>7, <1>8 DEF Next

(***************************************************************************)
(* The candles shown are those of the symbol shown when every fetch has    *)
(* been answered in order and none failed, however fast the user picks     *)
(* (useSymbolManagement.tsx, ChartSymbolContext.tsx).                      *)
(***************************************************************************)
THEOREM CandlesOfTheSymbol == Spec => []CandlesFollowSymbol
  <1>1. Init => CandlesInv
    BY DEF Init, CandlesInv
  <1>2. TypeOK /\ CandlesInv /\ [Next]_vars => CandlesInv'
    BY StepCandles, PageAssumption
  <1>3. CandlesInv => CandlesFollowSymbol
    BY DEF CandlesInv, CandlesFollowSymbol
  <1>4. QED
    BY <1>1, <1>2, <1>3, TypeCorrect, PTL DEF Spec

-----------------------------------------------------------------------------
(***************************************************************************)
(* Messages on their way.  The hub that holds n subscriptions to a symbol  *)
(* and reads the messages q holds m of them after that: h says how many    *)
(* after each message.  Unsubscribing what is not held does nothing.       *)
(***************************************************************************)
Effect(n, msg, x) ==
    IF msg.symbol # x THEN n
    ELSE IF msg.type = "subscribe" THEN n + 1
    ELSE IF n > 0 THEN n - 1 ELSE 0

Reads(q, x, n, m) ==
    \E h \in [1..(Len(q) + 1) -> Nat] :
        /\ h[1] = n
        /\ h[Len(q) + 1] = m
        /\ \A k \in 1..Len(q) : h[k + 1] = Effect(h[k], q[k], x)

LEMMA EffectType ==
    ASSUME NEW n \in Nat, NEW msg, NEW x PROVE Effect(n, msg, x) \in Nat
  BY DEF Effect

\* More subscriptions before a message are no fewer after it.
LEMMA EffectGrows ==
    ASSUME NEW n \in Nat, NEW m \in Nat, m <= n, NEW msg, NEW x
    PROVE  Effect(m, msg, x) <= Effect(n, msg, x)
  BY DEF Effect

LEMMA ReadsNothing ==
    ASSUME NEW x, NEW n, NEW m
    PROVE  /\ Reads(<<>>, x, n, m) => n = m
           /\ n \in Nat => Reads(<<>>, x, n, n)
  <1>1. Len(<<>>) = 0 /\ 1..Len(<<>>) = {}
    OBVIOUS
  <1>2. Reads(<<>>, x, n, m) => n = m
    BY <1>1 DEF Reads
  <1>3. ASSUME n \in Nat PROVE Reads(<<>>, x, n, n)
    <2> DEFINE h == [k \in 1..(Len(<<>>) + 1) |-> n]
    <2>1. h \in [1..(Len(<<>>) + 1) -> Nat] /\ h[1] = n /\ h[Len(<<>>) + 1] = n
      BY <1>1, <1>3
    <2>2. QED
      BY <1>1, <2>1 DEF Reads
  <1>4. QED
    BY <1>2, <1>3

\* One message more at the end.
LEMMA ReadsMore ==
    ASSUME NEW q \in Seq(Messages), NEW msg \in Messages, NEW x, NEW n, NEW m,
           Reads(q, x, n, m)
    PROVE  Reads(Append(q, msg), x, n, Effect(m, msg, x))
  <1> DEFINE L == Len(q)
             r == Append(q, msg)
  <1>1. PICK h \in [1..(L + 1) -> Nat] :
           /\ h[1] = n
           /\ h[L + 1] = m
           /\ \A k \in 1..L : h[k + 1] = Effect(h[k], q[k], x)
    BY DEF Reads
  <1> DEFINE g == [k \in 1..(L + 2) |-> IF k <= L + 1 THEN h[k] ELSE Effect(m, msg, x)]
  <1>2. L \in Nat /\ Len(r) = L + 1 /\ r[L + 1] = msg /\ \A k \in 1..L : r[k] = q[k]
    OBVIOUS
  <1>3. m \in Nat /\ Effect(m, msg, x) \in Nat
    BY <1>1, <1>2, EffectType
  <1> HIDE DEF L, r
  <1>4. /\ g \in [1..(L + 2) -> Nat]
        /\ g[1] = n
        /\ g[L + 2] = Effect(m, msg, x)
        /\ g[L + 1] = m
        /\ \A k \in 1..(L + 1) : g[k] = h[k]
    BY <1>1, <1>2, <1>3
  <1>5. ASSUME NEW k \in 1..(L + 1) PROVE g[k + 1] = Effect(g[k], r[k], x)
    <2>1. CASE k \in 1..L
      <3>1. k + 1 \in 1..(L + 1)
        BY <1>2, <2>1
      <3>2. QED
        BY <1>1, <1>2, <1>4, <2>1, <3>1
    <2>2. CASE k = L + 1
      <3>1. k + 1 = L + 2
        BY <1>2, <2>2
      <3>2. QED
        BY <1>2, <1>4, <2>2, <3>1
    <2>3. QED
      BY <1>2, <2>1, <2>2
  <1> HIDE DEF g
  <1>6. g \in [1..(Len(r) + 1) -> Nat] /\ g[Len(r) + 1] = Effect(m, msg, x)
    BY <1>2, <1>4
  <1>7. QED
    BY <1>2, <1>4, <1>5, <1>6 DEF Reads, r

\* The first message is read.
LEMMA ReadsFirst ==
    ASSUME NEW q \in Seq(Messages), q # <<>>, NEW x, NEW n, NEW m,
           Reads(q, x, n, m)
    PROVE  n \in Nat /\ m \in Nat /\ Reads(Tail(q), x, Effect(n, Head(q), x), m)
  <1> DEFINE L == Len(q)
             r == Tail(q)
  <1>1. PICK h \in [1..(L + 1) -> Nat] :
           /\ h[1] = n
           /\ h[L + 1] = m
           /\ \A k \in 1..L : h[k + 1] = Effect(h[k], q[k], x)
    BY DEF Reads
  <1> DEFINE g == [k \in 1..L |-> h[k + 1]]
  <1>2. /\ L \in Nat \ {0} /\ Len(r) = L - 1 /\ Head(q) = q[1]
        /\ \A k \in 1..(L - 1) : r[k] = q[k + 1]
    BY HeadTailProperties
  <1> HIDE DEF L, r
  <1>3. n \in Nat /\ m \in Nat
    BY <1>1, <1>2
  <1>4. g \in [1..L -> Nat] /\ g[1] = Effect(n, Head(q), x) /\ g[L] = m
    BY <1>1, <1>2
  <1>5. \A k \in 1..(L - 1) : g[k + 1] = Effect(g[k], r[k], x)
    BY <1>1, <1>2
  <1> HIDE DEF g
  <1>6. g \in [1..(Len(r) + 1) -> Nat] /\ g[Len(r) + 1] = m
    BY <1>2, <1>4
  <1>7. QED
    BY <1>2, <1>3, <1>4, <1>5, <1>6 DEF Reads, r

\* Moving from the current symbol to s, once.
LEMMA MoveReads ==
    ASSUME TypeOK, NEW q \in Seq(Messages), NEW s \in Symbols, NEW x, NEW n, NEW m,
           Reads(q, x, n, m)
    PROVE  /\ q \o Move(s) \in Seq(Messages)
           /\ Reads(q \o Move(s), x, n,
                    Effect(Effect(m, Unsubscribe(currentSymbol), x), Subscribe(s), x))
  <1> DEFINE a == Unsubscribe(currentSymbol)
             b == Subscribe(s)
  <1>1. a \in Messages /\ b \in Messages
    BY MessageTypes DEF TypeOK
  <1> HIDE DEF a, b
  <1>2. Append(q, a) \in Seq(Messages) /\ Append(Append(q, a), b) \in Seq(Messages)
    BY <1>1
  <1>3. q \o <<a, b>> = Append(Append(q, a), b)
    BY <1>1
  <1>4. q \o Move(s) = Append(Append(q, a), b)
    BY <1>3 DEF Move, a, b
  <1>5. Reads(Append(Append(q, a), b), x, n, Effect(Effect(m, a, x), b, x))
    BY <1>1, <1>2, ReadsMore
  <1>6. QED
    BY <1>2, <1>4, <1>5 DEF a, b

-----------------------------------------------------------------------------
(***************************************************************************)
(* Subscriptions.  A socket that has not opened has sent nothing and holds *)
(* nothing, and one that has opened was answered by the hub; the ref names *)
(* the symbol shown while the last render was connected, and nothing       *)
(* otherwise; and an open socket of a mounted page means isConnected,      *)
(* unless an old socket was late to close.                                 *)
(***************************************************************************)
BeforeOpen ==
    \A c \in Conns :
        /\ readyState[c] \in {"new", "connecting"} =>
              toServer[c] = <<>> /\ \A s \in Symbols : holds[s][c] = 0
        /\ readyState[c] = "open" => link[c] # "idle"

SubsFollow == subscriptions = IF rendered THEN {currentSymbol} ELSE {}

OpenPage == mounted = "mounted" /\ ws # Nothing /\ readyState[ws] = "open"

ConnectedInv == OpenPage /\ "late_close" \notin hitches => isConnected

NoSilence == "silence" \notin world => silent = {}

(***************************************************************************)
(* The hub holds, once it has read what is on its way, at most two         *)
(* subscriptions to the symbol shown, and none to any other or if the last *)
(* render was not connected; and at least one to the symbol shown if the   *)
(* last render was connected and the link stands.                          *)
(***************************************************************************)
Most(s) == IF rendered /\ s = currentSymbol THEN 2 ELSE 0

Least(s) == IF rendered /\ s = currentSymbol THEN 1 ELSE 0

StrayInv ==
    OpenPage /\ Unhindered({"late_close", "links"}) =>
        \A s \in Symbols : \E n, m \in Nat :
            holds[s][ws] <= n /\ Reads(toServer[ws], s, n, m) /\ m <= Most(s)

Standing == link[ws] = "up"

ShownInv ==
    OpenPage /\ Unhindered({"late_close", "silence"}) /\ Standing =>
        \A s \in Symbols : \E n, m \in Nat :
            n <= holds[s][ws] /\ Reads(toServer[ws], s, n, m) /\ Least(s) <= m

FeedInv ==
    /\ BeforeOpen /\ SubsFollow /\ ConnectedInv /\ NoSilence
    /\ StrayInv /\ ShownInv

\* The steps that touch none of this.
LEMMA QuietFeed ==
    ASSUME FeedInv,
           UNCHANGED <<world, link, holds, silent, mounted, ws, readyState, isConnected,
                       rendered, subscriptions, currentSymbol, toServer, hitches>>
    PROVE  FeedInv'
  BY DEF FeedInv, BeforeOpen, SubsFollow, OpenPage, ConnectedInv, NoSilence, Most,
         Least, StrayInv, Standing, ShownInv, Unhindered

\* The steps after which the page has no open socket.
LEMMA NoPageFeed ==
    ASSUME FeedInv, BeforeOpen', SubsFollow', ~OpenPage', UNCHANGED <<world, silent>>
    PROVE  FeedInv'
  BY DEF FeedInv, ConnectedInv, NoSilence, StrayInv, ShownInv

LEMMA SocketFeed ==
    ASSUME PageAssumption, TypeOK, SocketInv, FeedInv,
           \/ \E b \in Builds : Mount(b)
           \/ Unmount \/ RetryTimer
           \/ \E c \in Conns : ConnectFails(c) \/ Lost(c) \/ CloseEvent(c)
    PROVE  FeedInv'
  <1>0. BeforeOpen /\ SubsFollow
    BY DEF FeedInv
  <1>1. ASSUME NEW b \in Builds, Mount(b) PROVE FeedInv'
    <2>1. /\ UNCHANGED <<world, silent, link, toServer, holds, subscriptions, rendered,
                         currentSymbol>>
          /\ \A c \in Conns :
                /\ readyState'[c] \in {"new", "connecting"} => readyState[c] = "new"
                /\ readyState'[c] # "open"
          /\ readyState'[ws'] = "connecting"
      <3>1. \A c \in Conns : readyState[c] = "new"
        BY <1>1 DEF Mount, SocketInv, NotYet
      <3>2. QED BY <1>1, <3>1 DEF Mount, TypeOK
    <2>2. BeforeOpen'
      BY <1>0, <2>1 DEF BeforeOpen
    <2>3. SubsFollow' /\ ~OpenPage'
      BY <1>0, <2>1 DEF SubsFollow, OpenPage
    <2>4. QED BY <2>1, <2>2, <2>3, NoPageFeed
  <1>2. ASSUME Unmount PROVE FeedInv'
    <2>1. /\ UNCHANGED <<world, silent, link, toServer, holds, currentSymbol>>
          /\ mounted' = "gone" /\ rendered' = FALSE
          /\ subscriptions' = IF rendered THEN subscriptions \ {currentSymbol} ELSE subscriptions
          /\ readyState' = Shut
      BY <1>2 DEF Unmount
    <2>2. BeforeOpen'
      BY <1>0, <2>1 DEF BeforeOpen, Shut
    <2>3. SubsFollow' /\ ~OpenPage'
      BY <1>0, <2>1 DEF SubsFollow, OpenPage
    <2>4. QED BY <2>1, <2>2, <2>3, NoPageFeed
  <1>3. ASSUME RetryTimer PROVE FeedInv'
    <2>0. UNCHANGED <<world, link, holds, silent, mounted, rendered, subscriptions,
                      currentSymbol, toServer, hitches>>
      BY <1>3 DEF RetryTimer
    <2>1. CASE ws # Nothing /\ readyState[ws] \in {"open", "connecting"}
      <3>1. UNCHANGED <<ws, readyState, isConnected>>
        BY <1>3, <2>1 DEF RetryTimer, Connect
      <3>2. QED BY <2>0, <3>1, QuietFeed
    <2>2. CASE ~ (ws # Nothing /\ readyState[ws] \in {"open", "connecting"})
      <3>1. PICK c \in Conns :
               IsNew(c) /\ readyState' = [Shut EXCEPT ![c] = "connecting"] /\ ws' = c
        BY <1>3, <2>2 DEF RetryTimer, Connect
      <3>2. /\ readyState'[c] = "connecting" /\ readyState[c] = "new"
            /\ \A d \in Conns :
                  /\ readyState'[d] \in {"new", "connecting"} =>
                        readyState[d] \in {"new", "connecting"}
                  /\ readyState'[d] = "open" => readyState[d] = "open"
        BY <3>1 DEF IsNew, Shut
      <3>3. BeforeOpen'
        BY <1>0, <2>0, <3>2 DEF BeforeOpen
      <3>4. SubsFollow' /\ ~OpenPage'
        BY <1>0, <2>0, <3>1, <3>2 DEF SubsFollow, OpenPage
      <3>5. QED BY <2>0, <3>3, <3>4, NoPageFeed
    <2>3. QED BY <2>1, <2>2
  <1>4. ASSUME NEW c \in Conns, ConnectFails(c) \/ Lost(c) PROVE FeedInv'
    <2>1. /\ UNCHANGED <<world, link, holds, silent, mounted, ws, isConnected, rendered,
                         subscriptions, currentSymbol, toServer, hitches>>
          /\ readyState' = [readyState EXCEPT ![c] = "failing"]
      BY <1>4 DEF ConnectFails, Lost
    <2>2. BeforeOpen' /\ SubsFollow'
      BY <1>0, <2>1 DEF BeforeOpen, SubsFollow, TypeOK
    <2>3. CASE c = ws
      <3>1. ~OpenPage'
        BY <2>1, <2>3 DEF OpenPage, TypeOK
      <3>2. QED BY <2>1, <2>2, <3>1, NoPageFeed
    <2>4. CASE c # ws
      <3>1. OpenPage' <=> OpenPage
        BY <2>1, <2>4 DEF OpenPage, TypeOK
      <3>2. QED
        BY <2>1, <2>2, <3>1 DEF FeedInv, ConnectedInv, NoSilence, Most, Least,
                                StrayInv, Standing, ShownInv, Unhindered
    <2>5. QED BY <2>3, <2>4
  <1>5. ASSUME NEW c \in Conns, CloseEvent(c) PROVE FeedInv'
    <2>1. /\ UNCHANGED <<world, link, holds, silent, mounted, ws, rendered,
                         subscriptions, currentSymbol>>
          /\ readyState' = [readyState EXCEPT ![c] = "closed"]
          /\ toServer' = [toServer EXCEPT ![c] = <<>>]
          /\ ws \notin {c, Nothing} /\ readyState[ws] = "open" => "late_close" \in hitches'
      BY <1>5 DEF CloseEvent
    <2>2. BeforeOpen' /\ SubsFollow'
      BY <1>0, <2>1 DEF BeforeOpen, SubsFollow, TypeOK
    <2>3. OpenPage' => "late_close" \in hitches'
      BY <2>1 DEF OpenPage, TypeOK
    <2>4. QED
      BY <2>1, <2>2, <2>3 DEF FeedInv, ConnectedInv, NoSilence, StrayInv, ShownInv, Unhindered
  <1>6. QED BY <1>1, <1>2, <1>3, <1>4, <1>5

\* onopen sends the ref again, to a hub that holds nothing yet.
LEMMA OpenedFeed ==
    ASSUME PageAssumption, TypeOK, SocketInv, FeedInv, NEW c \in Conns, Opened(c)
    PROVE  FeedInv'
  <1>1. /\ UNCHANGED <<world, link, holds, silent, mounted, ws, rendered,
                       subscriptions, currentSymbol, hitches>>
        /\ readyState[c] = "connecting" /\ link[c] # "idle"
        /\ readyState' = [readyState EXCEPT ![c] = "open"]
        /\ isConnected' = (mounted = "mounted")
    BY DEF Opened
  <1>2. c = ws
    BY <1>1 DEF SocketInv, NoOrphanSocket
  <1>3. \A s \in Symbols : holds[s][c] = 0
    BY <1>1 DEF FeedInv, BeforeOpen
  <1>4. PICK q \in SetToSeqs(subscriptions) :
           toServer' = [toServer EXCEPT ![c] = [i \in DOMAIN q |-> Subscribe(q[i])]]
    BY DEF Opened
  <1>5. SubsFollow /\ currentSymbol \in Symbols
    BY DEF FeedInv, TypeOK
  <1> DEFINE ms == [i \in DOMAIN q |-> Subscribe(q[i])]
             one == <<Subscribe(currentSymbol)>>
  <1>6. /\ rendered => ms = one
        /\ ~rendered => ms = <<>>
    <2>1. CASE rendered
      <3>1. subscriptions = {currentSymbol} /\ Cardinality(subscriptions) = 1
        BY <1>5, <2>1, FS_Singleton DEF SubsFollow
      <3>2. q \in [1..1 -> {currentSymbol}]
        BY <1>4, <3>1 DEF SetToSeqs
      <3>3. ms = [i \in 1..1 |-> Subscribe(currentSymbol)]
        BY <3>2
      <3>4. QED BY <2>1, <3>3
    <2>2. CASE ~rendered
      <3>1. Cardinality(subscriptions) = 0
        BY <1>5, <2>2, FS_EmptySet DEF SubsFollow
      <3>2. DOMAIN q = 1..0
        BY <1>4, <3>1 DEF SetToSeqs
      <3>3. ms = <<>>
        BY <3>2
      <3>4. QED BY <2>2, <3>3
    <2>3. QED BY <2>1, <2>2
  <1> HIDE DEF ms
  <1>7. \A s \in Symbols : \E m \in Nat :
           Reads(ms, s, 0, m) /\ m <= Most(s) /\ Least(s) <= m
    <2> SUFFICES ASSUME NEW s \in Symbols
                 PROVE  \E m \in Nat : Reads(ms, s, 0, m) /\ m <= Most(s) /\ Least(s) <= m
      OBVIOUS
    <2>1. Reads(<<>>, s, 0, 0)
      BY ReadsNothing
    <2>2. <<>> \in Seq(Messages) /\ Subscribe(currentSymbol) \in Messages
      BY MessageTypes, <1>5
    <2>3. Reads(Append(<<>>, Subscribe(currentSymbol)), s, 0,
                Effect(0, Subscribe(currentSymbol), s))
      BY <2>1, <2>2, ReadsMore
    <2>4. one = Append(<<>>, Subscribe(currentSymbol))
      OBVIOUS
    <2>5. Effect(0, Subscribe(currentSymbol), s) = IF s = currentSymbol THEN 1 ELSE 0
      BY DEF Effect, Subscribe
    <2>6. CASE rendered
      BY <1>6, <2>3, <2>4, <2>5, <2>6 DEF Most, Least
    <2>7. CASE ~rendered
      BY <1>6, <2>1, <2>7 DEF Most, Least
    <2>8. QED BY <2>6, <2>7
  <1>8. toServer'[ws'] = ms /\ ws' = ws
    BY <1>1, <1>2, <1>4 DEF ms, TypeOK
  <1>9. BeforeOpen' /\ SubsFollow' /\ ConnectedInv' /\ NoSilence'
    BY <1>1, <1>4 DEF FeedInv, BeforeOpen, SubsFollow, ConnectedInv, NoSilence, OpenPage, TypeOK
  <1>10. \A s \in Symbols : holds'[s][ws'] = 0 /\ Most(s)' = Most(s) /\ Least(s)' = Least(s)
    BY <1>1, <1>2, <1>3 DEF Most, Least
  <1>11. StrayInv' /\ ShownInv'
    BY <1>7, <1>8, <1>10 DEF StrayInv, ShownInv
  <1>12. QED BY <1>9, <1>11 DEF FeedInv

\* The steps that send: what is added to the queue of the page's socket.
LEMMA SentFeed ==
    ASSUME TypeOK, NEW ms \in Seq(Messages), Send(ms), ws' = ws
    PROVE  /\ OpenPage => toServer'[ws'] = toServer[ws] \o ms
           /\ \A c \in Conns : readyState[c] # "open" => toServer'[c] = toServer[c]
  BY DEF Send, OpenPage, TypeOK

LEMMA RenderFeed ==
    ASSUME PageAssumption, TypeOK, SocketInv, FeedInv, Render
    PROVE  FeedInv'
  <1>1. /\ UNCHANGED <<world, link, holds, silent, mounted, ws, readyState,
                       isConnected, currentSymbol, hitches>>
        /\ rendered' = isConnected /\ rendered # isConnected
    BY DEF Render
  <1>2. rendered \in BOOLEAN /\ isConnected \in BOOLEAN /\ SubsFollow
        /\ currentSymbol \in Symbols
    BY DEF TypeOK, FeedInv
  <1>3. /\ Subscribe(currentSymbol) \in Messages
        /\ <<Subscribe(currentSymbol)>> \in Seq(Messages)
        /\ <<Unsubscribe(currentSymbol)>> \in Seq(Messages)
    BY MessageTypes, <1>2
  <1>4. \A c \in Conns : readyState[c] # "open" => toServer'[c] = toServer[c]
    BY <1>1, <1>3, SentFeed DEF Render
  <1>5. BeforeOpen' /\ SubsFollow' /\ ConnectedInv' /\ NoSilence'
    <2>1. BeforeOpen'
      BY <1>1, <1>4 DEF FeedInv, BeforeOpen
    <2>2. SubsFollow'
      BY <1>1, <1>2 DEF Render, SubsFollow
    <2>3. QED
      BY <1>1, <2>1, <2>2 DEF FeedInv, ConnectedInv, NoSilence, OpenPage
  <1>6. CASE ~rendered
    <2>1. Send(<<Subscribe(currentSymbol)>>)
      BY <1>6 DEF Render
    <2>2. OpenPage => toServer'[ws'] = Append(toServer[ws], Subscribe(currentSymbol))
      <3>1. OpenPage => toServer[ws] \in Seq(Messages)
        BY DEF OpenPage, TypeOK
      <3>2. OpenPage => toServer'[ws'] = toServer[ws] \o <<Subscribe(currentSymbol)>>
        BY <1>1, <1>3, <2>1, SentFeed
      <3>3. \A q \in Seq(Messages), x \in Messages : q \o <<x>> = Append(q, x)
        OBVIOUS
      <3>4. QED BY <1>3, <3>1, <3>2, <3>3
    <2>3. \A s \in Symbols : Most(s) = 0 /\ Least(s) = 0
      BY <1>6 DEF Most, Least
    <2>4. \A s \in Symbols :
             /\ Most(s)' = IF s = currentSymbol THEN 2 ELSE 0
             /\ Least(s)' = IF s = currentSymbol THEN 1 ELSE 0
      BY <1>1, <1>2, <1>6 DEF Most, Least
    <2>5. ASSUME OpenPage, NEW s \in Symbols, NEW n \in Nat, NEW m \in Nat,
                 Reads(toServer[ws], s, n, m)
          PROVE  \E k \in Nat : /\ Reads(toServer'[ws'], s, n, k)
                                /\ m <= Most(s) => k <= Most(s)'
                                /\ Least(s)' <= k
      <3>1. toServer[ws] \in Seq(Messages)
        BY <2>5 DEF OpenPage, TypeOK
      <3>2. Reads(toServer'[ws'], s, n, Effect(m, Subscribe(currentSymbol), s))
        BY <1>3, <2>2, <2>5, <3>1, ReadsMore
      <3>3. Effect(m, Subscribe(currentSymbol), s) = IF s = currentSymbol THEN m + 1 ELSE m
        BY DEF Effect, Subscribe
      <3>4. QED BY <2>3, <2>4, <3>2, <3>3
    <2>6. StrayInv'
      BY <1>1, <2>5 DEF FeedInv, StrayInv, OpenPage, Unhindered
    <2>7. ShownInv'
      BY <1>1, <2>5 DEF FeedInv, ShownInv, OpenPage, Unhindered, Standing
    <2>8. QED BY <1>5, <2>6, <2>7 DEF FeedInv
  <1>7. CASE rendered
    <2>1. ~(OpenPage' /\ "late_close" \notin hitches')
      BY <1>1, <1>2, <1>5, <1>7 DEF ConnectedInv
    <2>2. QED
      BY <1>5, <2>1 DEF FeedInv, StrayInv, ShownInv, Unhindered
  <1>8. QED BY <1>2, <1>6, <1>7

\* What one move makes of the number read.
LEMMA MoveEffect ==
    ASSUME NEW m \in Nat, NEW x, NEW s
    PROVE  Effect(Effect(m, Unsubscribe(currentSymbol), x), Subscribe(s), x)
             = IF x = s THEN (IF x = currentSymbol /\ m > 0 THEN m ELSE m + 1)
               ELSE IF x = currentSymbol /\ m > 0 THEN m - 1
               ELSE m
  BY DEF Effect, Subscribe, Unsubscribe

(***************************************************************************)
(* The user picks s or follows a link to it while the last render was      *)
(* connected: the messages move the subscription once or twice.            *)
(***************************************************************************)
LEMMA MovedFeed ==
    ASSUME PageAssumption, TypeOK, SocketInv, FeedInv, NEW s \in Symbols,
           UNCHANGED <<world, link, holds, silent, mounted, ws, readyState,
                       isConnected, rendered, hitches>>,
           rendered, currentSymbol' = s, subscriptions' = Moved(s),
           \/ Send(Move(s)) /\ (s = currentSymbol \/ "links" \in world)
           \/ Send(Move(s) \o Move(s)) /\ s # currentSymbol
    PROVE  FeedInv'
  <1>1. Move(s) \in Seq(Messages) /\ Move(s) \o Move(s) \in Seq(Messages)
    BY MessageTypes
  <1>2. \A c \in Conns : readyState[c] # "open" => toServer'[c] = toServer[c]
    BY <1>1, SentFeed
  <1>3. BeforeOpen' /\ SubsFollow' /\ ConnectedInv' /\ NoSilence'
    <2>1. BeforeOpen'
      BY <1>2 DEF FeedInv, BeforeOpen
    <2>2. SubsFollow'
      BY DEF FeedInv, SubsFollow, Moved
    <2>3. QED
      BY <2>1, <2>2 DEF FeedInv, ConnectedInv, NoSilence, OpenPage
  <1>4. \A x \in Symbols :
           /\ Most(x) = (IF x = currentSymbol THEN 2 ELSE 0)
           /\ Most(x)' = (IF x = s THEN 2 ELSE 0)
           /\ Least(x) = (IF x = currentSymbol THEN 1 ELSE 0)
           /\ Least(x)' = (IF x = s THEN 1 ELSE 0)
    BY DEF Most, Least
  <1>5. ASSUME OpenPage, NEW x \in Symbols, NEW n \in Nat, NEW m \in Nat,
               Reads(toServer[ws], x, n, m)
        PROVE  \E k \in Nat : /\ Reads(toServer'[ws'], x, n, k)
                              /\ (m <= Most(x) /\ "links" \notin world) => k <= Most(x)'
                              /\ Least(x)' <= k
    <2> DEFINE q == toServer[ws]
               Once(j) == Effect(Effect(j, Unsubscribe(currentSymbol), x), Subscribe(s), x)
    <2>1. q \in Seq(Messages)
      BY <1>5 DEF OpenPage, TypeOK
    <2> HIDE DEF q
    <2>2. /\ q \o Move(s) \in Seq(Messages)
          /\ Reads(q \o Move(s), x, n, Once(m))
      BY <1>5, <2>1, MoveReads DEF q
    <2>3. /\ (q \o Move(s)) \o Move(s) \in Seq(Messages)
          /\ Reads((q \o Move(s)) \o Move(s), x, n, Once(Once(m)))
      BY <2>2, MoveReads
    <2>4. q \o (Move(s) \o Move(s)) = (q \o Move(s)) \o Move(s)
      BY <1>1, <2>1
    <2>5. \A j \in Nat : /\ Once(j) \in Nat
                         /\ Once(j) = IF x = s THEN (IF x = currentSymbol /\ j > 0 THEN j ELSE j + 1)
                                      ELSE IF x = currentSymbol /\ j > 0 THEN j - 1
                                      ELSE j
      BY MoveEffect
    <2> HIDE DEF Once
    <2>6. CASE Send(Move(s)) /\ (s = currentSymbol \/ "links" \in world)
      <3>1. toServer'[ws'] = q \o Move(s)
        BY <1>1, <1>5, <2>6, SentFeed DEF q
      <3>2. /\ Once(m) \in Nat /\ Reads(toServer'[ws'], x, n, Once(m))
        BY <2>2, <2>5, <3>1
      <3>3. /\ (m <= Most(x) /\ "links" \notin world) => Once(m) <= Most(x)'
            /\ Least(x)' <= Once(m)
        BY <1>4, <2>5, <2>6
      <3>4. QED BY <3>2, <3>3
    <2>7. CASE Send(Move(s) \o Move(s)) /\ s # currentSymbol
      <3>1. toServer'[ws'] = (q \o Move(s)) \o Move(s)
        BY <1>1, <1>5, <2>4, <2>7, SentFeed DEF q
      <3>2. /\ Once(Once(m)) \in Nat /\ Reads(toServer'[ws'], x, n, Once(Once(m)))
        BY <2>3, <2>5, <3>1
      <3>3. /\ m <= Most(x) => Once(Once(m)) <= Most(x)'
            /\ Least(x)' <= Once(Once(m))
        BY <1>4, <2>5, <2>7
      <3>4. QED BY <3>2, <3>3
    <2>8. QED BY <2>6, <2>7
  <1>6. StrayInv'
    BY <1>5 DEF FeedInv, StrayInv, OpenPage, Unhindered
  <1>7. ShownInv'
    BY <1>5 DEF FeedInv, ShownInv, OpenPage, Unhindered, Standing
  <1>8. QED BY <1>3, <1>6, <1>7 DEF FeedInv

LEMMA UserFeed ==
    ASSUME PageAssumption, TypeOK, SocketInv, FeedInv, NEW s \in Symbols,
           HandleSymbolChange(s) \/ Navigate(s)
    PROVE  FeedInv'
  <1>1. /\ UNCHANGED <<world, link, holds, silent, mounted, ws, readyState,
                       isConnected, rendered, hitches>>
        /\ currentSymbol' = s
    BY DEF HandleSymbolChange, Navigate
  <1>2. CASE ~rendered
    <2>1. UNCHANGED <<subscriptions, toServer>>
      BY <1>2 DEF HandleSymbolChange, Navigate
    <2>2. \A x \in Symbols : Most(x)' = Most(x) /\ Least(x)' = Least(x)
      BY <1>1, <1>2 DEF Most, Least
    <2>3. QED
      BY <1>1, <1>2, <2>1, <2>2
      DEF FeedInv, BeforeOpen, SubsFollow, ConnectedInv, NoSilence, StrayInv, ShownInv,
          OpenPage, Standing, Unhindered
  <1>3. CASE rendered
    <2>1. subscriptions' = Moved(s)
      BY <1>3 DEF HandleSymbolChange, Navigate
    <2>2. \/ Send(Move(s)) /\ (s = currentSymbol \/ "links" \in world)
          \/ Send(Move(s) \o Move(s)) /\ s # currentSymbol
      <3>1. CASE Navigate(s)
        BY <1>3, <3>1 DEF Navigate
      <3>2. CASE HandleSymbolChange(s) /\ s = currentSymbol
        <4>1. Send(Move(s) \o <<>>)
          BY <1>3, <3>2 DEF HandleSymbolChange
        <4>2. Move(s) \o <<>> = Move(s)
          BY MessageTypes
        <4>3. QED BY <3>2, <4>1, <4>2
      <3>3. CASE HandleSymbolChange(s) /\ s # currentSymbol
        BY <1>3, <3>3 DEF HandleSymbolChange
      <3>4. QED BY <3>1, <3>2, <3>3
    <2>3. QED BY <1>1, <1>3, <2>1, <2>2, MovedFeed
  <1>4. QED BY <1>2, <1>3 DEF TypeOK

\* What a message does to the subscriptions held, when the hub reads it.
LEMMA ReceiveEffect ==
    ASSUME TypeOK, NEW c \in Conns, HubReceives(c), NEW x \in Symbols, NEW d \in Conns
    PROVE  /\ d # c => /\ holds'[x][d] <= holds[x][d]
                       /\ link[d] = "up" => holds'[x][d] = holds[x][d]
           /\ d = c => /\ holds'[x][c] <= Effect(holds[x][c], Head(toServer[c]), x)
                       /\ link[c] = "up" =>
                             holds'[x][c] = Effect(holds[x][c], Head(toServer[c]), x)
           /\ silent' \subseteq silent
  <1> DEFINE m == Head(toServer[c])
             n == holds[x][d]
  <1>1. m \in Messages
    BY DEF HubReceives, TypeOK
  <1>2. m.symbol \in Symbols /\ m.type \in {"subscribe", "unsubscribe"}
    BY <1>1 DEF Messages
  <1>3. /\ holds \in [Symbols -> [Conns -> Nat]]
        /\ holds[x] \in [Conns -> Nat] /\ n \in Nat
    BY DEF TypeOK
  <1>4. \/ m.type = "subscribe" /\ Feed!Subscribe(c, m.symbol)
        \/ m.type = "unsubscribe" /\ holds[m.symbol][c] > 0 /\ Feed!Unsubscribe(c, m.symbol)
        \/ m.type = "unsubscribe" /\ ~(holds[m.symbol][c] > 0) /\ UNCHANGED feedVars
    BY <1>2 DEF HubReceives
  <1> HIDE DEF m
  <1>5. CASE m.type = "subscribe" /\ Feed!Subscribe(c, m.symbol)
    <2> DEFINE h == [holds EXCEPT ![m.symbol][c] = @ + 1]
    <2>1. /\ h[x][d] = IF x = m.symbol /\ d = c THEN n + 1 ELSE n
          /\ h \in [Symbols -> [Conns -> Nat]]
      <3>1. h[x] = IF x = m.symbol THEN [holds[x] EXCEPT ![c] = @ + 1] ELSE holds[x]
        BY <1>2, <1>3
      <3>2. QED BY <1>2, <1>3, <3>1, CountsStayCounts
    <2>2. \/ holds' = h /\ silent' = silent
          \/ holds' = Feed!Sent(h, m.symbol) /\ silent' = silent \ {m.symbol}
      BY <1>5 DEF Feed!Subscribe
    <2> HIDE DEF h
    <2>3. h[x][d] \in Nat
      BY <2>1
    <2>4. /\ Feed!Sent(h, m.symbol)[x][d] <= h[x][d]
          /\ link[d] = "up" => Feed!Sent(h, m.symbol)[x][d] = h[x][d]
      BY <1>2, <2>1, <2>3 DEF Feed!Sent
    <2>5. /\ holds'[x][d] <= h[x][d]
          /\ link[d] = "up" => holds'[x][d] = h[x][d]
          /\ silent' \subseteq silent
      BY <2>2, <2>3, <2>4
    <2>6. d = c => h[x][d] = Effect(n, m, x)
      BY <1>5, <2>1 DEF Effect
    <2>7. d # c => h[x][d] = n
      BY <2>1
    <2>8. QED BY <2>5, <2>6, <2>7 DEF m
  <1>6. CASE m.type = "unsubscribe" /\ holds[m.symbol][c] > 0 /\ Feed!Unsubscribe(c, m.symbol)
    <2>1. /\ holds' = [holds EXCEPT ![m.symbol][c] = @ - 1] /\ silent' = silent
      BY <1>6 DEF Feed!Unsubscribe
    <2>2. holds'[x][d] = IF x = m.symbol /\ d = c THEN n - 1 ELSE n
      <3>1. holds'[x] = IF x = m.symbol THEN [holds[x] EXCEPT ![c] = @ - 1] ELSE holds[x]
        BY <1>2, <1>3, <2>1
      <3>2. QED BY <1>2, <1>3, <3>1
    <2>3. d = c => holds'[x][d] = Effect(n, m, x)
      BY <1>3, <1>6, <2>2 DEF Effect
    <2>4. d # c => holds'[x][d] = n
      BY <2>2
    <2>5. holds'[x][d] \in Nat
      BY <1>3, <1>6, <2>2
    <2>6. QED BY <1>3, <2>1, <2>3, <2>4, <2>5 DEF m
  <1>7. CASE m.type = "unsubscribe" /\ ~(holds[m.symbol][c] > 0) /\ UNCHANGED feedVars
    <2>1. holds' = holds /\ silent' = silent
      BY <1>7 DEF feedVars
    <2>2. d = c => Effect(n, m, x) = n
      BY <1>3, <1>7 DEF Effect
    <2>3. QED BY <1>3, <2>1, <2>2 DEF m
  <1>8. QED BY <1>4, <1>5, <1>6, <1>7

LEMMA ReceivesFeed ==
    ASSUME PageAssumption, TypeOK, FeedInv, NEW c \in Conns, HubReceives(c)
    PROVE  FeedInv'
  <1>1. /\ UNCHANGED <<world, link, mounted, ws, readyState, isConnected, rendered,
                       subscriptions, currentSymbol, hitches>>
        /\ toServer[c] # <<>> /\ link[c] \in {"up", "dying"}
        /\ toServer' = [toServer EXCEPT ![c] = Tail(@)]
    BY DEF HubReceives, pageVars, feedVars, Feed!Subscribe, Feed!Unsubscribe
  <1>2. /\ toServer'[c] = Tail(toServer[c])
        /\ \A d \in Conns : d # c => toServer'[d] = toServer[d]
        /\ toServer[c] \in Seq(Messages)
        /\ \A x \in Symbols, d \in Conns : holds[x][d] \in Nat /\ holds'[x][d] \in Nat
    <2>1. TypeOK'
      BY HubTypes
    <2>2. QED BY <1>1, <2>1 DEF TypeOK
  <1>3. BeforeOpen' /\ SubsFollow' /\ ConnectedInv' /\ NoSilence'
    <2>1. \A d \in Conns : readyState[d] \in {"new", "connecting"} => d # c
      BY <1>1 DEF FeedInv, BeforeOpen
    <2>2. ASSUME NEW d \in Conns, readyState[d] \in {"new", "connecting"}, NEW x \in Symbols
          PROVE  holds'[x][d] = 0
      <3>1. holds[x][d] = 0 /\ d # c
        BY <2>1, <2>2 DEF FeedInv, BeforeOpen
      <3>2. holds'[x][d] <= holds[x][d]
        BY <3>1, ReceiveEffect
      <3>3. QED BY <1>2, <3>1, <3>2
    <2>3. BeforeOpen'
      BY <1>1, <1>2, <2>1, <2>2 DEF FeedInv, BeforeOpen
    <2>4. SubsFollow' /\ ConnectedInv'
      BY <1>1 DEF FeedInv, SubsFollow, ConnectedInv, OpenPage
    <2>5. NoSilence'
      <3>1. silent' \subseteq silent
        BY ReceiveEffect, PageAssumption DEF PageAssumption
      <3>2. QED BY <1>1, <3>1 DEF FeedInv, NoSilence
    <2>6. QED BY <2>3, <2>4, <2>5
  <1>4. \A s \in Symbols : Most(s)' = Most(s) /\ Least(s)' = Least(s)
    BY <1>1 DEF Most, Least
  <1>5. ASSUME OpenPage, NEW s \in Symbols, NEW n \in Nat, NEW m \in Nat,
               Reads(toServer[ws], s, n, m)
        PROVE  \E k \in Nat : /\ Reads(toServer'[ws], s, k, m)
                              /\ holds[s][ws] <= n => holds'[s][ws] <= k
                              /\ Standing /\ n <= holds[s][ws] => k <= holds'[s][ws]
    <2>1. ws \in Conns
      BY <1>5 DEF OpenPage, TypeOK
    <2>2. CASE ws # c
      <3>1. toServer'[ws] = toServer[ws]
        BY <1>2, <2>1, <2>2
      <3>2. holds'[s][ws] <= holds[s][ws]
        BY <2>1, <2>2, ReceiveEffect
      <3>3. Standing => holds'[s][ws] = holds[s][ws]
        BY <2>1, <2>2, ReceiveEffect DEF Standing
      <3>4. QED BY <1>2, <1>5, <2>1, <3>1, <3>2, <3>3
    <2>3. CASE ws = c
      <3> DEFINE k == Effect(n, Head(toServer[c]), s)
      <3>1. k \in Nat /\ Reads(toServer'[ws], s, k, m)
        BY <1>1, <1>2, <1>5, <2>3, EffectType, ReadsFirst
      <3>2. /\ holds[s][ws] <= n => Effect(holds[s][ws], Head(toServer[c]), s) <= k
            /\ n <= holds[s][ws] => k <= Effect(holds[s][ws], Head(toServer[c]), s)
        BY <1>2, <1>5, <2>1, EffectGrows
      <3>3. /\ holds'[s][ws] <= Effect(holds[s][ws], Head(toServer[c]), s)
            /\ link[ws] = "up" =>
                  holds'[s][ws] = Effect(holds[s][ws], Head(toServer[c]), s)
        BY <2>3, ReceiveEffect
      <3>4. Standing => link[ws] = "up"
        BY <1>1, <2>3 DEF Standing
      <3>5. Effect(holds[s][ws], Head(toServer[c]), s) \in Nat
        BY <1>2, <2>1, EffectType
      <3> HIDE DEF k
      <3>6. QED BY <1>2, <2>1, <3>1, <3>2, <3>3, <3>4, <3>5
    <2>4. QED BY <2>2, <2>3
  <1>6. StrayInv'
    BY <1>1, <1>4, <1>5 DEF FeedInv, StrayInv, OpenPage, Unhindered
  <1>7. ShownInv'
    BY <1>1, <1>4, <1>5 DEF FeedInv, ShownInv, OpenPage, Unhindered, Standing
  <1>8. QED BY <1>3, <1>6, <1>7 DEF FeedInv

\* What the hub does on its own: nobody gains a subscription, nor, on a link
\* that stands, loses one before a symbol has fallen silent.
LEMMA HubAlone ==
    ASSUME TypeOK,
           \/ HubSweeps
           \/ \E c \in Conns : HubAnswers(c) \/ HubLoses(c) \/ HubForgets(c)
           \/ \E s \in Symbols : HubFallsSilent(s),
           NEW x \in Symbols, NEW d \in Conns
    PROVE  /\ holds'[x][d] <= holds[x][d]
           /\ link'[d] # "idle" \/ link'[d] = link[d]
           /\ link'[d] = "up" /\ link[d] # "idle" =>
                 /\ link[d] = "up"
                 /\ silent = {} => holds'[x][d] = holds[x][d]
  <1>0. /\ holds \in [Symbols -> [Conns -> Nat]] /\ holds[x][d] \in Nat
        /\ link \in [Conns -> Feed!LinkStates]
    BY DEF TypeOK
  <1>1. CASE HubSweeps
    BY <1>0, <1>1 DEF HubSweeps, Feed!Evict
  <1>2. ASSUME NEW c \in Conns, HubAnswers(c)
        PROVE  /\ holds' = holds
               /\ link[c] = "idle" /\ \E t \in {"up", "gone"} : link' = [link EXCEPT ![c] = t]
    BY <1>2 DEF HubAnswers, Feed!Attach, Feed!TurnAway
  <1>3. ASSUME NEW c \in Conns, HubLoses(c) \/ HubForgets(c)
        PROVE  /\ \/ holds'[x][d] = holds[x][d]
                  \/ holds'[x][d] = IF d = c THEN 0 ELSE holds[x][d]
               /\ \A e \in Conns :
                     link'[e] = IF e # c THEN link[e]
                                ELSE IF HubLoses(c) THEN "dying" ELSE "gone"
    <2>1. holds' = holds \/ holds' = Feed!Without(holds, {c})
      BY <1>3 DEF HubLoses, HubForgets, Feed!Fail, Feed!Leave
    <2>2. Feed!Without(holds, {c})[x][d] = IF d = c THEN 0 ELSE holds[x][d]
      BY DEF Feed!Without
    <2>3. CASE HubLoses(c)
      <3>1. link' = [e \in Conns |-> IF e \in {c} THEN "dying" ELSE link[e]]
        BY <2>3 DEF HubLoses, Feed!Fail
      <3>2. QED BY <2>1, <2>2, <2>3, <3>1
    <2>4. CASE HubForgets(c) /\ ~HubLoses(c)
      <3>1. link' = [link EXCEPT ![c] = "gone"]
        BY <2>4 DEF HubForgets, Feed!Leave
      <3>2. QED BY <1>0, <2>1, <2>2, <2>4, <3>1
    <2>5. QED BY <1>3, <2>3, <2>4
  <1>4. CASE \E c \in Conns : HubAnswers(c)
    BY <1>0, <1>2, <1>4
  <1>5. CASE \E c \in Conns : HubLoses(c) \/ HubForgets(c)
    <2>1. PICK c \in Conns : HubLoses(c) \/ HubForgets(c)
      BY <1>5
    <2>2. CASE d = c
      <3>1. link'[d] \in {"dying", "gone"}
        BY <1>3, <2>1, <2>2
      <3>2. holds'[x][d] <= holds[x][d]
        BY <1>0, <1>3, <2>1, <2>2
      <3>3. QED BY <3>1, <3>2
    <2>3. CASE d # c
      <3>1. link'[d] = link[d] /\ holds'[x][d] = holds[x][d]
        BY <1>0, <1>3, <2>1, <2>3
      <3>2. QED BY <1>0, <3>1
    <2>4. QED BY <2>2, <2>3
  <1>6. CASE \E s \in Symbols : HubFallsSilent(s)
    BY <1>0, <1>6 DEF HubFallsSilent, Feed!Silence
  <1>7. QED BY <1>1, <1>4, <1>5, <1>6

LEMMA HubFeed ==
    ASSUME PageAssumption, TypeOK, FeedInv,
           \/ HubSweeps
           \/ \E c \in Conns : HubAnswers(c) \/ HubLoses(c) \/ HubForgets(c)
           \/ \E s \in Symbols : HubFallsSilent(s)
    PROVE  FeedInv'
  <1>1. UNCHANGED <<world, mounted, ws, readyState, isConnected, rendered,
                    subscriptions, currentSymbol, toServer, hitches>>
    BY DEF HubSweeps, HubAnswers, HubLoses, HubForgets, HubFallsSilent, pageVars
  <1>2. \A x \in Symbols, d \in Conns : holds[x][d] \in Nat /\ holds'[x][d] \in Nat
    <2>1. TypeOK'
      BY HubTypes
    <2>2. QED BY <2>1 DEF TypeOK
  <1>3. BeforeOpen'
    <2>1. ASSUME NEW d \in Conns, readyState[d] \in {"new", "connecting"}, NEW x \in Symbols
          PROVE  holds'[x][d] = 0
      <3>1. holds[x][d] = 0
        BY <2>1 DEF FeedInv, BeforeOpen
      <3>2. holds'[x][d] <= holds[x][d]
        BY HubAlone
      <3>3. holds'[x][d] \in Nat
        BY <1>2
      <3>4. QED BY <3>1, <3>2, <3>3
    <2>2. ASSUME NEW d \in Conns, readyState[d] = "open" PROVE link'[d] # "idle"
      <3>1. link[d] # "idle"
        BY <2>2 DEF FeedInv, BeforeOpen
      <3>2. link'[d] # "idle" \/ link'[d] = link[d]
        BY HubAlone, PageAssumption DEF PageAssumption
      <3>3. QED BY <3>1, <3>2
    <2>3. QED
      BY <1>1, <2>1, <2>2 DEF FeedInv, BeforeOpen
  <1>4. SubsFollow' /\ ConnectedInv'
    BY <1>1 DEF FeedInv, SubsFollow, ConnectedInv, OpenPage
  <1>5. NoSilence'
    <2>1. silent' = silent \/ "silence" \in world
      BY DEF HubSweeps, HubAnswers, HubLoses, HubForgets, HubFallsSilent, Feed!Evict,
             Feed!Attach, Feed!TurnAway, Feed!Fail, Feed!Leave
    <2>2. QED BY <1>1, <2>1 DEF FeedInv, NoSilence
  <1>6. \A s \in Symbols : Most(s)' = Most(s) /\ Least(s)' = Least(s)
    BY <1>1 DEF Most, Least
  <1>7. OpenPage => ws \in Conns /\ link[ws] # "idle"
    BY DEF FeedInv, BeforeOpen, OpenPage, TypeOK
  <1>8. StrayInv'
    <2>1. ASSUME OpenPage, NEW s \in Symbols, NEW n \in Nat, holds[s][ws] <= n
          PROVE  holds'[s][ws] <= n
      <3>1. holds'[s][ws] <= holds[s][ws]
        BY <1>7, <2>1, HubAlone
      <3>2. QED BY <1>2, <1>7, <2>1, <3>1
    <2>2. QED
      BY <1>1, <1>6, <2>1 DEF FeedInv, StrayInv, OpenPage, Unhindered
  <1>9. ShownInv'
    <2>1. ASSUME OpenPage, Standing', "silence" \notin world, NEW s \in Symbols
          PROVE  holds'[s][ws] = holds[s][ws] /\ Standing
      <3>1. silent = {} /\ link'[ws] = "up"
        BY <1>1, <2>1 DEF FeedInv, NoSilence, Standing
      <3>2. QED BY <1>7, <2>1, <3>1, HubAlone DEF Standing
    <2>2. ASSUME OpenPage', Unhindered({"late_close", "silence"})', Standing', NEW s \in Symbols
          PROVE  \E n, m \in Nat :
                    n <= holds'[s][ws'] /\ Reads(toServer'[ws'], s, n, m) /\ Least(s)' <= m
      <3>1. OpenPage /\ Unhindered({"late_close", "silence"}) /\ "silence" \notin world
        BY <1>1, <2>2 DEF OpenPage, Unhindered
      <3>2. holds'[s][ws] = holds[s][ws] /\ Standing
        BY <2>1, <2>2, <3>1
      <3>3. QED
        BY <1>1, <1>6, <3>1, <3>2 DEF FeedInv, ShownInv
    <2>3. QED BY <2>2 DEF ShownInv
  <1>10. QED BY <1>3, <1>4, <1>5, <1>8, <1>9 DEF FeedInv

LEMMA StepFeed ==
    ASSUME PageAssumption, TypeOK, SocketInv, FeedInv, [Next]_vars
    PROVE  FeedInv'
  <1>1. CASE \/ HandleTimeframeChange
             \/ \E i \in 1..MaxLoads : LoadArrives(i) \/ LoadFails(i)
             \/ UNCHANGED vars
    <2>1. UNCHANGED <<world, link, holds, silent, mounted, ws, readyState, isConnected,
                      rendered, subscriptions, currentSymbol, toServer, hitches>>
      BY <1>1 DEF HandleTimeframeChange, LoadArrives, LoadFails, vars
    <2>2. QED BY <2>1, QuietFeed
  <1>2. CASE \/ \E b \in Builds : Mount(b)
             \/ Unmount \/ RetryTimer
             \/ \E c \in Conns : ConnectFails(c) \/ Lost(c) \/ CloseEvent(c)
    BY <1>2, SocketFeed
  <1>3. CASE Render
    BY <1>3, RenderFeed
  <1>4. CASE \E c \in Conns : Opened(c)
    BY <1>4, OpenedFeed
  <1>5. CASE \E s \in Symbols : HandleSymbolChange(s) \/ Navigate(s)
    BY <1>5, UserFeed
  <1>6. CASE \E c \in Conns : HubReceives(c)
    BY <1>6, ReceivesFeed
  <1>7. CASE \/ HubSweeps
             \/ \E c \in Conns : HubAnswers(c) \/ HubLoses(c) \/ HubForgets(c)
             \/ \E s \in Symbols : HubFallsSilent(s)
    BY <1>7, HubFeed
  <1>8. QED
    BY <1>1, <1>2, <1>3, <1>4, <1>5, <1>6, <1>7 DEF Next

LEMMA FeedInvariance == Spec => []FeedInv
  <1>1. Init => SocketInv /\ FeedInv
    <2> SUFFICES ASSUME Init PROVE SocketInv /\ FeedInv
      OBVIOUS
    <2>1. SocketInv
      BY DEF Init, SocketInv, NoOrphanSocket, NotYet
    <2>2. \A s \in Symbols, c \in Conns : holds[s][c] = 0
      BY DEF Init, Feed!Init, Feed!None
    <2>3. BeforeOpen
      BY <2>2 DEF Init, BeforeOpen
    <2>4. silent = {} /\ ~OpenPage /\ SubsFollow
      BY DEF Init, Feed!Init, OpenPage, SubsFollow
    <2>5. QED
      BY <2>1, <2>3, <2>4 DEF FeedInv, ConnectedInv, NoSilence, StrayInv, ShownInv
  <1>2. TypeOK /\ SocketInv /\ FeedInv /\ [Next]_vars => SocketInv' /\ FeedInv'
    BY StepSockets, StepFeed, PageAssumption
  <1>3. QED
    BY <1>1, <1>2, TypeCorrect, PTL DEF Spec

\* At rest, with nothing on its way, the hub holds what it was to hold.
LEMMA AtRest ==
    ASSUME TypeOK, FeedInv, Settled
    PROVE  /\ OpenPage /\ Standing /\ toServer[ws] = <<>> /\ rendered = isConnected
           /\ \A s \in Symbols : holds[s][ws] \in Nat
           /\ \A s, n, m : Reads(toServer[ws], s, n, m) => n = m
  <1>1. OpenPage /\ Standing /\ toServer[ws] = <<>> /\ rendered = isConnected
    BY DEF Settled, OpenPage, Standing
  <1>2. ws \in Conns
    BY <1>1 DEF OpenPage, TypeOK
  <1>3. \A s, n, m : Reads(toServer[ws], s, n, m) => n = m
    BY <1>1, ReadsNothing
  <1>4. QED BY <1>1, <1>2, <1>3 DEF TypeOK

(***************************************************************************)
(* The symbol shown is subscribed on the current connection when the page  *)
(* and the hub are at rest with each other, for every number of picks,     *)
(* reconnections and messages on their way, unless an old socket closes    *)
(* late or the hub evicts what is silent (useWebSocket.tsx,                *)
(* useSymbolManagement.tsx).                                               *)
(***************************************************************************)
THEOREM ShownIsSubscribed == Spec => []ShownSymbolSubscribed
  <1>1. TypeOK /\ FeedInv => ShownSymbolSubscribed
    <2> SUFFICES ASSUME TypeOK, FeedInv, Settled, Unhindered({"late_close", "silence"})
                 PROVE  /\ isConnected
                        /\ holds[currentSymbol][ws] > 0
                        /\ subscriptions = {currentSymbol}
      BY DEF ShownSymbolSubscribed
    <2>1. /\ OpenPage /\ Standing /\ rendered = isConnected
          /\ currentSymbol \in Symbols /\ holds[currentSymbol][ws] \in Nat
      BY AtRest DEF TypeOK
    <2>2. isConnected
      BY <2>1 DEF FeedInv, ConnectedInv, Unhindered
    <2>3. subscriptions = {currentSymbol} /\ Least(currentSymbol) = 1
      BY <2>1, <2>2 DEF FeedInv, SubsFollow, Least
    <2>4. PICK n \in Nat, m \in Nat :
             /\ n <= holds[currentSymbol][ws]
             /\ Reads(toServer[ws], currentSymbol, n, m)
             /\ Least(currentSymbol) <= m
      BY <2>1 DEF FeedInv, ShownInv
    <2>5. n = m
      BY <2>4, AtRest
    <2>6. QED BY <2>1, <2>2, <2>3, <2>4, <2>5
  <1>2. QED
    BY <1>1, TypeCorrect, FeedInvariance, PTL

(***************************************************************************)
(* And no other symbol is, when the page is moved by picks alone: the two  *)
(* subscribes of a pick are undone by the two unsubscribes of the next,    *)
(* wherever a reconnection or an eviction falls between them.              *)
(***************************************************************************)
THEOREM NoOtherIsSubscribed == Spec => []NoStraySubscription
  <1>1. TypeOK /\ FeedInv => NoStraySubscription
    <2> SUFFICES ASSUME TypeOK, FeedInv, Settled, Unhindered({"late_close", "links"}),
                        NEW s \in Symbols \ {currentSymbol}
                 PROVE  holds[s][ws] = 0
      BY DEF NoStraySubscription
    <2>1. OpenPage /\ holds[s][ws] \in Nat /\ Most(s) = 0
      BY AtRest DEF Most
    <2>2. PICK n \in Nat, m \in Nat :
             holds[s][ws] <= n /\ Reads(toServer[ws], s, n, m) /\ m <= Most(s)
      BY <2>1 DEF FeedInv, StrayInv
    <2>3. n = m
      BY <2>2, AtRest
    <2>4. QED BY <2>1, <2>2, <2>3
  <1>2. QED
    BY <1>1, TypeCorrect, FeedInvariance, PTL
=============================================================================
