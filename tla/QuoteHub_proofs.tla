--------------------------- MODULE QuoteHub_proofs ---------------------------
(***************************************************************************)
(* Proofs about QuoteHub for every set of connections and symbols, every   *)
(* limit and every assignment of users.                                    *)
(*                                                                         *)
(* The invariants need each other: that stopping the timers of the emptied *)
(* keys leaves no timer of a missing key needs the keys and the timers to  *)
(* be the same set, and that a new first record need not look for a timer  *)
(* needs the records to be under a key.  The last part of the module is    *)
(* the refinement of QuoteFeed.                                            *)
(***************************************************************************)
EXTENDS QuoteHub, FiniteSetTheorems, TLAPS

TimersAreTopics == updateIntervals = topics

\* The inductive invariant.
IInv ==
    /\ TypeOK
    /\ TimersAreTopics
    /\ EverySubscriberHasTimer
    /\ ClosedHoldNothing

\* Nothing is counted, registered or timed before the first connection.
LEMMA InitIInv == ASSUME HubAssumption, Init PROVE IInv
  BY DEF HubAssumption, Init, IInv, TypeOK, TimersAreTopics,
         EverySubscriberHasTimer, ClosedHoldNothing, HasRecords, Records,
         Attached, SockStates, Feeds

\* Forgetting the empty topics keeps keys and timers in step, provided they
\* were and every record left is one there was.
LEMMA StopEmptyTopicsLemma ==
    ASSUME IInv, StopEmptyTopics,
           \A s \in Symbols : HasRecords(s)' => HasRecords(s)
    PROVE  /\ topics' \in SUBSET Symbols
           /\ updateIntervals' \in SUBSET Symbols
           /\ TimersAreTopics'
           /\ EverySubscriberHasTimer'
  BY DEF IInv, TypeOK, TimersAreTopics, EverySubscriberHasTimer, StopEmptyTopics

\* The handler of 'close' and 'error' leaves nothing of c and adds nothing.
LEMMA DisconnectLemma ==
    ASSUME IInv, NEW c \in Conns, HandleClientDisconnect(c)
    PROVE  /\ clients' \in SUBSET Conns /\ c \notin clients'
           /\ waiting' \in [Symbols -> [Conns -> Nat]]
           /\ served' \in [Symbols -> [Conns -> Nat]]
           /\ topics' \in SUBSET Symbols
           /\ updateIntervals' \in SUBSET Symbols
           /\ TimersAreTopics'
           /\ EverySubscriberHasTimer'
           /\ \A s \in Symbols : Records(s, c)' = 0
           /\ \A d \in Conns \ {c} : /\ d \in clients' => d \in clients
                                     /\ \A s \in Symbols : Records(s, d)' = Records(s, d)
  <1>1. /\ clients' \in SUBSET Conns /\ c \notin clients'
        /\ waiting' \in [Symbols -> [Conns -> Nat]]
        /\ served' \in [Symbols -> [Conns -> Nat]]
    BY DEF HandleClientDisconnect, IInv, TypeOK
  <1>2. /\ \A s \in Symbols : Records(s, c)' = 0
        /\ \A d \in Conns \ {c} : /\ d \in clients' => d \in clients
                                  /\ \A s \in Symbols : Records(s, d)' = Records(s, d)
    BY DEF HandleClientDisconnect, IInv, TypeOK, Records
  <1>3. \A s \in Symbols : HasRecords(s)' => HasRecords(s)
    BY <1>2 DEF HasRecords
  <1>4. QED
    BY <1>1, <1>2, <1>3, StopEmptyTopicsLemma DEF HandleClientDisconnect

\* A quote adds no subscriber: it refreshes the OPEN ones and drops the rest.
LEMMA DeliverLemma ==
    ASSUME IInv, NEW s \in Symbols, NEW w \in [Symbols -> [Conns -> Nat]],
           Deliver(s, w)
    PROVE  /\ waiting' \in [Symbols -> [Conns -> Nat]]
           /\ served' \in [Symbols -> [Conns -> Nat]]
           /\ quiet' \in SUBSET Symbols
           /\ \A t \in Symbols, c \in Conns :
                 Records(t, c)' > 0 => w[t][c] + served[t][c] > 0
  BY DEF Deliver, IInv, TypeOK, Records

LEMMA SendQuoteUpdateLemma ==
    ASSUME IInv, NEW s \in Symbols, NEW w \in [Symbols -> [Conns -> Nat]],
           SendQuoteUpdate(s, w), HubAssumption
    PROVE  /\ waiting' \in [Symbols -> [Conns -> Nat]]
           /\ served' \in [Symbols -> [Conns -> Nat]]
           /\ quiet' \in SUBSET Symbols
           /\ fetching' \in [Symbols -> 0..MaxFetches]
           /\ \A t \in Symbols, c \in Conns :
                 Records(t, c)' > 0 => w[t][c] + served[t][c] > 0
  <1>1. CASE feed = "mock"
    BY <1>1, DeliverLemma DEF SendQuoteUpdate, IInv, TypeOK
  <1>2. CASE feed # "mock"
    <2>1. waiting' = w /\ UNCHANGED <<served, quiet>>
      BY <1>2 DEF SendQuoteUpdate
    <2>2. fetching' \in [Symbols -> 0..MaxFetches]
      <3>1. fetching \in [Symbols -> 0..MaxFetches] /\ MaxFetches \in Nat
        BY DEF IInv, TypeOK, HubAssumption
      <3>2. fetching[s] < MaxFetches /\ fetching' = [fetching EXCEPT ![s] = @ + 1]
        BY <1>2 DEF SendQuoteUpdate
      <3>3. fetching[s] + 1 \in 0..MaxFetches
        BY <3>1, <3>2
      <3>4. QED BY <3>1, <3>2, <3>3
    <2>3. QED BY <2>1, <2>2 DEF IInv, TypeOK, Records
  <1>3. QED
    BY <1>1, <1>2

-----------------------------------------------------------------------------
(***************************************************************************)
(* One lemma per action that touches the records; the last one collects    *)
(* the actions that leave records, keys and timers alone.                  *)
(***************************************************************************)
LEMMA SubscribeStep ==
    ASSUME IInv, HubAssumption, NEW c \in Conns, NEW s \in Symbols,
           SubscribeToSymbol(c, s)
    PROVE  IInv'
  <1> DEFINE w == [waiting EXCEPT ![s][c] = @ + 1]
  <1>1. w \in [Symbols -> [Conns -> Nat]]
    BY DEF IInv, TypeOK
  <1>2. SendQuoteUpdate(s, w)
    BY DEF SubscribeToSymbol
  <1> HIDE DEF w
  <1>3. /\ waiting' \in [Symbols -> [Conns -> Nat]]
        /\ served' \in [Symbols -> [Conns -> Nat]]
        /\ quiet' \in SUBSET Symbols
        /\ fetching' \in [Symbols -> 0..MaxFetches]
        /\ \A t \in Symbols, d \in Conns :
              Records(t, d)' > 0 => w[t][d] + served[t][d] > 0
    BY <1>1, <1>2, SendQuoteUpdateLemma
  <1>4. \A t \in Symbols, d \in Conns :
           <<t, d>> # <<s, c>> => w[t][d] + served[t][d] = Records(t, d)
    BY DEF w, IInv, TypeOK, Records
  <1>5. TypeOK'
    BY <1>3 DEF SubscribeToSymbol, IInv, TypeOK, HubAssumption
  <1>6. TimersAreTopics'
    BY DEF SubscribeToSymbol, IInv, TimersAreTopics, EverySubscriberHasTimer
  <1>7. EverySubscriberHasTimer'
    <2> SUFFICES ASSUME NEW t \in Symbols, NEW d \in Conns, Records(t, d)' > 0
                 PROVE  t \in updateIntervals'
      BY DEF EverySubscriberHasTimer, HasRecords
    <2>1. CASE t = s
      BY <2>1 DEF SubscribeToSymbol, IInv, TimersAreTopics, EverySubscriberHasTimer
    <2>2. CASE t # s
      <3>1. Records(t, d) > 0
        BY <1>3, <1>4, <2>2
      <3>2. QED
        BY <3>1 DEF SubscribeToSymbol, IInv, EverySubscriberHasTimer, HasRecords
    <2>3. QED
      BY <2>1, <2>2
  <1>8. ClosedHoldNothing'
    <2> SUFFICES ASSUME NEW d \in Conns, ~Attached(d)'
                 PROVE  d \notin clients' /\ \A t \in Symbols : Records(t, d)' = 0
      BY DEF ClosedHoldNothing
    <2>1. d # c /\ ~Attached(d)
      BY DEF SubscribeToSymbol, Attached
    <2>2. d \notin clients /\ \A t \in Symbols : Records(t, d) = 0
      BY <2>1 DEF IInv, ClosedHoldNothing
    <2>3. \A t \in Symbols : Records(t, d)' \in Nat
      BY <1>3 DEF Records
    <2>4. QED
      BY <1>3, <1>4, <2>1, <2>2, <2>3 DEF SubscribeToSymbol
  <1>9. QED
    BY <1>5, <1>6, <1>7, <1>8 DEF IInv

\* A tick or an arriving quote: the records change, keys and timers do not.
LEMMA RefreshStep ==
    ASSUME IInv, TypeOK',
           UNCHANGED <<sock, clients, topics, updateIntervals>>,
           \A t \in Symbols, c \in Conns :
              Records(t, c)' > 0 => Records(t, c) > 0
    PROVE  IInv'
  <1>1. TimersAreTopics'
    BY DEF IInv, TimersAreTopics
  <1>2. EverySubscriberHasTimer'
    BY DEF IInv, EverySubscriberHasTimer, HasRecords
  <1>3. ClosedHoldNothing'
    <2>1. \A t \in Symbols, c \in Conns : Records(t, c)' \in Nat
      BY DEF TypeOK, Records
    <2>2. QED
      BY <2>1 DEF IInv, ClosedHoldNothing, Attached
  <1>4. QED
    BY <1>1, <1>2, <1>3 DEF IInv

LEMMA TickStep ==
    ASSUME IInv, HubAssumption, NEW s \in Symbols, UpdateTick(s)
    PROVE  IInv'
  <1>1. waiting \in [Symbols -> [Conns -> Nat]]
    BY DEF IInv, TypeOK
  <1>2. /\ waiting' \in [Symbols -> [Conns -> Nat]]
        /\ served' \in [Symbols -> [Conns -> Nat]]
        /\ quiet' \in SUBSET Symbols
        /\ fetching' \in [Symbols -> 0..MaxFetches]
        /\ \A t \in Symbols, c \in Conns :
              Records(t, c)' > 0 => waiting[t][c] + served[t][c] > 0
    BY <1>1, SendQuoteUpdateLemma DEF UpdateTick
  <1>3. TypeOK'
    BY <1>2 DEF UpdateTick, IInv, TypeOK
  <1>4. QED
    BY <1>2, <1>3, RefreshStep DEF UpdateTick, Records

LEMMA ArrivalStep ==
    ASSUME IInv, HubAssumption, NEW s \in Symbols, QuoteArrives(s)
    PROVE  IInv'
  <1>1. waiting \in [Symbols -> [Conns -> Nat]]
    BY DEF IInv, TypeOK
  <1>2. /\ waiting' \in [Symbols -> [Conns -> Nat]]
        /\ served' \in [Symbols -> [Conns -> Nat]]
        /\ quiet' \in SUBSET Symbols
        /\ \A t \in Symbols, c \in Conns :
              Records(t, c)' > 0 => waiting[t][c] + served[t][c] > 0
    BY <1>1, DeliverLemma DEF QuoteArrives
  <1>3. TypeOK'
    <2>1. fetching' \in [Symbols -> 0..MaxFetches]
      BY DEF QuoteArrives, IInv, TypeOK, HubAssumption
    <2>2. QED
      BY <1>2, <2>1 DEF QuoteArrives, IInv, TypeOK
  <1>4. QED
    BY <1>2, <1>3, RefreshStep DEF QuoteArrives, Records

LEMMA UnsubscribeStep ==
    ASSUME IInv, HubAssumption, NEW c \in Conns, NEW s \in Symbols,
           UnsubscribeFromSymbol(c, s)
    PROVE  IInv'
  <1>1. /\ waiting' \in [Symbols -> [Conns -> Nat]]
        /\ served' \in [Symbols -> [Conns -> Nat]]
        /\ \A t \in Symbols, d \in Conns :
              /\ waiting'[t][d] <= waiting[t][d] /\ served'[t][d] <= served[t][d]
              /\ t # s => waiting'[t][d] = waiting[t][d] /\ served'[t][d] = served[t][d]
    <2>1. CASE Records(s, c) > 0 /\ served[s][c] > 0
      <3>1. /\ served' = [served EXCEPT ![s][c] = @ - 1]
            /\ waiting' = waiting
        BY <2>1 DEF UnsubscribeFromSymbol
      <3>2. QED
        BY <2>1, <3>1 DEF IInv, TypeOK
    <2>2. CASE Records(s, c) > 0 /\ ~(served[s][c] > 0)
      <3>1. /\ waiting' = [waiting EXCEPT ![s][c] = @ - 1]
            /\ served' = served
        BY <2>2 DEF UnsubscribeFromSymbol
      <3>2. waiting[s][c] > 0
        BY <2>2 DEF IInv, TypeOK, Records
      <3>3. QED
        BY <3>1, <3>2 DEF IInv, TypeOK
    <2>3. CASE ~(Records(s, c) > 0)
      BY <2>3 DEF UnsubscribeFromSymbol, IInv, TypeOK
    <2>4. QED
      BY <2>1, <2>2, <2>3
  <1>2. subscriptionCount' \in [Conns -> 0..MAX_SUBSCRIPTIONS_PER_USER]
    BY DEF UnsubscribeFromSymbol, IInv, TypeOK, HubAssumption
  <1>3. /\ \A t \in Symbols, d \in Conns :
              Records(t, d)' \in Nat /\ Records(t, d)' <= Records(t, d)
        /\ \A t \in Symbols \ {s}, d \in Conns : Records(t, d)' = Records(t, d)
    BY <1>1 DEF IInv, TypeOK, Records
  <1>4. TypeOK'
    BY <1>1, <1>2 DEF UnsubscribeFromSymbol, IInv, TypeOK
  <1>5. \A t \in Symbols \ {s} : HasRecords(t)' => t \in topics
    BY <1>3 DEF HasRecords, IInv, TimersAreTopics, EverySubscriberHasTimer
  <1>6. TimersAreTopics' /\ EverySubscriberHasTimer'
    <2> DEFINE left == {t \in topics : t # s \/ HasRecords(s)'}
    <2>1. /\ topics' = left
          /\ updateIntervals' = updateIntervals \ (topics \ left)
      BY DEF UnsubscribeFromSymbol
    <2>2. TimersAreTopics'
      BY <2>1 DEF IInv, TimersAreTopics
    <2>3. \A t \in Symbols : HasRecords(t)' => t \in left
      BY <1>5 DEF UnsubscribeFromSymbol
    <2> HIDE DEF left
    <2>4. QED
      BY <2>1, <2>2, <2>3 DEF TimersAreTopics, EverySubscriberHasTimer
  <1>7. ClosedHoldNothing'
    BY <1>3 DEF UnsubscribeFromSymbol, IInv, ClosedHoldNothing, Attached
  <1>8. QED
    BY <1>4, <1>6, <1>7 DEF IInv

LEMMA DisconnectStep ==
    ASSUME IInv, HubAssumption, NEW c \in Conns, HandleClientDisconnect(c),
           sock' \in [Conns -> SockStates],
           \A d \in Conns \ {c} : sock'[d] = sock[d],
           UNCHANGED <<running, feed, isAlive, subscriptionCount, fetching, quiet>>
    PROVE  IInv'
  <1>1. TypeOK'
    BY DisconnectLemma DEF IInv, TypeOK
  <1>2. ClosedHoldNothing'
    BY DisconnectLemma DEF IInv, ClosedHoldNothing, Attached
  <1>3. QED
    BY <1>1, <1>2, DisconnectLemma DEF IInv

LEMMA CloseEventStep ==
    ASSUME IInv, HubAssumption, NEW c \in Conns, CloseEvent(c)
    PROVE  IInv'
  <1>1. /\ sock' \in [Conns -> SockStates]
        /\ \A d \in Conns \ {c} : sock'[d] = sock[d]
    BY DEF CloseEvent, IInv, TypeOK, SockStates
  <1>2. CASE sock[c] = "closing"
    BY <1>1, <1>2, DisconnectStep DEF CloseEvent
  <1>3. CASE sock[c] = "refused"
    <2>1. TypeOK'
      BY <1>1, <1>3 DEF CloseEvent, IInv, TypeOK
    <2>2. UNCHANGED <<clients, waiting, served, topics, updateIntervals>>
      BY <1>3 DEF CloseEvent
    <2>3. \A d \in Conns : ~Attached(d)' => ~Attached(d)
      BY <1>1, <1>3 DEF Attached
    <2>4. QED
      BY <2>1, <2>2, <2>3 DEF IInv, TimersAreTopics, EverySubscriberHasTimer,
         ClosedHoldNothing, HasRecords, Records
  <1>4. QED
    BY <1>2, <1>3 DEF CloseEvent

LEMMA ErrorEventStep ==
    ASSUME IInv, HubAssumption, NEW c \in Conns, ErrorEvent(c)
    PROVE  IInv'
  <1>1. /\ sock' \in [Conns -> SockStates]
        /\ \A d \in Conns \ {c} : sock'[d] = sock[d]
    BY DEF ErrorEvent, IInv, TypeOK, SockStates
  <1>2. QED
    BY <1>1, DisconnectStep DEF ErrorEvent

LEMMA SweepStep ==
    ASSUME IInv, HubAssumption, SweepStale
    PROVE  IInv'
  <1>1. /\ waiting' \in [Symbols -> [Conns -> Nat]]
        /\ served' \in [Symbols -> [Conns -> Nat]]
    BY DEF SweepStale, IInv, TypeOK
  <1>2. \A t \in Symbols, d \in Conns :
            Records(t, d)' \in Nat /\ Records(t, d)' <= Records(t, d)
    BY DEF SweepStale, IInv, TypeOK, Records
  <1>3. \A t \in Symbols : HasRecords(t)' => HasRecords(t)
    BY <1>2 DEF HasRecords, IInv, TypeOK, Records
  <1>4. /\ topics' \in SUBSET Symbols
        /\ updateIntervals' \in SUBSET Symbols
        /\ TimersAreTopics'
        /\ EverySubscriberHasTimer'
    BY <1>3, StopEmptyTopicsLemma DEF SweepStale
  <1>5. TypeOK'
    BY <1>1, <1>4 DEF SweepStale, IInv, TypeOK
  <1>6. ClosedHoldNothing'
    BY <1>2 DEF SweepStale, IInv, ClosedHoldNothing, Attached
  <1>7. QED
    BY <1>4, <1>5, <1>6 DEF IInv

\* close() empties everything at once.
LEMMA CloseHubStep ==
    ASSUME IInv, HubAssumption, CloseHub
    PROVE  IInv'
  <1>1. TypeOK'
    BY DEF CloseHub, IInv, TypeOK
  <1>2. \A t \in Symbols, d \in Conns : Records(t, d)' = 0
    BY DEF CloseHub, Records
  <1>3. QED
    BY <1>1, <1>2 DEF CloseHub, IInv, TimersAreTopics, EverySubscriberHasTimer,
       ClosedHoldNothing, HasRecords

\* The steps that change neither records nor keys nor timers, and detach nobody.
LEMMA QuietStep ==
    ASSUME IInv, TypeOK', UNCHANGED <<waiting, served, topics, updateIntervals>>,
           \A d \in Conns : ~Attached(d)' => /\ ~Attached(d)
                                             /\ d \in clients' => d \in clients
    PROVE  IInv'
  BY DEF IInv, TimersAreTopics, EverySubscriberHasTimer, ClosedHoldNothing,
     HasRecords, Records

LEMMA ConnectStep ==
    ASSUME IInv, HubAssumption, NEW c \in Conns, Connect(c)
    PROVE  IInv'
  <1>1. TypeOK'
    BY DEF Connect, IInv, TypeOK, SockStates
  <1>2. \A d \in Conns : ~Attached(d)' => /\ ~Attached(d)
                                          /\ d \in clients' => d \in clients
    BY DEF Connect, IInv, TypeOK, Attached, SockStates
  <1>3. QED
    BY <1>1, <1>2, QuietStep DEF Connect

LEMMA HeartbeatStep ==
    ASSUME IInv, Heartbeat
    PROVE  IInv'
  <1>1. TypeOK'
    BY DEF Heartbeat, IInv, TypeOK, SockStates
  <1>2. \A d \in Conns : ~Attached(d)' => ~Attached(d)
    BY DEF Heartbeat, IInv, TypeOK, Attached, SockStates
  <1>3. QED
    BY <1>1, <1>2, QuietStep DEF Heartbeat

-----------------------------------------------------------------------------
\* Every step keeps the invariant.
LEMMA NextIInv == ASSUME IInv, HubAssumption, [Next]_vars PROVE IInv'
  <1>1. ASSUME NEW c \in Conns, Break(c) PROVE IInv'
    <2>1. TypeOK'
      BY <1>1 DEF Break, IInv, TypeOK, SockStates
    <2>2. \A d \in Conns : ~Attached(d)' => ~Attached(d)
      BY <1>1 DEF Break, IInv, TypeOK, Attached, SockStates
    <2>3. QED
      BY <1>1, <2>1, <2>2, QuietStep DEF Break
  <1>2. ASSUME NEW c \in Conns, Pong(c) PROVE IInv'
    BY <1>2, QuietStep DEF Pong, IInv, TypeOK, Attached
  <1>3. ASSUME NEW s \in Symbols, QuoteFails(s) PROVE IInv'
    <2>1. fetching' \in [Symbols -> 0..MaxFetches]
      BY <1>3 DEF QuoteFails, IInv, TypeOK, HubAssumption
    <2>2. QED
      BY <1>3, <2>1, QuietStep DEF QuoteFails, IInv, TypeOK, Attached
  <1>4. ASSUME NEW s \in Symbols, MinuteOfSilence(s) PROVE IInv'
    BY <1>4, QuietStep DEF MinuteOfSilence, IInv, TypeOK, Attached
  <1>5. ASSUME UNCHANGED vars PROVE IInv'
    BY <1>5 DEF vars, IInv, TypeOK, TimersAreTopics, EverySubscriberHasTimer,
       ClosedHoldNothing, HasRecords, Records, Attached
  <1>6. QED
    BY <1>1, <1>2, <1>3, <1>4, <1>5, ConnectStep, ErrorEventStep, CloseEventStep,
       SubscribeStep, UnsubscribeStep, TickStep, ArrivalStep, HeartbeatStep,
       SweepStep, CloseHubStep
    DEF Next

-----------------------------------------------------------------------------
\* The inductive invariant holds in every state the hub can reach.
THEOREM Invariance == Spec => []IInv
  <1> USE HubAssumption
  <1>1. Init => IInv
    BY InitIInv
  <1>2. IInv /\ [Next]_vars => IInv'
    BY NextIInv
  <1>3. QED
    BY <1>1, <1>2, PTL DEF Spec

\* Type correctness, for every number of connections, symbols and limits.
THEOREM TypeCorrect == Spec => []TypeOK
  <1>1. IInv => TypeOK
    BY DEF IInv
  <1>2. QED
    BY <1>1, Invariance, PTL

\* Whoever is subscribed to a symbol has a running interval for it.
THEOREM SubscribersHaveTimers == Spec => []EverySubscriberHasTimer
  <1>1. IInv => EverySubscriberHasTimer
    BY DEF IInv
  <1>2. QED
    BY <1>1, Invariance, PTL

\* No interval runs for a symbol that has left `subscriptions`.
THEOREM TimersHaveTopics == Spec => []NoTimerWithoutTopic
  <1>1. IInv => NoTimerWithoutTopic
    BY DEF IInv, TimersAreTopics, NoTimerWithoutTopic
  <1>2. QED
    BY <1>1, Invariance, PTL

\* A connection that is closed, or was never accepted, has no record left.
THEOREM ClosedAreForgotten == Spec => []ClosedHoldNothing
  <1>1. IInv => ClosedHoldNothing
    BY DEF IInv
  <1>2. QED
    BY <1>1, Invariance, PTL

-----------------------------------------------------------------------------
(***************************************************************************)
(* The connection limit.  While the hub runs, an OPEN connection is in     *)
(* `clients`, which is what the code counts; once it is closed `clients`   *)
(* says nothing, but nobody connects any more.                             *)
(***************************************************************************)
OpenConns == {c \in Conns : sock[c] = "open"}

LimitInv ==
    /\ Cardinality(clients) <= MaxClients
    /\ running => OpenConns \subseteq clients
    /\ Cardinality(OpenConns) <= MaxClients

\* A step that opens nothing and registers nobody only has to keep the OPEN
\* connections registered.
LEMMA NoConnectStep ==
    ASSUME HubAssumption, TypeOK, TypeOK', LimitInv,
           clients' \subseteq clients, OpenConns' \subseteq OpenConns,
           running' => running /\ OpenConns' \subseteq clients'
    PROVE  LimitInv'
  <1>1. IsFiniteSet(clients) /\ IsFiniteSet(OpenConns)
    BY FS_Subset DEF HubAssumption, TypeOK, OpenConns
  <1>2. /\ Cardinality(clients') <= Cardinality(clients)
        /\ Cardinality(OpenConns') <= Cardinality(OpenConns)
    BY <1>1, FS_Subset
  <1>3. /\ Cardinality(clients') \in Nat /\ Cardinality(clients) \in Nat
        /\ Cardinality(OpenConns') \in Nat /\ Cardinality(OpenConns) \in Nat
    BY <1>1, FS_Subset, FS_CardinalityType
  <1>4. QED
    BY <1>2, <1>3 DEF LimitInv, HubAssumption

LEMMA ConnectLimit ==
    ASSUME HubAssumption, TypeOK, TypeOK', LimitInv, NEW c \in Conns, Connect(c)
    PROVE  LimitInv'
  <1>1. CASE Cardinality(clients) >= MaxClients
    BY <1>1, NoConnectStep DEF Connect, LimitInv, OpenConns, TypeOK
  <1>2. CASE ~(Cardinality(clients) >= MaxClients)
    <2>1. IsFiniteSet(clients) /\ Cardinality(clients) \in Nat
      BY FS_Subset, FS_CardinalityType DEF HubAssumption, TypeOK
    <2>2. clients' = clients \cup {c}
      BY <1>2 DEF Connect
    <2>3. IsFiniteSet(clients') /\ Cardinality(clients') <= Cardinality(clients) + 1
      <3>1. /\ IsFiniteSet(clients \cup {c})
            /\ Cardinality(clients \cup {c}) =
                 IF c \in clients THEN Cardinality(clients) ELSE Cardinality(clients) + 1
        BY <2>1, FS_AddElement
      <3>2. QED
        BY <2>1, <2>2, <3>1
    <2>4. Cardinality(clients') \in Nat /\ Cardinality(clients') <= MaxClients
      BY <1>2, <2>1, <2>3, FS_CardinalityType DEF HubAssumption
    <2>5. OpenConns' \subseteq clients'
      BY <1>2, <2>2 DEF Connect, LimitInv, OpenConns, TypeOK
    <2>6. /\ Cardinality(OpenConns') <= Cardinality(clients')
          /\ Cardinality(OpenConns') \in Nat
      BY <2>3, <2>5, FS_Subset, FS_CardinalityType
    <2>7. QED
      BY <2>4, <2>5, <2>6 DEF LimitInv, HubAssumption
  <1>3. QED
    BY <1>1, <1>2

LEMMA NextLimit ==
    ASSUME HubAssumption, TypeOK, TypeOK', LimitInv, [Next]_vars
    PROVE  LimitInv'
  <1>1. ASSUME NEW c \in Conns, Break(c) \/ Pong(c) PROVE LimitInv'
    <2>1. /\ clients' = clients /\ running' = running
          /\ OpenConns' \subseteq OpenConns
      BY <1>1 DEF Break, Pong, OpenConns, TypeOK
    <2>2. QED
      BY <2>1, NoConnectStep DEF LimitInv
  <1>2. ASSUME NEW c \in Conns, ErrorEvent(c) \/ CloseEvent(c) PROVE LimitInv'
    <2>1. /\ running' = running
          /\ OpenConns' \subseteq OpenConns \ {c}
          /\ clients' = clients \/ clients' = clients \ {c}
      BY <1>2 DEF ErrorEvent, CloseEvent, HandleClientDisconnect, OpenConns, TypeOK
    <2>2. /\ clients' \subseteq clients
          /\ running' => running /\ OpenConns' \subseteq clients'
      BY <2>1 DEF LimitInv
    <2>3. QED
      BY <2>1, <2>2, NoConnectStep
  <1>3. ASSUME NEW c \in Conns, NEW s \in Symbols,
               SubscribeToSymbol(c, s) \/ UnsubscribeFromSymbol(c, s)
        PROVE  LimitInv'
    BY <1>3, NoConnectStep
    DEF SubscribeToSymbol, UnsubscribeFromSymbol, LimitInv, OpenConns
  <1>4. ASSUME NEW s \in Symbols,
               UpdateTick(s) \/ QuoteArrives(s) \/ QuoteFails(s) \/ MinuteOfSilence(s)
        PROVE  LimitInv'
    BY <1>4, NoConnectStep
    DEF UpdateTick, QuoteArrives, QuoteFails, MinuteOfSilence, LimitInv, OpenConns
  <1>5. ASSUME Heartbeat PROVE LimitInv'
    <2>1. OpenConns' \subseteq OpenConns
      BY <1>5 DEF Heartbeat, OpenConns, TypeOK
    <2>2. QED
      BY <1>5, <2>1, NoConnectStep DEF Heartbeat, LimitInv
  <1>6. ASSUME SweepStale PROVE LimitInv'
    BY <1>6, NoConnectStep DEF SweepStale, LimitInv, OpenConns
  <1>7. ASSUME CloseHub PROVE LimitInv'
    BY <1>7, NoConnectStep DEF CloseHub, OpenConns
  <1>8. ASSUME UNCHANGED vars PROVE LimitInv'
    BY <1>8 DEF vars, LimitInv, OpenConns
  <1>9. QED
    BY <1>1, <1>2, <1>3, <1>4, <1>5, <1>6, <1>7, <1>8, ConnectLimit DEF Next

\* At most MaxClients connections are OPEN at a time, for every MaxClients.
THEOREM LimitKept == Spec => []OpenWithinLimit
  <1> USE HubAssumption
  <1>1. Init => LimitInv
    <2> SUFFICES ASSUME Init PROVE LimitInv
      OBVIOUS
    <2>1. clients = {} /\ OpenConns = {}
      BY DEF Init, OpenConns
    <2>2. QED
      BY <2>1, FS_EmptySet DEF LimitInv, HubAssumption
  <1>2. LimitInv /\ TypeOK /\ TypeOK' /\ [Next]_vars => LimitInv'
    BY NextLimit
  <1>3. LimitInv => OpenWithinLimit
    BY DEF LimitInv, OpenWithinLimit, OpenConns
  <1>4. QED
    BY <1>1, <1>2, <1>3, TypeCorrect, PTL DEF Spec

-----------------------------------------------------------------------------
(***************************************************************************)
(* The subscription limit.  What the limit is checked on is a count kept   *)
(* beside the records; it bounds them because every record was counted     *)
(* when it was made, and the count only goes down with a record.           *)
(***************************************************************************)
CountInv ==
    \A c \in Conns : /\ IsFiniteSet(RecordsOf(c))
                     /\ Cardinality(RecordsOf(c)) <= subscriptionCount[c]

LEMMA RecordsAreNumbers ==
    ASSUME TypeOK, NEW s \in Symbols, NEW c \in Conns
    PROVE  Records(s, c) \in Nat
  BY DEF TypeOK, Records

\* A quote of s, delivered now or asked for, leaves every other symbol alone
\* and what the OPEN connections hold of s.
LEMMA QuoteRecords ==
    ASSUME TypeOK, NEW s \in Symbols, NEW w \in [Symbols -> [Conns -> Nat]],
           \/ Deliver(s, w)
           \/ waiting' = w /\ served' = served,
           NEW t \in Symbols, NEW d \in Conns
    PROVE  /\ Records(t, d)' \in Nat
           /\ Records(t, d)' <= w[t][d] + served[t][d]
           /\ sock[d] = "open" => Records(t, d)' = w[t][d] + served[t][d]
  <1>1. w[t][d] \in Nat /\ served[t][d] \in Nat
    BY DEF TypeOK
  <1>2. CASE Deliver(s, w)
    <2>1. /\ waiting'[t][d] = IF t = s THEN 0 ELSE w[t][d]
          /\ served'[t][d] = IF t = s THEN (IF sock[d] = "open"
                                            THEN served[s][d] + w[s][d] ELSE 0)
                                      ELSE served[t][d]
      BY <1>2 DEF Deliver, TypeOK
    <2>2. QED BY <1>1, <2>1 DEF Records
  <1>3. CASE waiting' = w /\ served' = served
    BY <1>1, <1>3 DEF Records
  <1>4. QED BY <1>2, <1>3

\* A subscribe makes one record of c for s and counts it.
LEMMA SubscribeRecords ==
    ASSUME TypeOK, NEW c \in Conns, NEW s \in Symbols, SubscribeToSymbol(c, s)
    PROVE  /\ subscriptionCount' = [subscriptionCount EXCEPT ![c] = @ + 1]
           /\ sock' = sock
           /\ \A t \in Symbols, d \in Conns :
                 /\ Records(t, d)' \in Nat
                 /\ Records(t, d)' <= Records(t, d) + (IF t = s /\ d = c THEN 1 ELSE 0)
                 /\ sock[d] = "open" => Records(t, d)' >= Records(t, d)
  <1> DEFINE w == [waiting EXCEPT ![s][c] = @ + 1]
  <1>1. w \in [Symbols -> [Conns -> Nat]]
    BY DEF TypeOK
  <1>2. \A t \in Symbols, d \in Conns :
           w[t][d] = waiting[t][d] + (IF t = s /\ d = c THEN 1 ELSE 0)
    BY DEF TypeOK
  <1>3. SendQuoteUpdate(s, w)
    BY DEF SubscribeToSymbol
  <1> HIDE DEF w
  <1>4. Deliver(s, w) \/ (waiting' = w /\ served' = served)
    BY <1>3 DEF SendQuoteUpdate
  <1>5. ASSUME NEW t \in Symbols, NEW d \in Conns
        PROVE  /\ Records(t, d)' \in Nat
               /\ Records(t, d)' <= Records(t, d) + (IF t = s /\ d = c THEN 1 ELSE 0)
               /\ sock[d] = "open" => Records(t, d)' >= Records(t, d)
    <2>1. /\ Records(t, d)' \in Nat
          /\ Records(t, d)' <= w[t][d] + served[t][d]
          /\ sock[d] = "open" => Records(t, d)' = w[t][d] + served[t][d]
      BY <1>1, <1>4, QuoteRecords
    <2>2. waiting[t][d] \in Nat /\ served[t][d] \in Nat
      BY DEF TypeOK
    <2>3. Records(t, d) = waiting[t][d] + served[t][d]
      BY DEF Records
    <2>4. QED BY <1>2, <2>1, <2>2, <2>3
  <1>6. QED BY <1>5 DEF SubscribeToSymbol

\* An unsubscribe takes one record, if there is one, and its count.
LEMMA UnsubscribeRecords ==
    ASSUME TypeOK, NEW c \in Conns, NEW s \in Symbols, UnsubscribeFromSymbol(c, s)
    PROVE  /\ sock' = sock
           /\ \A t \in Symbols, d \in Conns :
                 Records(t, d)' = IF t = s /\ d = c /\ Records(t, d) > 0
                                  THEN Records(t, d) - 1 ELSE Records(t, d)
           /\ subscriptionCount' =
                 IF Records(s, c) > 0 /\ subscriptionCount[c] > 0
                 THEN [subscriptionCount EXCEPT ![c] = @ - 1] ELSE subscriptionCount
  <1>1. CASE Records(s, c) > 0
    <2>1. \A t \in Symbols, d \in Conns :
             Records(t, d)' = IF t = s /\ d = c THEN Records(t, d) - 1 ELSE Records(t, d)
      BY <1>1 DEF UnsubscribeFromSymbol, Records, TypeOK
    <2>2. subscriptionCount' = [subscriptionCount EXCEPT ![c] = IF @ > 0 THEN @ - 1 ELSE @]
      BY <1>1 DEF UnsubscribeFromSymbol
    <2>3. subscriptionCount' =
             IF subscriptionCount[c] > 0
             THEN [subscriptionCount EXCEPT ![c] = @ - 1] ELSE subscriptionCount
      BY <2>2 DEF TypeOK
    <2>4. QED BY <1>1, <2>1, <2>3 DEF UnsubscribeFromSymbol
  <1>2. CASE ~(Records(s, c) > 0)
    BY <1>2 DEF UnsubscribeFromSymbol, Records
  <1>3. QED BY <1>1, <1>2

\* The other steps leave the counts alone and make no record; of what a
\* connection holds that stays OPEN they take only what is silent, or all.
LEMMA OtherRecords ==
    ASSUME IInv, [Next]_vars,
           ~ \E c \in Conns, s \in Symbols :
                SubscribeToSymbol(c, s) \/ UnsubscribeFromSymbol(c, s)
    PROVE  /\ subscriptionCount' = subscriptionCount
           /\ \A t \in Symbols, d \in Conns :
                 /\ Records(t, d)' \in Nat
                 /\ Records(t, d)' <= Records(t, d)
                 /\ sock[d] = "open" /\ sock'[d] = "open"
                       => \/ Records(t, d)' = Records(t, d)
                          \/ running /\ ~running'
                          \/ t \in quiet
  <1> DEFINE Kept == \A t \in Symbols, d \in Conns :
                        /\ Records(t, d)' \in Nat
                        /\ Records(t, d)' <= Records(t, d)
                        /\ sock[d] = "open" /\ sock'[d] = "open"
                              => \/ Records(t, d)' = Records(t, d)
                                 \/ running /\ ~running'
                                 \/ t \in quiet
  <1>0. TypeOK /\ \A t \in Symbols, d \in Conns : Records(t, d) \in Nat
    BY RecordsAreNumbers DEF IInv
  <1>1. ASSUME UNCHANGED <<waiting, served>> PROVE Kept
    BY <1>0, <1>1 DEF Records
  <1>2. ASSUME NEW c \in Conns, HandleClientDisconnect(c), sock'[c] # "open" PROVE Kept
    BY <1>0, <1>2, DisconnectLemma
  <1>3. ASSUME NEW s \in Symbols, \/ Deliver(s, waiting)
                                  \/ waiting' = waiting /\ served' = served
        PROVE  Kept
    <2>1. waiting \in [Symbols -> [Conns -> Nat]]
      BY <1>0 DEF TypeOK
    <2>2. ASSUME NEW t \in Symbols, NEW d \in Conns
          PROVE  /\ Records(t, d)' \in Nat
                 /\ Records(t, d)' <= waiting[t][d] + served[t][d]
                 /\ sock[d] = "open" => Records(t, d)' = waiting[t][d] + served[t][d]
      BY <1>0, <1>3, <2>1, QuoteRecords
    <2>3. QED BY <2>2 DEF Records
  <1>4. ASSUME SweepStale PROVE Kept
    <2>1. ASSUME NEW t \in Symbols, NEW d \in Conns
          PROVE  /\ waiting'[t][d] = IF sock[d] = "open" THEN waiting[t][d] ELSE 0
                 /\ served'[t][d] = IF sock[d] = "open" /\ t \notin quiet
                                    THEN served[t][d] ELSE 0
                 /\ waiting[t][d] \in Nat /\ served[t][d] \in Nat
      BY <1>0, <1>4 DEF SweepStale, TypeOK
    <2>2. QED BY <2>1 DEF Records
  <1>5. ASSUME CloseHub PROVE Kept
    BY <1>0, <1>5 DEF CloseHub, Records
  <1> HIDE DEF Kept
  <1>6. Kept /\ subscriptionCount' = subscriptionCount
    <2>1. ASSUME NEW c \in Conns, Connect(c) \/ Break(c) \/ Pong(c)
          PROVE  Kept /\ subscriptionCount' = subscriptionCount
      BY <1>1, <2>1 DEF Connect, Break, Pong
    <2>2. ASSUME NEW c \in Conns, ErrorEvent(c) \/ CloseEvent(c)
          PROVE  Kept /\ subscriptionCount' = subscriptionCount
      <3>1. sock'[c] # "open"
        BY <1>0, <2>2 DEF ErrorEvent, CloseEvent, TypeOK
      <3>2. QED BY <1>1, <1>2, <2>2, <3>1 DEF ErrorEvent, CloseEvent
    <2>3. ASSUME NEW s \in Symbols, UpdateTick(s) \/ QuoteArrives(s)
          PROVE  Kept /\ subscriptionCount' = subscriptionCount
      BY <1>3, <2>3 DEF UpdateTick, QuoteArrives, SendQuoteUpdate
    <2>4. ASSUME \/ \E s \in Symbols : QuoteFails(s) \/ MinuteOfSilence(s)
                 \/ Heartbeat \/ UNCHANGED vars
          PROVE  Kept /\ subscriptionCount' = subscriptionCount
      BY <1>1, <2>4 DEF QuoteFails, MinuteOfSilence, Heartbeat, vars
    <2>5. CASE SweepStale
      BY <1>4, <2>5 DEF SweepStale
    <2>6. CASE CloseHub
      BY <1>5, <2>6 DEF CloseHub
    <2>7. QED BY <2>1, <2>2, <2>3, <2>4, <2>5, <2>6 DEF Next
  <1>7. QED BY <1>6 DEF Kept

LEMMA InRecordsOf ==
    ASSUME NEW c \in Conns, NEW r
    PROVE  r \in RecordsOf(c) <=>
              \E s \in Symbols : \E i \in 1..Records(s, c) : r = <<s, i>>
  BY DEF RecordsOf

\* What is counted bounds the records, whatever the step.
LEMMA NextCount ==
    ASSUME HubAssumption, IInv, TypeOK', CountInv, [Next]_vars
    PROVE  CountInv'
  <1>0. /\ TypeOK
        /\ \A t \in Symbols, d \in Conns : Records(t, d) \in Nat
        /\ \A d \in Conns : subscriptionCount[d] \in Nat /\ subscriptionCount'[d] \in Nat
    BY RecordsAreNumbers DEF IInv, TypeOK, HubAssumption
  <1>1. \A d \in Conns : /\ IsFiniteSet(RecordsOf(d))
                         /\ Cardinality(RecordsOf(d)) \in Nat
                         /\ Cardinality(RecordsOf(d)) <= subscriptionCount[d]
    BY FS_CardinalityType DEF CountInv
  <1>2. ASSUME NEW d \in Conns, \A t \in Symbols : /\ Records(t, d)' \in Nat
                                                   /\ Records(t, d)' <= Records(t, d),
               subscriptionCount'[d] >= subscriptionCount[d]
        PROVE  /\ IsFiniteSet(RecordsOf(d)')
               /\ Cardinality(RecordsOf(d)') <= subscriptionCount'[d]
    <2>1. RecordsOf(d)' \subseteq RecordsOf(d)
      BY <1>0, <1>2 DEF RecordsOf
    <2>2. /\ IsFiniteSet(RecordsOf(d)')
          /\ Cardinality(RecordsOf(d)') <= Cardinality(RecordsOf(d))
      BY <1>1, <2>1, FS_Subset
    <2>3. Cardinality(RecordsOf(d)') \in Nat
      BY <2>2, FS_CardinalityType
    <2>4. QED BY <1>0, <1>1, <1>2, <2>2, <2>3
  <1>3. ASSUME NEW c \in Conns, NEW s \in Symbols, SubscribeToSymbol(c, s)
        PROVE  CountInv'
    <2>1. /\ \A d \in Conns : subscriptionCount'[d] =
                subscriptionCount[d] + (IF d = c THEN 1 ELSE 0)
          /\ \A t \in Symbols, d \in Conns :
                /\ Records(t, d)' \in Nat
                /\ Records(t, d)' <= Records(t, d) + (IF t = s /\ d = c THEN 1 ELSE 0)
      BY <1>0, <1>3, SubscribeRecords DEF TypeOK
    <2>2. ASSUME NEW d \in Conns, d # c
          PROVE  /\ IsFiniteSet(RecordsOf(d)')
                 /\ Cardinality(RecordsOf(d)') <= subscriptionCount'[d]
      BY <1>0, <1>2, <2>1, <2>2
    <2> DEFINE r == <<s, Records(s, c) + 1>>
    <2>3. ASSUME NEW x \in RecordsOf(c)' PROVE x \in RecordsOf(c) \cup {r}
      <3>1. PICK t \in Symbols : \E i \in 1..Records(t, c)' : x = <<t, i>>
        BY <2>3 DEF RecordsOf
      <3>2. PICK i \in 1..Records(t, c)' : x = <<t, i>>
        BY <3>1
      <3>3. /\ Records(t, c) \in Nat /\ Records(t, c)' \in Nat
            /\ Records(t, c)' <= Records(t, c) + (IF t = s THEN 1 ELSE 0)
        BY <1>0, <2>1
      <3>4. i \in 1..Records(t, c) \/ (t = s /\ i = Records(s, c) + 1)
        BY <3>2, <3>3
      <3>5. QED BY <3>2, <3>4, InRecordsOf
    <2> HIDE DEF r
    <2>4. /\ IsFiniteSet(RecordsOf(c) \cup {r})
          /\ Cardinality(RecordsOf(c) \cup {r}) <= Cardinality(RecordsOf(c)) + 1
      <3>1. IsFiniteSet(RecordsOf(c)) /\ Cardinality(RecordsOf(c)) \in Nat
        BY <1>1
      <3>2. /\ IsFiniteSet(RecordsOf(c) \cup {r})
            /\ Cardinality(RecordsOf(c) \cup {r}) =
                  IF r \in RecordsOf(c) THEN Cardinality(RecordsOf(c))
                                        ELSE Cardinality(RecordsOf(c)) + 1
        BY <3>1, FS_AddElement, Zenon
      <3>3. QED BY <3>1, <3>2
    <2>5. /\ IsFiniteSet(RecordsOf(c)')
          /\ Cardinality(RecordsOf(c)') <= Cardinality(RecordsOf(c) \cup {r})
      BY <2>3, <2>4, FS_Subset
    <2>6. /\ Cardinality(RecordsOf(c)') \in Nat
          /\ Cardinality(RecordsOf(c) \cup {r}) \in Nat
      BY <2>4, <2>5, FS_CardinalityType
    <2>7. Cardinality(RecordsOf(c)') <= subscriptionCount'[c]
      BY <1>0, <1>1, <2>1, <2>4, <2>5, <2>6
    <2>8. QED BY <2>2, <2>5, <2>7 DEF CountInv
  <1>4. ASSUME NEW c \in Conns, NEW s \in Symbols, UnsubscribeFromSymbol(c, s)
        PROVE  CountInv'
    <2>1. /\ \A t \in Symbols, d \in Conns :
                Records(t, d)' = IF t = s /\ d = c /\ Records(t, d) > 0
                                 THEN Records(t, d) - 1 ELSE Records(t, d)
          /\ subscriptionCount' =
                IF Records(s, c) > 0 /\ subscriptionCount[c] > 0
                THEN [subscriptionCount EXCEPT ![c] = @ - 1] ELSE subscriptionCount
      BY <1>0, <1>4, UnsubscribeRecords
    <2>2. ASSUME NEW d \in Conns, d # c \/ ~(Records(s, c) > 0)
          PROVE  /\ IsFiniteSet(RecordsOf(d)')
                 /\ Cardinality(RecordsOf(d)') <= subscriptionCount'[d]
      <3>1. subscriptionCount'[d] = subscriptionCount[d]
        BY <1>0, <2>1, <2>2 DEF TypeOK
      <3>2. \A t \in Symbols : Records(t, d)' = Records(t, d)
        BY <2>1, <2>2
      <3>3. QED BY <1>0, <1>2, <3>1, <3>2
    <2>3. ASSUME Records(s, c) > 0
          PROVE  /\ IsFiniteSet(RecordsOf(c)')
                 /\ Cardinality(RecordsOf(c)') <= subscriptionCount'[c]
      <3> DEFINE r == <<s, Records(s, c)>>
      <3>1. RecordsOf(c)' = RecordsOf(c) \ {r}
        BY <1>0, <2>1, <2>3 DEF RecordsOf
      <3>2. r \in RecordsOf(c)
        BY <1>0, <2>3, InRecordsOf
      <3> HIDE DEF r
      <3>3. /\ IsFiniteSet(RecordsOf(c) \ {r})
            /\ Cardinality(RecordsOf(c) \ {r}) = Cardinality(RecordsOf(c)) - 1
        BY <1>1, <3>2, FS_RemoveElement
      <3>4. Cardinality(RecordsOf(c) \ {r}) \in Nat
        BY <3>3, FS_CardinalityType
      <3>5. subscriptionCount'[c] = subscriptionCount[c] - 1
        BY <1>0, <1>1, <2>1, <2>3, <3>3, <3>4 DEF TypeOK
      <3>6. QED BY <1>0, <1>1, <3>1, <3>3, <3>5
    <2>4. QED BY <2>2, <2>3 DEF CountInv
  <1>5. CASE ~ \E c \in Conns, s \in Symbols :
                SubscribeToSymbol(c, s) \/ UnsubscribeFromSymbol(c, s)
    <2>1. /\ subscriptionCount' = subscriptionCount
          /\ \A t \in Symbols, d \in Conns : /\ Records(t, d)' \in Nat
                                             /\ Records(t, d)' <= Records(t, d)
      BY <1>5, OtherRecords
    <2>2. QED BY <1>0, <1>2, <2>1 DEF CountInv
  <1>6. QED BY <1>3, <1>4, <1>5

LEMMA CountInvariance == Spec => []CountInv
  <1> USE HubAssumption
  <1>1. Init => CountInv
    <2> SUFFICES ASSUME Init, NEW c \in Conns
                 PROVE  /\ IsFiniteSet(RecordsOf(c))
                        /\ Cardinality(RecordsOf(c)) <= subscriptionCount[c]
      BY DEF CountInv
    <2>1. RecordsOf(c) = {} /\ subscriptionCount[c] = 0
      BY DEF Init, RecordsOf, Records
    <2>2. QED BY <2>1, FS_EmptySet
  <1>2. CountInv /\ IInv /\ TypeOK' /\ [Next]_vars => CountInv'
    BY NextCount
  <1>3. QED
    BY <1>1, <1>2, Invariance, TypeCorrect, PTL DEF Spec

\* The limit on the count bounds the records of a connection, whatever the
\* sweep, quotes to dead sockets and close() took without telling the count.
THEOREM CountBoundsRecords == Spec => []RecordsWithinCount
  <1>1. CountInv => RecordsWithinCount
    BY DEF CountInv, RecordsWithinCount, Held
  <1>2. QED
    BY <1>1, CountInvariance, PTL

\* A connection that stays OPEN loses a record only by its own unsubscribe,
\* which the count follows, by close(), or by a minute of silence.
THEOREM EvictionIsAccounted == Spec => EvictionAccounted
  <1>1. IInv /\ CountInv /\ [Next]_vars =>
           [\A c \in Conns, s \in Symbols :
               (/\ sock[c] = "open" /\ sock'[c] = "open"
                /\ Records(s, c)' < Records(s, c))
               => \/ subscriptionCount'[c] = subscriptionCount[c] - 1
                  \/ running /\ ~running'
                  \/ s \in quiet]_vars
    <2> SUFFICES ASSUME IInv, CountInv, [Next]_vars, NEW c \in Conns, NEW s \in Symbols,
                        sock[c] = "open", sock'[c] = "open",
                        Records(s, c)' < Records(s, c)
                 PROVE  \/ subscriptionCount'[c] = subscriptionCount[c] - 1
                        \/ running /\ ~running'
                        \/ s \in quiet
      OBVIOUS
    <2>0. TypeOK /\ Records(s, c) \in Nat
      BY RecordsAreNumbers DEF IInv
    <2>1. ASSUME NEW d \in Conns, NEW t \in Symbols, SubscribeToSymbol(d, t)
          PROVE  FALSE
      <3>1. Records(s, c)' \in Nat /\ Records(s, c)' >= Records(s, c)
        BY <2>0, <2>1, SubscribeRecords
      <3>2. QED BY <2>0, <3>1
    <2>2. ASSUME NEW d \in Conns, NEW t \in Symbols, UnsubscribeFromSymbol(d, t)
          PROVE  subscriptionCount'[c] = subscriptionCount[c] - 1
      <3>1. /\ Records(s, c)' = IF s = t /\ c = d /\ Records(s, c) > 0
                                THEN Records(s, c) - 1 ELSE Records(s, c)
            /\ subscriptionCount' =
                  IF Records(t, d) > 0 /\ subscriptionCount[d] > 0
                  THEN [subscriptionCount EXCEPT ![d] = @ - 1] ELSE subscriptionCount
        BY <2>0, <2>2, UnsubscribeRecords
      <3>2. s = t /\ c = d /\ Records(s, c) > 0
        BY <2>0, <3>1
      <3>3. subscriptionCount[c] > 0
        <4>1. <<s, 1>> \in RecordsOf(c)
          BY <2>0, <3>2, InRecordsOf
        <4>2. /\ IsFiniteSet(RecordsOf(c)) /\ Cardinality(RecordsOf(c)) \in Nat
              /\ Cardinality(RecordsOf(c)) <= subscriptionCount[c]
          BY FS_CardinalityType DEF CountInv
        <4>3. Cardinality(RecordsOf(c)) # 0
          BY <4>1, <4>2, FS_EmptySet
        <4>4. subscriptionCount[c] \in Nat
          BY <2>0, HubAssumption DEF TypeOK, HubAssumption
        <4>5. QED BY <4>2, <4>3, <4>4
      <3>4. QED BY <2>0, <3>1, <3>2, <3>3 DEF TypeOK
    <2>3. CASE ~ \E d \in Conns, t \in Symbols :
                  SubscribeToSymbol(d, t) \/ UnsubscribeFromSymbol(d, t)
      <3>1. /\ Records(s, c)' \in Nat
            /\ \/ Records(s, c)' = Records(s, c)
               \/ running /\ ~running'
               \/ s \in quiet
        BY <2>3, OtherRecords
      <3>2. QED BY <2>0, <3>1
    <2>4. QED BY <2>1, <2>2, <2>3
  <1>2. QED
    BY <1>1, Invariance, CountInvariance, PTL DEF Spec, EvictionAccounted

-----------------------------------------------------------------------------
(***************************************************************************)
(* The hub implements the abstract feed: each of its steps is a step of    *)
(* QuoteFeed for the subscriptions a connection holds, or changes nothing  *)
(* of them.                                                                *)
(*                                                                         *)
(* Two parts of the invariant are needed: a record of a connection stands  *)
(* under a key of `subscriptions`, so that an unsubscribe finds it; and a  *)
(* connection whose 'close' event has come holds none.                     *)
(***************************************************************************)
\* The link of a connection, one at a time.
LEMMA LinkIs ==
    ASSUME TypeOK, NEW c \in Conns
    PROVE  /\ LinkOf[c] = "up" <=> sock[c] = "open"
           /\ LinkOf[c] = "dying" <=> sock[c] = "closing"
           /\ LinkOf[c] = "idle" <=> sock[c] = "idle"
           /\ LinkOf[c] = "gone" <=> sock[c] \in {"refused", "closed"}
  BY DEF LinkOf, TypeOK, SockStates

LEMMA HoldsIs ==
    ASSUME NEW s \in Symbols, NEW c \in Conns
    PROVE  Holds[s][c] = Records(s, c) /\ Holds'[s][c] = Records(s, c)'
  BY DEF Holds

\* Records that stay the same are subscriptions that stay the same.
LEMMA SameHolds ==
    ASSUME \A s \in Symbols, c \in Conns : Records(s, c)' = Records(s, c)
    PROVE  Holds' = Holds
  BY DEF Holds

LEMMA SameLinks == ASSUME sock' = sock PROVE LinkOf' = LinkOf
  BY DEF LinkOf

\* The hub starts as the feed does.
LEMMA InitFeed == ASSUME Init PROVE Feed!Init
  BY DEF Init, Feed!Init, Feed!None, LinkOf, Holds, Records

\* A quote delivered to the subscribers of s, of whom w are new, is what
\* Sent says of the subscriptions h that count them.
LEMMA DeliverSends ==
    ASSUME TypeOK, NEW s \in Symbols, NEW w \in [Symbols -> [Conns -> Nat]],
           Deliver(s, w), \A t \in Symbols, c \in Conns : t # s => w[t][c] = waiting[t][c],
           NEW h, h = [t \in Symbols |-> [c \in Conns |-> w[t][c] + served[t][c]]]
    PROVE  Holds' = Feed!Sent(h, s) /\ quiet' = quiet \ {s}
  <1>1. \A t \in Symbols, c \in Conns :
           Records(t, c)' = IF t = s THEN (IF sock[c] = "open" THEN h[t][c] ELSE 0)
                                     ELSE h[t][c]
    BY DEF Deliver, TypeOK, Records
  <1>2. Feed!Sent(h, s) = [t \in Symbols |-> [c \in Conns |->
                              IF t = s THEN (IF sock[c] = "open" THEN h[t][c] ELSE 0)
                                       ELSE h[t][c]]]
    BY LinkIs DEF Feed!Sent
  <1>3. QED
    BY <1>1, <1>2 DEF Holds, Deliver

LEMMA SubscribeFeed ==
    ASSUME TypeOK, NEW c \in Conns, NEW s \in Symbols, SubscribeToSymbol(c, s)
    PROVE  Feed!Subscribe(c, s)
  <1> DEFINE w == [waiting EXCEPT ![s][c] = @ + 1]
             h == [t \in Symbols |-> [d \in Conns |-> w[t][d] + served[t][d]]]
  <1>1. w \in [Symbols -> [Conns -> Nat]]
    BY DEF TypeOK
  <1>2. \A t \in Symbols, d \in Conns :
           w[t][d] = IF t = s /\ d = c THEN waiting[t][d] + 1 ELSE waiting[t][d]
    BY DEF TypeOK
  <1>3. h = [Holds EXCEPT ![s][c] = @ + 1]
    <2> HIDE DEF w
    <2>1. \A t \in Symbols, d \in Conns :
             w[t][d] + served[t][d] = IF t = s /\ d = c THEN Records(t, d) + 1
                                                      ELSE Records(t, d)
      BY <1>2 DEF Records, TypeOK
    <2>2. QED
      BY <2>1 DEF Holds
  <1>4. LinkOf[c] \in {"up", "dying"}
    BY LinkIs DEF SubscribeToSymbol, Attached
  <1>5. SendQuoteUpdate(s, w) /\ running' = running /\ sock' = sock
    BY DEF SubscribeToSymbol
  <1> HIDE DEF w
  <1>6. CASE feed = "mock"
    <2>1. Deliver(s, w)
      BY <1>5, <1>6 DEF SendQuoteUpdate
    <2> HIDE DEF h
    <2>2. Holds' = Feed!Sent(h, s) /\ quiet' = quiet \ {s}
      BY <1>1, <1>2, <2>1, DeliverSends DEF h
    <2>3. QED
      BY <1>3, <1>4, <1>5, <2>2, SameLinks DEF Feed!Subscribe
  <1>7. CASE feed # "mock"
    <2>1. waiting' = w /\ served' = served /\ quiet' = quiet
      BY <1>5, <1>7 DEF SendQuoteUpdate
    <2>2. Holds' = h
      BY <2>1 DEF Holds, Records
    <2> HIDE DEF h
    <2>3. QED
      BY <1>3, <1>4, <1>5, <2>1, <2>2, SameLinks DEF Feed!Subscribe
  <1>8. QED
    BY <1>6, <1>7

\* Of two records of one connection an unsubscribe takes one.
LEMMA UnsubscribeFeed ==
    ASSUME IInv, NEW c \in Conns, NEW s \in Symbols, UnsubscribeFromSymbol(c, s)
    PROVE  [Feed!Unsubscribe(c, s)]_Feed!feedVars
  <1>0. TypeOK
    BY DEF IInv
  <1>1. running' = running /\ quiet' = quiet /\ sock' = sock
    BY DEF UnsubscribeFromSymbol
  <1>2. CASE Records(s, c) > 0
    <2>1. \A t \in Symbols, d \in Conns :
             Records(t, d)' = IF t = s /\ d = c THEN Records(t, d) - 1 ELSE Records(t, d)
      BY <1>0, <1>2 DEF UnsubscribeFromSymbol, Records, TypeOK
    <2>2. Holds' = [Holds EXCEPT ![s][c] = @ - 1]
      BY <2>1 DEF Holds
    <2>3. LinkOf[c] \in {"up", "dying"} /\ Holds[s][c] > 0
      BY <1>0, <1>2, LinkIs, HoldsIs DEF UnsubscribeFromSymbol, Attached
    <2>4. QED
      BY <1>1, <2>2, <2>3, SameLinks DEF Feed!Unsubscribe
  <1>3. CASE ~(Records(s, c) > 0)
    <2>1. Holds' = Holds
      BY <1>3, SameHolds DEF UnsubscribeFromSymbol, Records
    <2>2. QED
      BY <1>1, <2>1, SameLinks DEF Feed!feedVars
  <1>4. QED
    BY <1>2, <1>3

\* A tick asks for a quote, or has one at once.
LEMMA TickFeed ==
    ASSUME TypeOK, NEW s \in Symbols, UpdateTick(s)
    PROVE  [Feed!Quote(s)]_Feed!feedVars
  <1>1. running' = running /\ sock' = sock /\ SendQuoteUpdate(s, waiting)
    BY DEF UpdateTick
  <1>2. CASE feed = "mock"
    <2>1. Deliver(s, waiting) /\ waiting \in [Symbols -> [Conns -> Nat]]
      BY <1>1, <1>2 DEF SendQuoteUpdate, TypeOK
    <2>2. Holds = [t \in Symbols |-> [c \in Conns |-> waiting[t][c] + served[t][c]]]
      BY DEF Holds, Records
    <2>3. Holds' = Feed!Sent(Holds, s) /\ quiet' = quiet \ {s}
      BY <2>1, <2>2, DeliverSends
    <2>4. QED
      BY <1>1, <2>3, SameLinks DEF Feed!Quote
  <1>3. CASE feed # "mock"
    <2>1. waiting' = waiting /\ served' = served /\ quiet' = quiet
      BY <1>1, <1>3 DEF SendQuoteUpdate
    <2>2. QED
      BY <1>1, <2>1, SameHolds, SameLinks DEF Records, Feed!feedVars
  <1>4. QED
    BY <1>2, <1>3

LEMMA ArrivalFeed ==
    ASSUME TypeOK, NEW s \in Symbols, QuoteArrives(s)
    PROVE  Feed!Quote(s)
  <1>1. running' = running /\ sock' = sock /\ Deliver(s, waiting)
    BY DEF QuoteArrives
  <1>2. Holds = [t \in Symbols |-> [c \in Conns |-> waiting[t][c] + served[t][c]]]
    BY DEF Holds, Records
  <1>3. Holds' = Feed!Sent(Holds, s) /\ quiet' = quiet \ {s}
    BY <1>1, <1>2, DeliverSends DEF TypeOK
  <1>4. QED
    BY <1>1, <1>3, SameLinks DEF Feed!Quote

\* The clean-up of c takes what c holds and nothing else.
LEMMA DisconnectFeed ==
    ASSUME IInv, NEW c \in Conns, HandleClientDisconnect(c)
    PROVE  Holds' = Feed!Without(Holds, {c})
  <1>1. \A s \in Symbols, d \in Conns :
           Records(s, d)' = IF d \in {c} THEN 0 ELSE Records(s, d)
    BY DisconnectLemma
  <1>2. QED
    BY <1>1 DEF Holds, Feed!Without

LEMMA ErrorFeed ==
    ASSUME IInv, NEW c \in Conns, ErrorEvent(c)
    PROVE  Feed!Fail({c})
  <1>0. TypeOK
    BY DEF IInv
  <1>1. LinkOf[c] \in {"up", "dying"}
    BY <1>0, LinkIs DEF ErrorEvent, Attached
  <1>2. LinkOf' = [d \in Conns |-> IF d \in {c} THEN "dying" ELSE LinkOf[d]]
    BY <1>0 DEF ErrorEvent, LinkOf, TypeOK
  <1>3. QED
    BY <1>1, <1>2, DisconnectFeed DEF ErrorEvent, Feed!Fail

\* The 'close' event of a refused connection is nothing to the feed.
LEMMA CloseEventFeed ==
    ASSUME IInv, NEW c \in Conns, CloseEvent(c)
    PROVE  [Feed!Leave(c)]_Feed!feedVars
  <1>0. TypeOK
    BY DEF IInv
  <1>1. running' = running /\ quiet' = quiet
    BY DEF CloseEvent
  <1>2. CASE sock[c] = "closing"
    <2>1. LinkOf[c] = "dying"
      BY <1>0, <1>2, LinkIs
    <2>2. LinkOf' = [LinkOf EXCEPT ![c] = "gone"]
      BY <1>0 DEF CloseEvent, LinkOf, TypeOK
    <2>3. QED
      BY <1>1, <1>2, <2>1, <2>2, DisconnectFeed DEF CloseEvent, Feed!Leave
  <1>3. CASE sock[c] = "refused"
    <2>1. LinkOf' = LinkOf
      BY <1>0, <1>3 DEF CloseEvent, LinkOf, TypeOK
    <2>2. Holds' = Holds
      BY <1>3, SameHolds DEF CloseEvent, Records
    <2>3. QED
      BY <1>1, <2>1, <2>2 DEF Feed!feedVars
  <1>4. QED
    BY <1>2, <1>3 DEF CloseEvent

LEMMA ConnectFeed ==
    ASSUME TypeOK, NEW c \in Conns, Connect(c)
    PROVE  Feed!Attach(c) \/ Feed!TurnAway(c)
  <1>1. Holds' = Holds /\ running' = running /\ quiet' = quiet
    BY SameHolds DEF Connect, Records
  <1>2. running /\ LinkOf[c] = "idle"
    BY LinkIs DEF Connect
  <1>3. CASE sock' = [sock EXCEPT ![c] = "refused"]
    <2>1. LinkOf' = [LinkOf EXCEPT ![c] = "gone"]
      BY <1>3 DEF LinkOf, TypeOK
    <2>2. QED
      BY <1>1, <1>2, <2>1 DEF Feed!TurnAway
  <1>4. CASE sock' = [sock EXCEPT ![c] = "open"]
    <2>1. LinkOf' = [LinkOf EXCEPT ![c] = "up"]
      BY <1>4 DEF LinkOf, TypeOK
    <2>2. QED
      BY <1>1, <1>2, <2>1 DEF Feed!Attach
  <1>5. QED
    BY <1>3, <1>4 DEF Connect

\* Some sockets leave OPEN, one by itself or some at a heartbeat.
LEMMA FailFeed ==
    ASSUME TypeOK, NEW D \in SUBSET Conns, \A c \in D : sock[c] = "open",
           sock' = [c \in Conns |-> IF c \in D THEN "closing" ELSE sock[c]],
           UNCHANGED <<running, waiting, served, quiet>>
    PROVE  Feed!Fail(D)
  <1>1. \A c \in D : LinkOf[c] \in {"up", "dying"}
    BY LinkIs
  <1>2. LinkOf' = [c \in Conns |-> IF c \in D THEN "dying" ELSE LinkOf[c]]
    BY DEF LinkOf
  <1>3. Holds' = Holds
    BY SameHolds DEF Records
  <1>4. QED
    BY <1>1, <1>2, <1>3 DEF Feed!Fail

\* The sweep takes records of sockets that are not OPEN and of silent symbols.
LEMMA SweepFeed ==
    ASSUME TypeOK, SweepStale
    PROVE  Feed!Evict
  <1>1. \A s \in Symbols, c \in Conns :
           /\ Holds'[s][c] = (IF sock[c] = "open" THEN waiting[s][c] ELSE 0)
                 + (IF sock[c] = "open" /\ s \notin quiet THEN served[s][c] ELSE 0)
           /\ Holds[s][c] = waiting[s][c] + served[s][c]
    BY HoldsIs DEF SweepStale, Records
  <1>2. /\ DOMAIN Holds' = Symbols
        /\ \A s \in Symbols : DOMAIN Holds'[s] = Conns
    BY DEF Holds
  <1>3. ASSUME NEW s \in Symbols, NEW c \in Conns
        PROVE  IF LinkOf[c] # "up" THEN Holds'[s][c] = 0
               ELSE IF s \in quiet THEN Holds'[s][c] <= Holds[s][c]
               ELSE Holds'[s][c] = Holds[s][c]
    <2>1. waiting[s][c] \in Nat /\ served[s][c] \in Nat
      BY DEF TypeOK
    <2>2. LinkOf[c] = "up" <=> sock[c] = "open"
      BY LinkIs
    <2>3. QED
      BY <1>1, <2>1, <2>2
  <1>4. running' = running /\ LinkOf' = LinkOf /\ quiet' = quiet
    BY SameLinks DEF SweepStale
  <1>5. QED
    BY <1>2, <1>3, <1>4 DEF Feed!Evict

LEMMA EndFeed ==
    ASSUME CloseHub
    PROVE  Feed!End
  <1>1. Holds' = Feed!None
    BY DEF CloseHub, Holds, Records, Feed!None
  <1>2. QED
    BY <1>1, SameLinks DEF CloseHub, Feed!End

-----------------------------------------------------------------------------
\* Every step of the hub is a step of the feed or changes nothing of it.
LEMMA StepFeed ==
    ASSUME IInv, HubAssumption, [Next]_vars
    PROVE  [Feed!Next]_Feed!feedVars
  <1>0. TypeOK
    BY DEF IInv
  <1>1. ASSUME NEW c \in Conns, Connect(c) PROVE Feed!Next
    BY <1>0, <1>1, ConnectFeed DEF Feed!Next
  <1>2. ASSUME NEW c \in Conns, NEW s \in Symbols, SubscribeToSymbol(c, s) PROVE Feed!Next
    BY <1>0, <1>2, SubscribeFeed DEF Feed!Next
  <1>3. ASSUME NEW c \in Conns, NEW s \in Symbols, UnsubscribeFromSymbol(c, s)
        PROVE  [Feed!Next]_Feed!feedVars
    BY <1>3, UnsubscribeFeed DEF Feed!Next
  <1>4. ASSUME NEW s \in Symbols, UpdateTick(s) PROVE [Feed!Next]_Feed!feedVars
    BY <1>0, <1>4, TickFeed DEF Feed!Next
  <1>5. ASSUME NEW s \in Symbols, QuoteArrives(s) PROVE Feed!Next
    BY <1>0, <1>5, ArrivalFeed DEF Feed!Next
  <1>6. ASSUME NEW s \in Symbols, QuoteFails(s) PROVE UNCHANGED Feed!feedVars
    BY <1>6, SameHolds, SameLinks DEF QuoteFails, Records, Feed!feedVars
  <1>7. ASSUME NEW s \in Symbols, MinuteOfSilence(s) PROVE Feed!Next
    <2>1. Holds' = Holds /\ LinkOf' = LinkOf
      BY <1>7, SameHolds, SameLinks DEF MinuteOfSilence, Records
    <2>2. Feed!Silence(s)
      BY <1>7, <2>1 DEF MinuteOfSilence, Feed!Silence
    <2>3. QED
      BY <2>2 DEF Feed!Next
  <1>8. ASSUME NEW c \in Conns, Break(c) PROVE Feed!Next
    <2>1. sock' = [d \in Conns |-> IF d \in {c} THEN "closing" ELSE sock[d]]
      BY <1>0, <1>8 DEF Break, TypeOK
    <2>2. Feed!Fail({c})
      BY <1>0, <1>8, <2>1, FailFeed DEF Break
    <2>3. QED
      BY <2>2 DEF Feed!Next
  <1>9. ASSUME Heartbeat PROVE Feed!Next
    <2> DEFINE D == {c \in Conns : sock[c] = "open" /\ ~isAlive[c]}
    <2>1. /\ D \in SUBSET Conns
          /\ \A c \in D : sock[c] = "open"
          /\ sock' = [c \in Conns |-> IF c \in D THEN "closing" ELSE sock[c]]
          /\ UNCHANGED <<running, waiting, served, quiet>>
      BY <1>9 DEF Heartbeat
    <2> HIDE DEF D
    <2>2. Feed!Fail(D)
      BY <1>0, <2>1, FailFeed
    <2>3. QED
      BY <2>1, <2>2 DEF Feed!Next
  <1>10. ASSUME NEW c \in Conns, ErrorEvent(c) PROVE Feed!Next
    BY <1>10, ErrorFeed DEF Feed!Next
  <1>11. ASSUME NEW c \in Conns, CloseEvent(c) PROVE [Feed!Next]_Feed!feedVars
    BY <1>11, CloseEventFeed DEF Feed!Next
  <1>12. ASSUME NEW c \in Conns, Pong(c) PROVE UNCHANGED Feed!feedVars
    BY <1>12, SameHolds, SameLinks DEF Pong, Records, Feed!feedVars
  <1>13. CASE SweepStale
    BY <1>0, <1>13, SweepFeed DEF Feed!Next
  <1>14. CASE CloseHub
    BY <1>14, EndFeed DEF Feed!Next
  <1>15. CASE UNCHANGED vars
    BY <1>15, SameHolds, SameLinks DEF vars, Records, Feed!feedVars
  <1>16. QED
    BY <1>1, <1>2, <1>3, <1>4, <1>5, <1>6, <1>7, <1>8, <1>9, <1>10, <1>11, <1>12,
       <1>13, <1>14, <1>15 DEF Next

\* The hub implements the abstract feed: a connection that is up gains and loses
\* subscriptions only by its own messages, by staleness, or with the whole feed.
THEOREM HubImplementsFeed == Spec => ImplementsFeed
  <1> USE HubAssumption
  <1>1. Init => Feed!Init
    BY InitFeed
  <1>2. IInv /\ [Next]_vars => [Feed!Next]_Feed!feedVars
    BY StepFeed
  <1>3. QED
    BY <1>1, <1>2, Invariance, PTL DEF Spec, ImplementsFeed, Feed!Spec
=============================================================================
