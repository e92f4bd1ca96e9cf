------------------------------ MODULE QuoteHub ------------------------------
(***************************************************************************)
(* The server's real-time quote hub: class WebSocketService of             *)
(* apps/server/src/application/services/websocketService.ts.               *)
(*                                                                         *)
(* Node runs one handler at a time, so each handler (a connection, a       *)
(* message, a timer, a socket event, the continuation of an await) is one  *)
(* action.  What interleaves is the order of the handlers: a quote is      *)
(* awaited while subscribers come and go, a socket is CLOSING long before  *)
(* its 'close' event, three timers (quote, heartbeat, sweep) run on their  *)
(* own, and close() may come at any time.                                  *)
(*                                                                         *)
(* Data that the properties do not tell apart is left out: prices, client  *)
(* ids, messages.  The records of one connection for one symbol are kept   *)
(* as two counts, because a quote refreshes all of them at once: `served`  *)
(* counts the records with a lastUpdate, `waiting` those without one; the  *)
(* served ones come first in the insertion order of the Set.               *)
(***************************************************************************)
EXTENDS Integers, FiniteSets

CONSTANTS
    Conns,       \* the connections (a ws object each) made in one behaviour
    Symbols,     \* the symbols clients subscribe to
    UserOf,      \* UserOf[c]: the userId of the token of connection c
    Anonymous,   \* the UserOf of a connection without a valid token
    Production,  \* NODE_ENV = 'production'
    MaxClients,  \* the connection limit (100 in the code)
    MAX_SUBSCRIPTIONS_PER_USER,  \* 50 in the code
    MaxFetches   \* BOUND: getQuote calls of one symbol awaited at a time

ASSUME HubAssumption ==
    /\ IsFiniteSet(Conns)
    /\ Production \in BOOLEAN
    /\ MaxClients \in Nat \ {0}
    /\ MAX_SUBSCRIPTIONS_PER_USER \in Nat \ {0}
    /\ MaxFetches \in Nat \ {0}

VARIABLES
    running,            \* close() has not been called
    feed,               \* the branch sendQuoteUpdate takes, from the environment
    sock,               \* what became of each connection
    isAlive,            \* ws.isAlive
    subscriptionCount,  \* ws.subscriptionCount
    clients,            \* the keys of the map `clients`
    topics,             \* the keys of the map `subscriptions`
    waiting,            \* records without a lastUpdate, per symbol and connection
    served,             \* records with a lastUpdate, per symbol and connection
    updateIntervals,    \* the keys of the map `updateIntervals`
    fetching,           \* getQuote calls being awaited, per symbol
    quiet               \* symbols whose last quote is over staleThreshold old

vars == <<running, feed, sock, isAlive, subscriptionCount, clients, topics,
          waiting, served, updateIntervals, fetching, quiet>>

(***************************************************************************)
(* Yahoo with the inner fallback to a mock quote, mock quotes (computed    *)
(* without an await), or Yahoo alone.                                      *)
(***************************************************************************)
Feeds == {"yahoo_or_mock", "mock", "yahoo"}

(***************************************************************************)
(* "refused": over the connection limit, closed with 1013 and never given  *)
(* a handler; "closing": readyState CLOSING, the 'close' event is to come. *)
(***************************************************************************)
SockStates == {"idle", "refused", "open", "closing", "closed"}

TypeOK ==
    /\ running \in BOOLEAN
    /\ feed \in Feeds
    /\ sock \in [Conns -> SockStates]
    /\ isAlive \in [Conns -> BOOLEAN]
    /\ subscriptionCount \in [Conns -> 0..MAX_SUBSCRIPTIONS_PER_USER]
    /\ clients \in SUBSET Conns
    /\ topics \in SUBSET Symbols
    /\ waiting \in [Symbols -> [Conns -> Nat]]
    /\ served \in [Symbols -> [Conns -> Nat]]
    /\ updateIntervals \in SUBSET Symbols
    /\ fetching \in [Symbols -> 0..MaxFetches]
    /\ quiet \in SUBSET Symbols

Init ==
    /\ running = TRUE
    /\ feed \in Feeds
    /\ sock = [c \in Conns |-> "idle"]
    /\ isAlive = [c \in Conns |-> FALSE]
    /\ subscriptionCount = [c \in Conns |-> 0]
    /\ clients = {}
    /\ topics = {}
    /\ waiting = [s \in Symbols |-> [c \in Conns |-> 0]]
    /\ served = [s \in Symbols |-> [c \in Conns |-> 0]]
    /\ updateIntervals = {}
    /\ fetching = [s \in Symbols |-> 0]
    /\ quiet = {}

-----------------------------------------------------------------------------
Records(s, c) == waiting[s][c] + served[s][c]

\* subscriptions.get(s).size > 0
HasRecords(s) == \E c \in Conns : Records(s, c) > 0

\* Handlers run for the messages of this connection until its 'close' event:
\* the ws library still hands over what it had buffered while CLOSING.
Attached(c) == sock[c] \in {"open", "closing"}

\* The sockets in wss.clients.
Tracked(c) == sock[c] \in {"refused", "open", "closing"}

\* Mutant: the key goes and the interval stays.
StopEmptyTopics_KeepTimer ==
    /\ topics' = {s \in topics : HasRecords(s)'}
    /\ UNCHANGED updateIntervals

\* Mutant: only a set that loses a record in this step is looked at.
StopEmptyTopics_OnlyTouched ==
    LET emptied == {s \in topics : HasRecords(s) /\ ~HasRecords(s)'}
    IN  /\ topics' = topics \ emptied
        /\ updateIntervals' = updateIntervals \ emptied

\* "if (subscriptions.size === 0)": forget the symbols just emptied and stop
\* their timers, among the keys of `subscriptions`.
StopEmptyTopics ==
    /\ topics' = {s \in topics : HasRecords(s)'}
    /\ updateIntervals' = updateIntervals \ {s \in topics : ~HasRecords(s)'}

(***************************************************************************)
(* A quote of s has arrived, with w the records that have no lastUpdate:   *)
(* the subscribers are looked up now.  Every OPEN one is sent the quote    *)
(* and gets a lastUpdate, the others are deleted; a set emptied that way   *)
(* stays in the map and its timer keeps running.                           *)
(***************************************************************************)
Deliver(s, w) ==
    /\ served' = [served EXCEPT ![s] =
                    [c \in Conns |-> IF sock[c] = "open"
                                     THEN served[s][c] + w[s][c] ELSE 0]]
    /\ waiting' = [w EXCEPT ![s] = [c \in Conns |-> 0]]
    /\ quiet' = quiet \ {s}

\* sendQuoteUpdate up to its first await; without one, all of it.
SendQuoteUpdate(s, w) ==
    \/ /\ feed = "mock"
       /\ Deliver(s, w)
       /\ UNCHANGED fetching
    \/ /\ feed # "mock"
       /\ fetching[s] < MaxFetches
       /\ fetching' = [fetching EXCEPT ![s] = @ + 1]
       /\ waiting' = w
       /\ UNCHANGED <<served, quiet>>

\* Mutant: nothing is done for a connection no longer in `clients`.
HandleClientDisconnect_Once(c) ==
    IF c \in clients
    THEN /\ clients' = clients \ {c}
         /\ waiting' = [s \in Symbols |-> [waiting[s] EXCEPT ![c] = 0]]
         /\ served' = [s \in Symbols |-> [served[s] EXCEPT ![c] = 0]]
         /\ StopEmptyTopics
    ELSE UNCHANGED <<clients, waiting, served, topics, updateIntervals>>

HandleClientDisconnect(c) ==
    /\ clients' = clients \ {c}
    /\ waiting' = [s \in Symbols |-> [waiting[s] EXCEPT ![c] = 0]]
    /\ served' = [s \in Symbols |-> [served[s] EXCEPT ![c] = 0]]
    /\ StopEmptyTopics

-----------------------------------------------------------------------------
\* Mutant: > for >= in the connection limit.
Connect_OffByOne(c) ==
    /\ running
    /\ sock[c] = "idle"
    /\ Cardinality(clients) <= MaxClients
    /\ sock' = [sock EXCEPT ![c] = "open"]
    /\ isAlive' = [isAlive EXCEPT ![c] = TRUE]
    /\ clients' = clients \cup {c}
    /\ UNCHANGED <<running, feed, subscriptionCount, topics, waiting, served,
                   updateIntervals, fetching, quiet>>

\* A handshake: over the limit the socket is closed at once, and it is not
\* registered, has no handlers and no isAlive.
Connect(c) ==
    /\ running
    /\ sock[c] = "idle"
    /\ IF Cardinality(clients) >= MaxClients
       THEN /\ sock' = [sock EXCEPT ![c] = "refused"]
            /\ UNCHANGED <<isAlive, clients>>
       ELSE /\ sock' = [sock EXCEPT ![c] = "open"]
            /\ isAlive' = [isAlive EXCEPT ![c] = TRUE]
            /\ clients' = clients \cup {c}
    /\ UNCHANGED <<running, feed, subscriptionCount, topics, waiting, served,
                   updateIntervals, fetching, quiet>>

\* Mutant: no check of the subscription limit.
SubscribeToSymbol_NoLimit(c, s) ==
    /\ Attached(c)
    /\ Production => UserOf[c] # Anonymous
    /\ topics' = topics \cup {s}
    /\ updateIntervals' = updateIntervals \cup {s}
    /\ subscriptionCount' = [subscriptionCount EXCEPT ![c] = @ + 1]
    /\ SendQuoteUpdate(s, [waiting EXCEPT ![s][c] = @ + 1])
    /\ UNCHANGED <<running, feed, sock, isAlive, clients>>

\* A 'subscribe' message that passes the checks of authentication and limits.
SubscribeToSymbol(c, s) ==
    /\ Attached(c)
    /\ Production => UserOf[c] # Anonymous
    /\ subscriptionCount[c] < MAX_SUBSCRIPTIONS_PER_USER
    /\ topics' = topics \cup {s}
    /\ updateIntervals' = IF HasRecords(s) THEN updateIntervals
                                           ELSE updateIntervals \cup {s}
    /\ subscriptionCount' = [subscriptionCount EXCEPT ![c] = @ + 1]
    /\ SendQuoteUpdate(s, [waiting EXCEPT ![s][c] = @ + 1])
    /\ UNCHANGED <<running, feed, sock, isAlive, clients>>

\* Mutant: the timer stops when this connection, not everybody, has left.
UnsubscribeFromSymbol_StopsForAll(c, s) ==
    /\ Attached(c)
    /\ Records(s, c) > 0
    /\ IF served[s][c] > 0
       THEN /\ served' = [served EXCEPT ![s][c] = @ - 1]
            /\ UNCHANGED waiting
       ELSE /\ waiting' = [waiting EXCEPT ![s][c] = @ - 1]
            /\ UNCHANGED served
    /\ subscriptionCount' = [subscriptionCount EXCEPT ![c] = @ - 1]
    /\ topics' = topics \ (IF HasRecords(s)' THEN {} ELSE {s})
    /\ updateIntervals' = updateIntervals \ (IF Records(s, c)' = 0 THEN {s} ELSE {})
    /\ UNCHANGED <<running, feed, sock, isAlive, clients, fetching, quiet>>

\* Mutant: the count goes down even when there was no record to remove.
UnsubscribeFromSymbol_AlwaysCounts(c, s) ==
    /\ Attached(c)
    /\ s \in topics
    /\ subscriptionCount[c] > 0
    /\ subscriptionCount' = [subscriptionCount EXCEPT ![c] = @ - 1]
    /\ served' = [served EXCEPT ![s][c] = IF @ > 0 THEN @ - 1 ELSE @]
    /\ waiting' = [waiting EXCEPT ![s][c] = IF served[s][c] = 0 /\ @ > 0
                                             THEN @ - 1 ELSE @]
    /\ UNCHANGED <<running, feed, sock, isAlive, clients, topics,
                   updateIntervals, fetching, quiet>>

\* Mutant: every record of the connection for the symbol goes.
UnsubscribeFromSymbol_All(c, s) ==
    /\ Attached(c)
    /\ Records(s, c) > 0
    /\ served' = [served EXCEPT ![s][c] = 0]
    /\ waiting' = [waiting EXCEPT ![s][c] = 0]
    /\ subscriptionCount' = [subscriptionCount EXCEPT ![c] = 0]
    /\ StopEmptyTopics
    /\ UNCHANGED <<running, feed, sock, isAlive, clients, fetching, quiet>>

\* An 'unsubscribe' message for a symbol in the map: the first record of the
\* connection goes, if it has one, and the count with it.
UnsubscribeFromSymbol(c, s) ==
    /\ Attached(c)
    /\ s \in topics
    /\ IF Records(s, c) > 0
       THEN /\ IF served[s][c] > 0
               THEN /\ served' = [served EXCEPT ![s][c] = @ - 1]
                    /\ UNCHANGED waiting
               ELSE /\ waiting' = [waiting EXCEPT ![s][c] = @ - 1]
                    /\ UNCHANGED served
            /\ subscriptionCount' = [subscriptionCount EXCEPT ![c] =
                                       IF @ > 0 THEN @ - 1 ELSE @]
       ELSE UNCHANGED <<served, waiting, subscriptionCount>>
    /\ LET left == {t \in topics : t # s \/ HasRecords(s)'}
       IN  /\ topics' = left
           /\ updateIntervals' = updateIntervals \ (topics \ left)
    /\ UNCHANGED <<running, feed, sock, isAlive, clients, fetching, quiet>>

\* The interval of s fires (every 5 seconds).
UpdateTick(s) ==
    /\ s \in updateIntervals
    /\ SendQuoteUpdate(s, waiting)
    /\ UNCHANGED <<running, feed, sock, isAlive, subscriptionCount, clients,
                   topics, updateIntervals>>

\* getQuote resolves, or rejects where the mock quote stands in for it.
QuoteArrives(s) ==
    /\ fetching[s] > 0
    /\ fetching' = [fetching EXCEPT ![s] = @ - 1]
    /\ Deliver(s, waiting)
    /\ UNCHANGED <<running, feed, sock, isAlive, subscriptionCount, clients,
                   topics, updateIntervals>>

\* getQuote rejects and nothing stands in: the subscribers are sent an error.
QuoteFails(s) ==
    /\ feed = "yahoo"
    /\ fetching[s] > 0
    /\ fetching' = [fetching EXCEPT ![s] = @ - 1]
    /\ UNCHANGED <<running, feed, sock, isAlive, subscriptionCount, clients,
                   topics, waiting, served, updateIntervals, quiet>>

\* A minute (staleThreshold) passes without a quote of s: its awaits hang or fail.
MinuteOfSilence(s) ==
    /\ feed # "mock"
    /\ s \notin quiet
    /\ \E c \in Conns : served[s][c] > 0
    /\ quiet' = quiet \cup {s}
    /\ UNCHANGED <<running, feed, sock, isAlive, subscriptionCount, clients,
                   topics, waiting, served, updateIntervals, fetching>>

-----------------------------------------------------------------------------
\* The peer starts the closing handshake, or the transport breaks.
Break(c) ==
    /\ sock[c] = "open"
    /\ sock' = [sock EXCEPT ![c] = "closing"]
    /\ UNCHANGED <<running, feed, isAlive, subscriptionCount, clients, topics,
                   waiting, served, updateIntervals, fetching, quiet>>

\* An 'error' event: the library leaves OPEN, and the handler cleans up now;
\* the 'close' event still follows.
ErrorEvent(c) ==
    /\ Attached(c)
    /\ sock' = [sock EXCEPT ![c] = "closing"]
    /\ HandleClientDisconnect(c)
    /\ UNCHANGED <<running, feed, isAlive, subscriptionCount, fetching, quiet>>

\* The 'close' event, which a refused connection has no handler for.
CloseEvent(c) ==
    /\ sock[c] \in {"closing", "refused"}
    /\ sock' = [sock EXCEPT ![c] = "closed"]
    /\ IF sock[c] = "closing"
       THEN HandleClientDisconnect(c)
       ELSE UNCHANGED <<clients, topics, waiting, served, updateIntervals>>
    /\ UNCHANGED <<running, feed, isAlive, subscriptionCount, fetching, quiet>>

Pong(c) ==
    /\ sock[c] = "open"
    /\ isAlive' = [isAlive EXCEPT ![c] = TRUE]
    /\ UNCHANGED <<running, feed, sock, subscriptionCount, clients, topics,
                   waiting, served, updateIntervals, fetching, quiet>>

\* Mutant: the heartbeat walks `clients` instead of wss.clients.
Heartbeat_Registered ==
    /\ clients # {}
    /\ sock' = [c \in Conns |-> IF c \in clients /\ sock[c] = "open" /\ ~isAlive[c]
                                THEN "closing" ELSE sock[c]]
    /\ isAlive' = [c \in Conns |-> isAlive[c] /\ c \notin clients]
    /\ UNCHANGED <<running, feed, subscriptionCount, clients, topics, waiting,
                   served, updateIntervals, fetching, quiet>>

\* Every 30 seconds: terminate those that did not answer, ping the others.
\* It runs until the last socket is gone after close().
Heartbeat ==
    /\ running \/ \E c \in Conns : Tracked(c)
    /\ sock' = [c \in Conns |-> IF sock[c] = "open" /\ ~isAlive[c]
                                THEN "closing" ELSE sock[c]]
    /\ isAlive' = [c \in Conns |-> isAlive[c] /\ ~Tracked(c)]
    /\ UNCHANGED <<running, feed, subscriptionCount, clients, topics, waiting,
                   served, updateIntervals, fetching, quiet>>

\* Mutant: a record without a lastUpdate counts as stale.
SweepStale_Never ==
    /\ waiting' = [s \in Symbols |-> [c \in Conns |-> 0]]
    /\ served' = [s \in Symbols |-> [c \in Conns |->
                    IF sock[c] = "open" /\ s \notin quiet THEN served[s][c] ELSE 0]]
    /\ StopEmptyTopics
    /\ UNCHANGED <<running, feed, sock, isAlive, subscriptionCount, clients,
                   fetching, quiet>>

\* Every 5 minutes: drop the records of sockets that are not OPEN and those
\* whose lastUpdate is stale.  subscriptionCount is left alone.
SweepStale ==
    /\ waiting' = [s \in Symbols |-> [c \in Conns |->
                     IF sock[c] = "open" THEN waiting[s][c] ELSE 0]]
    /\ served' = [s \in Symbols |-> [c \in Conns |->
                    IF sock[c] = "open" /\ s \notin quiet THEN served[s][c] ELSE 0]]
    /\ StopEmptyTopics
    /\ UNCHANGED <<running, feed, sock, isAlive, subscriptionCount, clients,
                   fetching, quiet>>

\* close(): the maps are emptied and the server takes no new connection, but
\* wss.close() leaves the connections it has open, their handlers attached.
CloseHub ==
    /\ running
    /\ running' = FALSE
    /\ clients' = {}
    /\ topics' = {}
    /\ waiting' = [s \in Symbols |-> [c \in Conns |-> 0]]
    /\ served' = [s \in Symbols |-> [c \in Conns |-> 0]]
    /\ updateIntervals' = {}
    /\ UNCHANGED <<feed, sock, isAlive, subscriptionCount, fetching, quiet>>

-----------------------------------------------------------------------------
Next ==
    \/ \E c \in Conns :
          \/ Connect(c)
          \/ Break(c)
          \/ ErrorEvent(c)
          \/ CloseEvent(c)
          \/ Pong(c)
          \/ \E s \in Symbols : SubscribeToSymbol(c, s) \/ UnsubscribeFromSymbol(c, s)
    \/ \E s \in Symbols :
          UpdateTick(s) \/ QuoteArrives(s) \/ QuoteFails(s) \/ MinuteOfSilence(s)
    \/ Heartbeat
    \/ SweepStale
    \/ CloseHub

Spec == Init /\ [][Next]_vars

(***************************************************************************)
(* Timers fire again and again, an awaited getQuote settles, and a socket  *)
(* that is CLOSING is closed (the library destroys it after 30 seconds).   *)
(* Nothing is assumed of the clients, nor of the success of getQuote.      *)
(***************************************************************************)
Fairness ==
    /\ WF_vars(Heartbeat)
    /\ WF_vars(SweepStale)
    /\ \A c \in Conns : WF_vars(CloseEvent(c))
    /\ \A s \in Symbols :
          /\ WF_vars(UpdateTick(s))
          /\ WF_vars(QuoteArrives(s) \/ QuoteFails(s))

FairSpec == Spec /\ Fairness

-----------------------------------------------------------------------------
(***************************************************************************)
(* Properties.                                                             *)
(***************************************************************************)

\* Whoever holds a subscription of s has a running interval for s, whatever
\* subscribes, disconnects, sweeps and closes came before (startSymbolUpdates
\* is only called for the first record of a set).
EverySubscriberHasTimer ==
    \A s \in Symbols : HasRecords(s) => s \in updateIntervals

\* No interval outlives the key of its symbol: stopSymbolUpdates is only
\* reached through the keys of `subscriptions`, so such a timer would poll
\* the provider for ever.
NoTimerWithoutTopic == updateIntervals \subseteq topics

\* Once its 'close' event has run (or if it was refused), a connection has no
\* record under any symbol and is not counted in `clients`, even if it
\* subscribed between an 'error' event and the 'close' event.
ClosedHoldNothing ==
    \A c \in Conns : ~Attached(c) =>
        c \notin clients /\ \A s \in Symbols : Records(s, c) = 0

\* The records of connection c under all the symbols, numbered per symbol.
RecordsOf(c) == UNION {{s} \X (1..Records(s, c)) : s \in Symbols}

Held(c) == Cardinality(RecordsOf(c))

\* A connection never holds more records than subscriptionCount says, so the
\* limit checked on that count does bound the records; the count itself may
\* run ahead (the sweep, a quote to a dead socket and close() drop records
\* without decrementing it).
RecordsWithinCount == \A c \in Conns : Held(c) <= subscriptionCount[c]

\* There are never more than MaxClients OPEN connections, although the limit
\* is checked on `clients`, which 'error' events and close() shrink.
OpenWithinLimit == Cardinality({c \in Conns : sock[c] = "open"}) <= MaxClients

\* A connection that stays OPEN loses a record of s only by its own
\* unsubscribe, which gives the count back, by close(), or to a sweep after a
\* minute without a quote of s; never through what other clients do.
EvictionAccounted ==
    [][\A c \in Conns, s \in Symbols :
          /\ sock[c] = "open" /\ sock'[c] = "open"
          /\ Records(s, c)' < Records(s, c)
          => \/ subscriptionCount'[c] = subscriptionCount[c] - 1
             \/ running /\ ~running'
             \/ s \in quiet]_vars

LiveSubscriber(s) == \E c \in Conns : sock[c] = "open" /\ Records(s, c) > 0

\* A timer left behind without an OPEN subscriber (a quote emptied the set, or
\* all its sockets died) is stopped, unless somebody subscribes again.
OrphanTimerStops ==
    \A s \in Symbols :
        (s \in updateIntervals /\ ~LiveSubscriber(s))
            ~> (s \notin updateIntervals \/ LiveSubscriber(s))

\* A connection whose peer stops answering pings is closed and leaves nothing
\* behind, before and after close().
DeadPeerDropped ==
    \A c \in Conns :
        (sock[c] = "open" /\ ~isAlive[c])
            ~> (isAlive[c] \/ (sock[c] = "closed" /\ Held(c) = 0))

\* What became of a connection, seen from its end.
LinkOf == [c \in Conns |-> CASE sock[c] = "idle" -> "idle"
                              [] sock[c] = "open" -> "up"
                              [] sock[c] = "closing" -> "dying"
                              [] OTHER -> "gone"]

Holds == [s \in Symbols |-> [c \in Conns |-> Records(s, c)]]

Feed == INSTANCE QuoteFeed WITH link <- LinkOf, holds <- Holds, silent <- quiet

\* The hub implements the abstract feed: whatever its timers, awaited quotes,
\* maps and sweeps do, a connection that is up gains and loses a subscription
\* only by its own messages, by staleness, or with the whole feed.
ImplementsFeed == Feed!Spec

\* "Maximum subscriptions limit reached": the message is sent only to a
\* connection that does hold that many subscriptions.
LimitMeansFull ==
    \A c \in Conns :
        (running /\ sock[c] = "open"
             /\ subscriptionCount[c] = MAX_SUBSCRIPTIONS_PER_USER)
        => Held(c) = MAX_SUBSCRIPTIONS_PER_USER
=============================================================================
