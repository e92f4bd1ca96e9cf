----------------------------- MODULE LiveQuotes -----------------------------
(***************************************************************************)
(* A chart page and the quote feed: the hooks useWebSocket and             *)
(* useSymbolManagement with ChartSymbolContext (apps/client/src), joined   *)
(* by messages to the abstract hub of QuoteFeed.                           *)
(*                                                                         *)
(* The page keeps three views of its subscription that must agree: the ref *)
(* subscriptionsRef, which onopen sends again; the effect on               *)
(* [currentSymbol, isConnected], which runs when a render commits and      *)
(* undoes itself with the values of the render before; and the click       *)
(* handler, which subscribes on its own.  The hub counts every message.    *)
(*                                                                         *)
(* isConnected is set by socket events and reaches the effect at a later   *)
(* render; a click or a navigation renders at once.  A quote carries no    *)
(* symbol: the model keeps the one it is of to say what the chart shows.   *)
(* disconnect() and connect() have no caller outside the hook.             *)
(***************************************************************************)
EXTENDS Integers, SequencesExt

CONSTANTS
    Conns,        \* the WebSocket objects made in one behaviour, by number
    Symbols,      \* the symbols the user looks at
    FirstSymbol,  \* the symbol of the URL the page is opened with
    Nothing,      \* no socket; no data
    MaxReconnectAttempts,  \* maxReconnectAttempts (5 in the code)
    Builds,       \* subset of {"production", "development"}
    Worlds,       \* the worlds one behaviour may happen in
    MaxLoads,     \* BOUND: fetchData calls in flight
    MaxMessages,  \* BOUND: messages on their way to the hub on a connection
    MaxStray      \* BOUND: subscriptions of one symbol left behind by links

(***************************************************************************)
(* What a world may contain: links to the page with another symbol; minutes *)
(* without a quote; fetches that take time, that are answered out of order, *)
(* that fail; a hub that cannot be reached.                                *)
(***************************************************************************)
Happenings == {"links", "silence", "slow_market", "disorder", "load_fails", "no_hub"}

ASSUME PageAssumption ==
    /\ Conns \subseteq Nat
    /\ IsFiniteSet(Symbols)
    /\ FirstSymbol \in Symbols
    /\ Nothing \notin Conns \cup Symbols
    /\ MaxReconnectAttempts \in Nat
    /\ Builds \subseteq {"production", "development"}
    /\ Worlds \subseteq SUBSET Happenings
    /\ MaxLoads \in Nat \ {0}
    /\ MaxMessages \in Nat \ {0}
    /\ MaxStray \in Nat

VARIABLES
    world,          \* what may happen in this behaviour
    running, link, holds, silent,   \* the feed
    mounted,        \* whether the page is mounted; "new" before that
    ws,             \* wsRef
    readyState,     \* of each socket
    isConnected,    \* the state isConnected
    rendered,       \* isConnected in the last committed render
    subscriptions,  \* subscriptionsRef
    attempts,       \* reconnectAttemptsRef
    timers,         \* reconnect timers that have not fired
    currentSymbol,  \* the symbol of the URL
    loads,          \* the symbols of the fetchData calls in flight, oldest first
    candles,        \* the symbol of candleData
    toServer,       \* messages on their way to the hub, per connection
    hitches         \* what has happened that the hooks do not provide for

feedVars == <<running, link, holds, silent>>
vars == <<world, running, link, holds, silent, mounted, ws, readyState, isConnected,
          rendered, subscriptions, attempts, timers, currentSymbol, loads,
          candles, toServer, hitches>>

Feed == INSTANCE QuoteFeed

(***************************************************************************)
(* "closing": close(1000) was called on an open socket; "failing": it will *)
(* be closed with another code; both have their 'close' event to come.     *)
(***************************************************************************)
ReadyStates == {"new", "connecting", "open", "closing", "failing", "closed"}

(***************************************************************************)
(* A 'close' event of an old socket while the new one is open, or of any   *)
(* code but 1000 after the page has gone; a timer armed while another was, *)
(* which cleanup() can no longer clear.                                    *)
(***************************************************************************)
Hitches == {"late_close", "unclean_exit", "timer_lost"}

Messages == [type : {"subscribe", "unsubscribe"}, symbol : Symbols]

TypeOK ==
    /\ world \in Worlds
    /\ running \in BOOLEAN
    /\ link \in [Conns -> Feed!LinkStates]
    /\ holds \in [Symbols -> [Conns -> Nat]]
    /\ silent \in SUBSET Symbols
    /\ mounted \in {"new", "mounted", "gone"}
    /\ ws \in Conns \cup {Nothing}
    /\ readyState \in [Conns -> ReadyStates]
    /\ isConnected \in BOOLEAN
    /\ rendered \in BOOLEAN
    /\ subscriptions \in SUBSET Symbols
    /\ attempts \in 0..MaxReconnectAttempts
    /\ timers \in Nat
    /\ currentSymbol \in Symbols
    /\ loads \in Seq(Symbols)
    /\ candles \in Symbols \cup {Nothing}
    /\ toServer \in [Conns -> Seq(Messages)]
    /\ hitches \in SUBSET Hitches

Init ==
    /\ world \in Worlds
    /\ Feed!Init
    /\ mounted = "new"
    /\ ws = Nothing
    /\ readyState = [c \in Conns |-> "new"]
    /\ isConnected = FALSE
    /\ rendered = FALSE
    /\ subscriptions = {}
    /\ attempts = 0
    /\ timers = 0
    /\ currentSymbol = FirstSymbol
    /\ loads = <<>>
    /\ candles = Nothing
    /\ toServer = [c \in Conns |-> <<>>]
    /\ hitches = {}

-----------------------------------------------------------------------------
Subscribe(s) == [type |-> "subscribe", symbol |-> s]
Unsubscribe(s) == [type |-> "unsubscribe", symbol |-> s]

\* ws.send of each of ms, for the socket of wsRef if it is OPEN.
Send(ms) ==
    toServer' = IF ws # Nothing /\ readyState[ws] = "open"
                THEN [toServer EXCEPT ![ws] = @ \o ms] ELSE toServer

\* The readyState of each socket after wsRef.current.close(1000).
Shut == [c \in Conns |->
            IF c # ws THEN readyState[c]
            ELSE CASE readyState[c] = "open" -> "closing"
                   [] readyState[c] = "connecting" -> "failing"
                   [] OTHER -> readyState[c]]

\* cleanup() clears the last timer armed.
ClearTimer(n) == IF n > 0 THEN n - 1 ELSE 0

\* fetchData of each of ss.
Fetch(ss) ==
    IF "slow_market" \in world
    THEN /\ loads' = loads \o ss
         /\ UNCHANGED candles
    ELSE /\ candles' = Last(ss)
         /\ UNCHANGED loads

\* The next socket to be made.
IsNew(c) == readyState[c] = "new" /\ \A d \in Conns : d < c => readyState[d] # "new"

\* connect(), with n reconnect timers armed: nothing if the socket of wsRef is
\* OPEN or CONNECTING, else cleanup() and a new socket.
Connect(n) ==
    IF ws # Nothing /\ readyState[ws] \in {"open", "connecting"}
    THEN /\ timers' = n
         /\ UNCHANGED <<ws, readyState, isConnected>>
    ELSE \E c \in Conns :
            /\ IsNew(c)
            /\ readyState' = [Shut EXCEPT ![c] = "connecting"]
            /\ ws' = c
            /\ isConnected' = FALSE
            /\ timers' = ClearTimer(n)

\* The page mounts: it connects and fetches.  StrictMode (development) unmounts
\* and mounts it again in the same turn, keeping the refs.
Mount(build) ==
    /\ mounted = "new"
    /\ mounted' = "mounted"
    /\ \E c \in Conns :
          /\ ws' = c
          /\ IF build = "production"
             THEN /\ IsNew(c)
                  /\ readyState' = [readyState EXCEPT ![c] = "connecting"]
                  /\ Fetch(<<currentSymbol>>)
             ELSE \E d \in Conns :
                     /\ IsNew(d)
                     /\ c = d + 1
                     /\ readyState' = [readyState EXCEPT ![d] = "failing",
                                                         ![c] = "connecting"]
                     /\ Fetch(<<currentSymbol, currentSymbol>>)
    /\ UNCHANGED <<world, running, link, holds, silent, isConnected, rendered,
                   subscriptions, attempts, timers, currentSymbol, toServer, hitches>>

\* Mutant: the reconnect timer is left running.
Unmount_KeepTimer ==
    /\ mounted = "mounted"
    /\ mounted' = "gone"
    /\ readyState' = Shut
    /\ ws' = Nothing
    /\ isConnected' = FALSE
    /\ rendered' = FALSE
    /\ subscriptions' = IF rendered THEN subscriptions \ {currentSymbol}
                                    ELSE subscriptions
    /\ loads' = <<>>
    /\ UNCHANGED <<world, running, link, holds, silent, attempts, timers,
                   currentSymbol, candles, toServer, hitches>>

\* The page goes: cleanup() first, then the effect's own clean-up, whose
\* unsubscribe finds no socket.
Unmount ==
    /\ mounted = "mounted"
    /\ mounted' = "gone"
    /\ readyState' = Shut
    /\ ws' = Nothing
    /\ isConnected' = FALSE
    /\ rendered' = FALSE
    /\ timers' = ClearTimer(timers)
    /\ subscriptions' = IF rendered THEN subscriptions \ {currentSymbol}
                                    ELSE subscriptions
    /\ loads' = <<>>
    /\ UNCHANGED <<world, running, link, holds, silent, attempts, currentSymbol,
                   candles, toServer, hitches>>

\* Mutant: the symbols of subscriptionsRef are not sent again.
Opened_NoResubscribe(c) ==
    /\ readyState[c] = "connecting"
    /\ link[c] # "idle"
    /\ readyState' = [readyState EXCEPT ![c] = "open"]
    /\ isConnected' = (mounted = "mounted")
    /\ attempts' = 0
    /\ UNCHANGED <<world, running, link, holds, silent, mounted, ws, rendered,
                   subscriptions, timers, currentSymbol, loads, candles, toServer, hitches>>

\* onopen: every symbol of subscriptionsRef is subscribed again.
Opened(c) ==
    /\ readyState[c] = "connecting"
    /\ link[c] # "idle"
    /\ readyState' = [readyState EXCEPT ![c] = "open"]
    /\ isConnected' = (mounted = "mounted")
    /\ attempts' = 0
    /\ \E q \in SetToSeqs(subscriptions) :
          toServer' = [toServer EXCEPT ![c] = [i \in DOMAIN q |-> Subscribe(q[i])]]
    /\ UNCHANGED <<world, running, link, holds, silent, mounted, ws, rendered,
                   subscriptions, timers, currentSymbol, loads, candles, hitches>>

\* The handshake fails, or the 10 second timeout closes the socket.
ConnectFails(c) ==
    /\ readyState[c] = "connecting"
    /\ readyState' = [readyState EXCEPT ![c] = "failing"]
    /\ UNCHANGED <<world, running, link, holds, silent, mounted, ws, isConnected,
                   rendered, subscriptions, attempts, timers, currentSymbol,
                   loads, candles, toServer, hitches>>

\* An open socket leaves OPEN: the transport breaks or the server closes it.
Lost(c) ==
    /\ readyState[c] = "open"
    /\ readyState' = [readyState EXCEPT ![c] = "failing"]
    /\ UNCHANGED <<world, running, link, holds, silent, mounted, ws, isConnected,
                   rendered, subscriptions, attempts, timers, currentSymbol,
                   loads, candles, toServer, hitches>>

\* Mutant: no limit on the attempts.
CloseEvent_NoLimit(c) ==
    /\ readyState[c] \in {"closing", "failing"}
    /\ readyState' = [readyState EXCEPT ![c] = "closed"]
    /\ isConnected' = FALSE
    /\ toServer' = [toServer EXCEPT ![c] = <<>>]
    /\ \E clean \in {FALSE, readyState[c] = "closing"} :
          /\ IF ~clean
             THEN /\ attempts' = attempts + 1
                  /\ timers' = timers + 1
             ELSE UNCHANGED <<attempts, timers>>
          /\ hitches' = hitches
                \cup (IF mounted = "gone" /\ ~clean THEN {"unclean_exit"} ELSE {})
                \cup (IF ws \notin {c, Nothing} /\ readyState[ws] = "open"
                      THEN {"late_close"} ELSE {})
                \cup (IF timers > 0 /\ timers' > timers THEN {"timer_lost"} ELSE {})
    /\ UNCHANGED <<world, running, link, holds, silent, mounted, ws, rendered,
                   subscriptions, currentSymbol, loads, candles>>

\* Mutant: the attempt is counted and its timer forgotten.
CloseEvent_NoTimer(c) ==
    /\ readyState[c] \in {"closing", "failing"}
    /\ readyState' = [readyState EXCEPT ![c] = "closed"]
    /\ isConnected' = FALSE
    /\ toServer' = [toServer EXCEPT ![c] = <<>>]
    /\ \E clean \in {FALSE, readyState[c] = "closing"} :
          /\ IF ~clean /\ attempts < MaxReconnectAttempts
             THEN attempts' = attempts + 1 /\ UNCHANGED timers
             ELSE UNCHANGED <<attempts, timers>>
          /\ hitches' = hitches
                \cup (IF mounted = "gone" /\ ~clean THEN {"unclean_exit"} ELSE {})
                \cup (IF ws \notin {c, Nothing} /\ readyState[ws] = "open"
                      THEN {"late_close"} ELSE {})
                \cup (IF timers > 0 /\ timers' > timers THEN {"timer_lost"} ELSE {})
    /\ UNCHANGED <<world, running, link, holds, silent, mounted, ws, rendered,
                   subscriptions, currentSymbol, loads, candles>>

\* onclose: not connected, and a reconnect timer unless the close was clean or
\* the attempts are used up.  The handler does not ask whose socket closed,
\* nor whether the page is still there.
CloseEvent(c) ==
    /\ readyState[c] \in {"closing", "failing"}
    /\ readyState' = [readyState EXCEPT ![c] = "closed"]
    /\ isConnected' = FALSE
    /\ toServer' = [toServer EXCEPT ![c] = <<>>]
    /\ \E clean \in {FALSE, readyState[c] = "closing"} :
          /\ IF ~clean /\ attempts < MaxReconnectAttempts
             THEN /\ attempts' = attempts + 1
                  /\ timers' = timers + 1
             ELSE UNCHANGED <<attempts, timers>>
          /\ hitches' = hitches
                \cup (IF mounted = "gone" /\ ~clean THEN {"unclean_exit"} ELSE {})
                \cup (IF ws \notin {c, Nothing} /\ readyState[ws] = "open"
                      THEN {"late_close"} ELSE {})
                \cup (IF timers > 0 /\ timers' > timers THEN {"timer_lost"} ELSE {})
    /\ UNCHANGED <<world, running, link, holds, silent, mounted, ws, rendered,
                   subscriptions, currentSymbol, loads, candles>>

\* Mutant: the timer opens a socket without connect()'s checks.
RetryTimer_NoCheck ==
    /\ timers > 0
    /\ timers' = timers - 1
    /\ \E c \in Conns :
          /\ IsNew(c)
          /\ readyState' = [readyState EXCEPT ![c] = "connecting"]
          /\ ws' = c
    /\ UNCHANGED <<world, running, link, holds, silent, mounted, isConnected, rendered,
                   subscriptions, attempts, currentSymbol, loads, candles, toServer, hitches>>

RetryTimer ==
    /\ timers > 0
    /\ Connect(timers - 1)
    /\ UNCHANGED <<world, running, link, holds, silent, mounted, rendered,
                   subscriptions, attempts, currentSymbol, loads, candles, toServer, hitches>>

-----------------------------------------------------------------------------
\* A render commits a changed isConnected: the effect unsubscribes if the render
\* before was connected, and subscribes if this one is.
Render ==
    /\ mounted = "mounted"
    /\ rendered # isConnected
    /\ rendered' = isConnected
    /\ IF rendered
       THEN /\ subscriptions' = subscriptions \ {currentSymbol}
            /\ Send(<<Unsubscribe(currentSymbol)>>)
       ELSE /\ subscriptions' = subscriptions \cup {currentSymbol}
            /\ Send(<<Subscribe(currentSymbol)>>)
    /\ UNCHANGED <<world, running, link, holds, silent, mounted, ws, readyState,
                   isConnected, attempts, timers, currentSymbol, loads,
                   candles, hitches>>

\* The messages of one move from the current symbol to s.
Move(s) == <<Unsubscribe(currentSymbol), Subscribe(s)>>

\* The ref after them.
Moved(s) == (subscriptions \ {currentSymbol}) \cup {s}

\* The user waits while a bound is reached.
Room ==
    /\ \A c \in Conns : Len(toServer[c]) + 4 <= MaxMessages
    /\ \A s \in Symbols \ {currentSymbol}, c \in Conns : holds[s][c] <= MaxStray

\* Mutant: the handler does not unsubscribe the symbol it leaves.
HandleSymbolChange_NoUnsubscribe(s) ==
    LET again == s = currentSymbol
        effect == IF again THEN <<>> ELSE Move(s)
    IN  /\ mounted = "mounted"
        /\ Room
        /\ Len(loads) + 2 <= MaxLoads
        /\ currentSymbol' = s
        /\ Fetch(IF again THEN <<s>> ELSE <<s, s>>)
        /\ IF rendered
           THEN /\ subscriptions' = Moved(s)
                /\ Send(<<Subscribe(s)>> \o effect)
           ELSE UNCHANGED <<subscriptions, toServer>>
        /\ UNCHANGED <<world, running, link, holds, silent, mounted, ws, readyState,
                       isConnected, rendered, attempts, timers, hitches>>

\* The user picks s: handleSymbolChange fetches and moves the subscription, and
\* when the symbol is a new one the effects of the render do both once more.
HandleSymbolChange(s) ==
    LET again == s = currentSymbol
        effect == IF again THEN <<>> ELSE Move(s)
    IN  /\ mounted = "mounted"
        /\ Room
        /\ Len(loads) + 2 <= MaxLoads
        /\ currentSymbol' = s
        /\ Fetch(IF again THEN <<s>> ELSE <<s, s>>)
        /\ IF rendered
           THEN /\ subscriptions' = Moved(s)
                /\ Send(Move(s) \o effect)
           ELSE UNCHANGED <<subscriptions, toServer>>
        /\ UNCHANGED <<world, running, link, holds, silent, mounted, ws, readyState,
                       isConnected, rendered, attempts, timers, hitches>>

\* Mutant: the effect that fetches does not depend on the symbol.
Navigate_NoFetch(s) ==
    /\ "links" \in world
    /\ mounted = "mounted"
    /\ Room
    /\ Len(loads) + 2 <= MaxLoads
    /\ s # currentSymbol
    /\ currentSymbol' = s
    /\ IF rendered
       THEN /\ subscriptions' = Moved(s)
            /\ Send(Move(s))
       ELSE UNCHANGED <<subscriptions, toServer>>
    /\ UNCHANGED <<world, running, link, holds, silent, mounted, ws, readyState,
                   isConnected, rendered, attempts, timers, loads,
                   candles, hitches>>

\* A link to the page changes the URL alone: only the effects run.
Navigate(s) ==
    /\ "links" \in world
    /\ mounted = "mounted"
    /\ Room
    /\ Len(loads) + 2 <= MaxLoads
    /\ s # currentSymbol
    /\ currentSymbol' = s
    /\ Fetch(<<s>>)
    /\ IF rendered
       THEN /\ subscriptions' = Moved(s)
            /\ Send(Move(s))
       ELSE UNCHANGED <<subscriptions, toServer>>
    /\ UNCHANGED <<world, running, link, holds, silent, mounted, ws, readyState,
                   isConnected, rendered, attempts, timers, hitches>>

\* Another timeframe: the current symbol is fetched again.
HandleTimeframeChange ==
    /\ mounted = "mounted"
    /\ Len(loads) + 2 <= MaxLoads
    /\ Fetch(<<currentSymbol>>)
    /\ UNCHANGED <<world, running, link, holds, silent, mounted, ws, readyState,
                   isConnected, rendered, subscriptions, attempts, timers,
                   currentSymbol, toServer, hitches>>

\* Both answers of a fetchData are there.  Nobody asks whether the symbol is
\* still the one shown; a later call may be answered first.
LoadArrives(i) ==
    /\ i \in DOMAIN loads
    /\ i = 1 \/ "disorder" \in world
    /\ candles' = loads[i]
    /\ loads' = RemoveAt(loads, i)
    /\ UNCHANGED <<world, running, link, holds, silent, mounted, ws, readyState,
                   isConnected, rendered, subscriptions, attempts, timers,
                   currentSymbol, toServer, hitches>>

\* One of them is an error: what was shown stays.
LoadFails(i) ==
    /\ i \in DOMAIN loads
    /\ i = 1 \/ "disorder" \in world
    /\ "load_fails" \in world
    /\ loads' = RemoveAt(loads, i)
    /\ UNCHANGED <<world, running, link, holds, silent, mounted, ws, readyState,
                   isConnected, rendered, subscriptions, attempts, timers,
                   currentSymbol, candles, toServer, hitches>>

-----------------------------------------------------------------------------
pageVars == <<world, mounted, ws, readyState, isConnected, rendered, subscriptions,
              attempts, timers, currentSymbol, loads, candles>>

\* The hub accepts the connection, or is full and closes it after the handshake.
HubAnswers(c) ==
    /\ "no_hub" \notin world
    /\ readyState[c] = "connecting"
    /\ Feed!Attach(c) \/ Feed!TurnAway(c)
    /\ UNCHANGED <<pageVars, toServer, hitches>>

\* The hub handles the next message of the connection.
HubReceives(c) ==
    /\ toServer[c] # <<>>
    /\ link[c] \in {"up", "dying"}
    /\ toServer' = [toServer EXCEPT ![c] = Tail(@)]
    /\ LET m == Head(toServer[c])
       IN  IF m.type = "subscribe" THEN Feed!Subscribe(c, m.symbol)
           ELSE IF holds[m.symbol][c] > 0 THEN Feed!Unsubscribe(c, m.symbol)
           ELSE UNCHANGED feedVars
    /\ UNCHANGED <<pageVars, hitches>>

HubLoses(c) ==
    /\ link[c] = "up"
    /\ Feed!Fail({c})
    /\ UNCHANGED <<pageVars, toServer, hitches>>

HubForgets(c) ==
    /\ Feed!Leave(c)
    /\ UNCHANGED <<pageVars, toServer, hitches>>

\* A minute without a quote of s, which somebody holds.
HubFallsSilent(s) ==
    /\ "silence" \in world
    /\ s \notin silent
    /\ \E c \in Conns : link[c] = "up" /\ holds[s][c] > 0
    /\ Feed!Silence(s)
    /\ UNCHANGED <<pageVars, toServer, hitches>>

\* The sweep drops what is stale; the page is not told.
HubSweeps ==
    /\ silent # {}
    /\ holds' = [s \in Symbols |-> [c \in Conns |->
                    IF s \in silent \/ link[c] # "up" THEN 0 ELSE holds[s][c]]]
    /\ Feed!Evict
    /\ UNCHANGED <<pageVars, toServer, hitches>>

-----------------------------------------------------------------------------
Next ==
    \/ \E b \in Builds : Mount(b)
    \/ Unmount
    \/ RetryTimer
    \/ Render
    \/ HandleTimeframeChange
    \/ HubSweeps
    \/ \E c \in Conns :
          \/ Opened(c)
          \/ ConnectFails(c)
          \/ Lost(c)
          \/ CloseEvent(c)
          \/ HubAnswers(c)
          \/ HubReceives(c)
          \/ HubLoses(c)
          \/ HubForgets(c)
    \/ \E s \in Symbols :
          \/ HandleSymbolChange(s)
          \/ Navigate(s)
          \/ HubFallsSilent(s)
    \/ \E i \in 1..MaxLoads : LoadArrives(i) \/ LoadFails(i)

Spec == Init /\ [][Next]_vars

(***************************************************************************)
(* Timers fire, renders commit, a socket that leaves OPEN gets its 'close' *)
(* event, and a connecting one opens or fails (the 10 second timeout).  A  *)
(* live hub reads its messages and drops the dead; what it has closed, the *)
(* transport reports to the page.                                          *)
(***************************************************************************)
Fairness ==
    /\ WF_vars(RetryTimer)
    /\ WF_vars(Render)
    /\ \A c \in Conns :
          /\ WF_vars(Opened(c) \/ ConnectFails(c))
          /\ WF_vars(CloseEvent(c))
          /\ WF_vars(HubReceives(c))
          /\ WF_vars(HubForgets(c))
          /\ WF_vars(link[c] = "gone" /\ Lost(c))

FairSpec == Spec /\ Fairness

-----------------------------------------------------------------------------
(***************************************************************************)
(* Properties.                                                             *)
(***************************************************************************)

\* The page and the hub are at rest with each other: every render has
\* committed, the socket of wsRef is up at both ends, the hub has read all.
Settled ==
    /\ mounted = "mounted"
    /\ rendered = isConnected
    /\ ws # Nothing
    /\ readyState[ws] = "open"
    /\ link[ws] = "up"
    /\ toServer[ws] = <<>>

Unhindered(H) == (hitches \cup world) \cap H = {}

\* The symbol shown is subscribed on the current connection, whatever was
\* picked and lost before, so its quotes do come; subscriptionsRef says so too.
ShownSymbolSubscribed ==
    Settled /\ Unhindered({"late_close", "silence"})
    => /\ isConnected
       /\ holds[currentSymbol][ws] > 0
       /\ subscriptions = {currentSymbol}

\* The two subscribes of a pick are undone by two unsubscribes, also across a
\* reconnection: no other symbol stays subscribed, and its quotes, which carry
\* no symbol, cannot be put on the chart again and again.  (A link away from a
\* picked symbol undoes one of the two.)
NoStraySubscription ==
    Settled /\ Unhindered({"late_close", "links"})
    => \A s \in Symbols \ {currentSymbol} : holds[s][ws] = 0

\* Every socket that is open or being opened is the one of wsRef, the only one
\* cleanup() can close.
NoOrphanSocket ==
    \A c \in Conns : readyState[c] \in {"connecting", "open"} => c = ws

\* A page that has gone opens no socket again, unless a socket it had closed
\* did not close cleanly or a timer was lost.
GoneStaysGone ==
    mounted = "gone" /\ Unhindered({"unclean_exit", "timer_lost"})
    => /\ timers = 0
       /\ \A c \in Conns : readyState[c] \notin {"connecting", "open"}

\* When every fetch has been answered, in order and without an error, the
\* candles are those of the symbol shown, however fast the user picked.
CandlesFollowSymbol ==
    mounted = "mounted" /\ loads = <<>> /\ Unhindered({"disorder", "load_fails"})
    => candles = currentSymbol

Served ==
    /\ ws # Nothing
    /\ readyState[ws] = "open"
    /\ link[ws] = "up"
    /\ holds[currentSymbol][ws] > 0

\* The reconnections are used up and no timer is left.
GaveUp == attempts = MaxReconnectAttempts /\ timers = 0

Exhausted == \A c \in Conns : readyState[c] # "new"

\* A mounted page gets its symbol served, or gives up after the attempts, and
\* neither waits for an event that does not come.
ServedOrGaveUp ==
    (mounted = "mounted" /\ ~Served)
        ~> \/ Served
           \/ GaveUp
           \/ mounted = "gone"
           \/ Exhausted
           \/ ~Unhindered({"late_close", "silence"})
=============================================================================
