----------------------------- MODULE QuoteFeed ------------------------------
(***************************************************************************)
(* What the quote hub promises its clients: the abstract specification     *)
(* that QuoteHub implements and that LiveQuotes uses as its server.        *)
(*                                                                         *)
(* A connection sees only how many subscriptions of each symbol it holds.  *)
(* While it is up, they change by its own subscribe and unsubscribe        *)
(* messages, one at a time, or are evicted as stale, or all end with the   *)
(* feed; once it is down nothing is left.  Timers, maps, counters, quotes  *)
(* awaited and the order of the clean-up are the hub's own affair.         *)
(***************************************************************************)
EXTENDS Integers

CONSTANTS
    Conns,    \* the connections made in one behaviour
    Symbols   \* the symbols clients subscribe to

VARIABLES
    running,  \* the feed accepts connections
    link,     \* what became of each connection
    holds,    \* the subscriptions each connection holds, per symbol
    silent    \* the symbols without a quote for a minute

feedVars == <<running, link, holds, silent>>

\* "dying": no longer OPEN, its 'close' event is to come.
LinkStates == {"idle", "up", "dying", "gone"}

None == [s \in Symbols |-> [c \in Conns |-> 0]]

Init ==
    /\ running = TRUE
    /\ link = [c \in Conns |-> "idle"]
    /\ holds = None
    /\ silent = {}

-----------------------------------------------------------------------------
\* The subscriptions h without those of the connections D.
Without(h, D) ==
    [s \in Symbols |-> [c \in Conns |-> IF c \in D THEN 0 ELSE h[s][c]]]

\* h after a quote of s has been sent: only connections that are up keep it.
Sent(h, s) ==
    [h EXCEPT ![s] = [c \in Conns |-> IF link[c] = "up" THEN h[s][c] ELSE 0]]

\* A handshake, which may be turned away.
Attach(c) ==
    /\ running
    /\ link[c] = "idle"
    /\ link' = [link EXCEPT ![c] = "up"]
    /\ UNCHANGED <<running, holds, silent>>

TurnAway(c) ==
    /\ running
    /\ link[c] = "idle"
    /\ link' = [link EXCEPT ![c] = "gone"]
    /\ UNCHANGED <<running, holds, silent>>

\* One more subscription; the first quote may be sent at once.
Subscribe(c, s) ==
    /\ link[c] \in {"up", "dying"}
    /\ LET h == [holds EXCEPT ![s][c] = @ + 1]
       IN  \/ holds' = h /\ UNCHANGED silent
           \/ holds' = Sent(h, s) /\ silent' = silent \ {s}
    /\ UNCHANGED <<running, link>>

Unsubscribe(c, s) ==
    /\ link[c] \in {"up", "dying"}
    /\ holds[s][c] > 0
    /\ holds' = [holds EXCEPT ![s][c] = @ - 1]
    /\ UNCHANGED <<running, link, silent>>

\* A quote of s reaches whoever is up.
Quote(s) ==
    /\ holds' = Sent(holds, s)
    /\ silent' = silent \ {s}
    /\ UNCHANGED <<running, link>>

\* A minute passes without a quote of s.
Silence(s) ==
    /\ silent' = silent \cup {s}
    /\ UNCHANGED <<running, link, holds>>

\* Some connections break; a dying one may be forgotten early.
Fail(D) ==
    /\ \A c \in D : link[c] \in {"up", "dying"}
    /\ link' = [c \in Conns |-> IF c \in D THEN "dying" ELSE link[c]]
    /\ holds' = holds \/ holds' = Without(holds, D)
    /\ UNCHANGED <<running, silent>>

Leave(c) ==
    /\ link[c] = "dying"
    /\ link' = [link EXCEPT ![c] = "gone"]
    /\ holds' = Without(holds, {c})
    /\ UNCHANGED <<running, silent>>

\* The subscriptions of dead connections go, and stale ones of the silent
\* symbols may; nobody gains any.
Evict ==
    /\ DOMAIN holds' = Symbols
    /\ \A s \in Symbols :
          /\ DOMAIN holds'[s] = Conns
          /\ \A c \in Conns :
                IF link[c] # "up" THEN holds'[s][c] = 0
                ELSE IF s \in silent THEN holds'[s][c] <= holds[s][c]
                ELSE holds'[s][c] = holds[s][c]
    /\ UNCHANGED <<running, link, silent>>

\* The feed ends: no subscription is left and no connection is accepted.
End ==
    /\ running
    /\ running' = FALSE
    /\ holds' = None
    /\ UNCHANGED <<link, silent>>

-----------------------------------------------------------------------------
Next ==
    \/ \E c \in Conns :
          \/ Attach(c)
          \/ TurnAway(c)
          \/ Leave(c)
          \/ \E s \in Symbols : Subscribe(c, s) \/ Unsubscribe(c, s)
    \/ \E D \in SUBSET Conns : Fail(D)
    \/ \E s \in Symbols : Quote(s) \/ Silence(s)
    \/ Evict
    \/ End

Spec == Init /\ [][Next]_feedVars
=============================================================================
