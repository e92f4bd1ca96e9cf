# Verification of the trading viewer's stateful core

TLA+ models of the parts of the trading viewer where order, failure and time
matter, their model checking with TLC, and proofs with TLAPS. All paths of
source files are relative to the repository; `server/` stands for
`apps/server/src/` and `client/` for `apps/client/src/`.

| module | what it models | runs | proofs |
| --- | --- | --- | --- |
| `QuoteHub` | the server's WebSocket service: connections, subscriptions, quotes, timers, shutdown | `QuoteHub_safety`, `QuoteHub_live`, `QuoteHub_limit` | `QuoteHub_proofs` |
| `QuoteFeed` | what the hub promises a connection: the abstract specification of `QuoteHub`, and the server of `LiveQuotes` | `QuoteHub_live` | `QuoteHub_proofs` |
| `LiveQuotes` | a chart page and its WebSocket hook against `QuoteFeed` | `LiveQuotes_safety` | `LiveQuotes_proofs` |
| `CommandInvoker` | the undo/redo history of the client | `CommandInvoker_safety`, `CommandInvoker_blocked`, `CommandInvoker_cleanup` | `CommandInvoker_proofs` |
| `UndoStack`, `ChartEdits` | what undo promises; the drawing, chart and preference commands and their batches run by `CommandInvoker` | `ChartEdits_safety` | `ChartEdits_proofs`, `UndoStack_proofs` |
| `DrawingSync` | drawings between the chart on screen and the server: autosave, restore, REST routes | `DrawingSync_safety`, `DrawingSync_live`, `DrawingSync_fault` | `DrawingSync_proofs` |
| `TokenStore`, `Sessions` | the sessions of one account: authentication routes and middleware, refresh tokens, lock, sign-in limiter, CSRF tokens, reset links | `Sessions_safety` | `Sessions_proofs`, `SignInLock_proofs` |

```
QuoteHub --implements--> QuoteFeed <--uses as its server-- LiveQuotes
CommandInvoker <--extends-- ChartEdits --implements--> UndoStack
TokenStore <--extends-- Sessions                     DrawingSync
```

Each `MC*` module holds the instances for TLC. `PROJECT.json` relates every
definition to the lines it models, every property to the mutation of the code
that it catches, and every hazard to the properties that cover it. Several hazards are
races the code does lose: the models have their steps, the properties exempt them by name,
and the hazard's note says so instead of naming the property.

## Inventory

The system is a React client and an Express server over Prisma/SQLite, with a
WebSocket for live quotes and Redis (or memory) for tokens.

**Server**

- *Quote hub*, `server/application/services/websocketService.ts`. State: the
  map of clients, the map from symbol to a set of subscription records, one
  interval per symbol, and on each socket `isAlive` and `subscriptionCount`.
  Operations: connect, subscribe, unsubscribe, the quote interval with its
  awaited provider call, 'error' and 'close' events, a heartbeat every 30 s, a
  sweep every 5 min, `close()`. Hard: handlers interleave around the await and
  around a socket that is CLOSING; three timers act on the same maps. Correct
  when subscribers have a timer, nobody else keeps one, limits hold and what is
  gone leaves nothing behind.
- *Drawing routes*, `server/routes/drawings.ts`, the repository below them, and
  the cleanup service. State: the table `drawing_tools`. Operations: list,
  create, update, delete, batch replace, cleanup of what is not accessed.
- *Sessions*, `server/routes/auth.ts`, `server/infrastructure/services/tokenStore.ts`,
  `server/middleware/auth.ts`, `server/infrastructure/repositories/UserRepository.ts`.
  State: the row of the account (password, failed logins, lock, reset link),
  the rows of the refresh tokens, CSRF tokens and sign-in attempts (Redis with
  a fallback to memory). Hard: every handler is a chain of awaits over shared
  rows, revocations are not awaited, Redis comes and goes. Correct when a token
  is rotated once, a sign-out reaches every session and takes no other, and the
  counts that lock and limit follow what was tried.
- *General rate limiter*, `server/middleware/rateLimiting.ts`: one counter per
  client and window, read and then written.
- *Caches and market data*, `server/application/services/cacheService.ts`,
  `server/infrastructure/cache/`, `server/domain/services/MarketDataService.ts`.
  Hard: an invalidation while a read is awaited.
- *Watchlist, saved charts, indicators*: rows with positions or with one
  default per user, read and then written in separate steps.
- *Startup and shutdown*, `server/bootstrap.ts`: the order in which HTTP server,
  WebSocket service and database are closed, against a 30 s limit.
- *Service container*, `server/infrastructure/di/`: singleton and scoped
  resolution.

**Client**

- *Command invoker*, `client/commands/CommandInvoker.ts`. State: history,
  `currentIndex`, `isExecuting`, and `executed` in each command. Operations:
  execute, undo, redo (each awaits the command), clearHistory, cleanupHistory.
  Hard: commands that fail, trimming at the limit, clearing while an operation
  is awaited. Correct when undo and redo move one boundary along the history and
  the history agrees with the commands.
- *Commands*, `client/commands/DrawingCommands.ts`, `ChartCommands.ts`,
  `UserPreferencesCommands.ts`: create, update, delete, set, and batches; they run
  through the invoker. State: what each command has captured, the id it has
  made. Hard: ids change when a create is redone, batches stop half way. Correct
  when undo gives back what was there before.
- *Drawing autosave*, `client/hooks/drawing/useDrawingServerPersistence.ts`.
  State: the list on screen, a timeout, loads and saves being awaited.
  Operations: load on mount, save one second after the last change by a GET, a
  DELETE per row and a POST per drawing. Hard: a save is not atomic, is not
  awaited by the next one or by a load, and may stop half way; a failed load
  looks like an empty chart. Correct when what is stored is what was drawn.
- *Chart page and WebSocket hook*, `client/hooks/useWebSocket.tsx`,
  `client/hooks/useSymbolManagement.tsx`, `client/contexts/ChartSymbolContext.tsx`.
  State: the socket, the reconnect timer and attempts, the set to subscribe
  again, the symbol of the URL, the candles. Operations: mount, unmount, connect,
  socket events, the timer, a pick, a link, a change of timeframe, fetches.
  Hard: the same subscription is made by a click, an effect and a
  reconnection; events of an old socket; answers out of order. Correct when page
  and hub agree on what is subscribed and a page that has gone is gone.
- *Session*, `client/contexts/AuthContext.tsx`: a flag that follows the answers of
  the routes; the client never calls `/auth/refresh` by itself.
- Presentation, chart rendering and numeric indicators: no state machine.

**Interactions.** The autosave calls the drawing routes over HTTP; the hook
talks to the quote hub over a socket and gets events; the hub calls the market
data providers and awaits them; commands run inside the invoker, which awaits
them. Within one JavaScript process nothing runs in parallel: what interleaves is
the code between two awaits, timers and events. One action of a model is
therefore the code from one await (or event) to the next.

## QuoteHub

Each variable is the field or map of the same name; `topics` and
`updateIntervals` are the key sets of the two maps by symbol. `sock` is the life
of a socket: `open`, `closing` (from the moment `readyState` leaves OPEN until the
'close' event), `closed`, and `refused` for a connection over the limit, which
gets no handlers. A record has a `lastUpdate` or not; records of one connection
and symbol are two counts, `served` and `waiting`, since a quote refreshes
all of them together. `feed` is the branch `sendQuoteUpdate` takes, fixed by the
environment. `UpdateTick`/`SubscribeToSymbol` run `sendQuoteUpdate` up to its
await and `QuoteArrives` or `QuoteFails` is the rest of it; with mock quotes there is no
await. `MinuteOfSilence` says that the last quote of a symbol is older than the
stale threshold: time itself is not modelled.

`QuoteHub_safety` (1.05 million states): three connections, one of them
anonymous, two symbols, at most two open connections, two subscriptions each, one
fetch awaited per symbol. Three connections are what it takes for a refused one
while two compete for a symbol; a second symbol tells the symbol touched from
the others; two subscriptions allow a duplicate record. It checks

- `EverySubscriberHasTimer`, `NoTimerWithoutTopic`: the two halves of "a symbol
  is polled exactly as long as it is known";
- `ClosedHoldNothing`: nothing survives the 'close' event, though a message
  may be handled between 'error' and 'close';
- `RecordsWithinCount`: the limit on `subscriptionCount` bounds what is held;
- `OpenWithinLimit`: the connection limit, though `clients` shrinks early;
- `EvictionAccounted`: an open connection loses records only to its own
  unsubscribe, to `close()`, or to a sweep after a silent minute.

`QuoteHub_live` (40 thousand states, two connections, one symbol, no symmetry):
`OrphanTimerStops` and `DeadPeerDropped`. Fairness: the heartbeat, the sweep and the
quote intervals fire again and again (`setInterval`; the heartbeat as long as a socket
is tracked after `close()`), an awaited quote settles (`yahoo-finance2` uses
`fetch`, which gives up on an answer after some minutes), and a CLOSING socket is closed (the `ws` library destroys it after 30 s).
Clients need not send anything, and quotes may always fail.

`QuoteHub_live` also checks `ImplementsFeed`: under the mapping `link <- LinkOf`
(idle, up, dying, gone, from `sock`), `holds <- Holds` (the records of each
connection and symbol) and `silent <- quiet`, every behaviour of the hub is one
of `QuoteFeed`. Timers, the two maps, awaited quotes and the order in which
'error', 'close', sweep and `close()` clean up disappear in that view: a
connection that is up gains and loses a subscription only by its own messages,
by staleness, or with the whole feed. `LiveQuotes` builds on that.

`QuoteHub_limit` finds a disagreement, see *Findings*.

*Proved*, for any number of connections and symbols and any limits
(`HubAssumption`): `TypeOK`, `EverySubscriberHasTimer`, `NoTimerWithoutTopic`,
`ClosedHoldNothing`, `OpenWithinLimit`. `NoTimerWithoutTopic` is not inductive:
a new timer needs a new key and a removed key must have had its timer, so the
invariant keeps the two sets equal (`TimersAreTopics`), with types,
`EverySubscriberHasTimer` (a set that is not empty must not be given a timer)
and `ClosedHoldNothing`. `OpenWithinLimit` follows from a separate invariant that
relates open sockets to `clients`. `HubImplementsFeed` proves the refinement for
every instance: two parts of `IInv` suffice (a record stands under a key of
`subscriptions`, a closed connection holds none), and each action of the hub is
matched with a step of the feed or a stutter.

`RecordsWithinCount` compares a count with what is held over all symbols, the size of the
set `RecordsOf` (one element per record): a subscribe adds one element to it, an
unsubscribe takes one away, and everything else keeps it or makes it smaller
(`CountInv`). `EvictionAccounted` follows from it and the fate of each record
under each action. Only liveness stays with TLC.

## LiveQuotes

One page, opened, used and left, with the feed as its server: the actions of
`QuoteFeed` are taken with `Feed!Subscribe`, `Feed!Leave` and so on, and
`toServer` holds the messages on their way. `ws`, `subscriptions`, `attempts` are
the refs of the hook; `isConnected` is its state and `rendered` the value of
that state in the last render, whose effect undoes itself with the values it was made
with. `readyState` belongs to each socket ever made; *failing* and *closing* have
their 'close' event to come, which the handler does not ask whose it is.
`timers` counts reconnect timers, as one that was overwritten still fires.
A pick (`HandleSymbolChange`) fetches and moves the subscription in the click and
then once more in the effects; a link (`Navigate`) runs the effects alone. The
hub counts, so the two subscribes of a pick need two unsubscribes.

`world` says what may happen (links, silent minutes, slow, disordered or failing
fetches, no hub at all), `hitches` what has happened that the hook does not
provide for: a 'close' event of an old socket while a new one is open
(`late_close`), one that is not clean after the page has gone (`unclean_exit`), a
timer armed while another was (`timer_lost`). Each property names those it
does not hold with; each was found by TLC as a counterexample of the property
without the exemption.

`LiveQuotes_safety` (824 thousand states): three sockets (a first one, a
reconnection, and one of a StrictMode double mount or a second reconnection), two
symbols, two attempts, five worlds, three fetches, four messages on the way.
Two symbols tell the one shown from one left; with a fourth socket nothing new
can meet. `MaxStray = 0` makes the user wait while the hub holds
a symbol other than the one shown, so that links do not pile records up. It checks

- `ShownSymbolSubscribed`: once page and hub have settled, the hub holds the
  symbol shown and `subscriptionsRef` says so, across picks and reconnections;
- `NoStraySubscription`: and it holds no other, without links. (A link away from
  a symbol that was picked undoes one of its two records; quotes carry no symbol,
  so the other one's quotes are then put on the wrong chart.);
- `NoOrphanSocket`: an open or connecting socket is the one `cleanup()` knows;
- `GoneStaysGone`: a page that has gone opens no socket. With `unclean_exit` it does:
  `onclose` arms a timer whatever the page does (the tests of the hook are skipped,
  `client/hooks/__tests__/useWebSocket.test.tsx:58`);
- `CandlesFollowSymbol`: with fetches answered in order the candles are those of the symbol
  shown; out of order a late answer overwrites the newer one;
- `ServedOrGaveUp` (liveness): a mounted page gets its symbol served, or gives up
  after the attempts. Fairness: timers fire, renders commit, a connecting socket
  opens or fails (there is a 10 s timeout), a socket that left OPEN gets its
  'close' event, the hub reads messages and forgets dead connections, and a connection
  the hub has ended is reported to the page by the transport. The user need
  not do anything.

A refused connection (the hub closes it with 1013 after the handshake) passes
through `onopen`, which sets the attempts back, so a full hub is retried without
end: with three sockets that is bounded by `Exhausted`. An eviction by
the sweep is never told to the page, hence the exemption of `silence`.

*Proved*, for any number of sockets and symbols, any world and any cap on
attempts: `TypeOK`, `NoOrphanSocket`, `GoneStaysGone`, `CandlesFollowSymbol`. The first
needs that before the mount nothing exists (`NotYet`), the third that without lost timers at most one is
armed and that a page that is gone has none (`OneTimer`), the last that the
newest fetch in flight is of the symbol shown and that a fast market has none (`CandlesInv`).

`ShownSymbolSubscribed` and `NoStraySubscription` are about what the hub will hold once it has
read the messages on their way. `Reads(q, s, n, m)` says that reading the
queue `q` leads from `n` subscriptions of `s` to `m`, by the numbers in between, so
that a message sent is an element appended and a message read is the
first one dropped. The invariant (`FeedInv`) then bounds the number reached: at most two for
the symbol shown if the last render was connected and none for any other
(`StrayInv`), at least one for the symbol shown while the link stands (`ShownInv`).
An eviction or a refused second subscription falls anywhere in the queue, and
reading is monotone in the number it starts from. The liveness is checked only.

## CommandInvoker

`history` and `currentIndex` as in the code, the index counted from 0 there.
`pending` is `isExecuting` with the command being awaited; Start actions run to
the await, Finish actions resolve (`ok`) or reject. `executed` is the flag of
`BaseCommand`. `GrowOld` lets commands pass the age `cleanupHistory` looks at. A
command is executed once, as the factories make a new object per call. A
history of three entries with four undoable commands and one that cannot be undone
reaches trimming with all mixtures of done, undone and failed entries (12
thousand states). It checks

- `HistoryShape`: undone entries are exactly those after `currentIndex`;
- `HistoryMatchesCommands`: history and commands agree;
- `UndoIsLinear`: a later command is never in effect without an earlier one;
- `UndoneCanBeRedone`: no failed entry or trimming blocks redo.

These hold with `clearHistory` at any moment, and with `cleanupHistory` between
operations (`CleanupWhileExecuting = FALSE`); with a cleanup during an await they do
not, which `CommandInvoker_cleanup` shows. No component calls `cleanupHistory` at
present: it is part of the interface.

*Proved*, for any history size and any commands: `TypeOK`, `HistoryShape`,
`HistoryMatchesCommands`, `UndoIsLinear`, `UndoneCanBeRedone`, where they are
checked (`~CleanupWhileExecuting`). The inductive invariant adds: commands of the
history are distinct; the index lies in the history, or one off an empty one
(`IndexInRange`: a clear during an undo leaves -2, during a redo 0); only what succeeded
is undone; and what is awaited is still where it was unless the history was
cleared (`PendingInPlace`), which is what a Finish action relies on. Linearity
then follows from the shape and the agreement with the commands.

## ChartEdits

`ChartEdits` extends `CommandInvoker`: its actions are those of the history with
what the command does where the await ends. `chart` maps items to values; an item
is named by the command that made it and how often that command had run, because
every execution of a create calls for a new id, and the value is the command that wrote it
last. `memo` is what `captureState` kept, `target` the id an update or delete was
made with. A batch (`BatchDrawingCommand`, `BatchChartCommand`) validates all parts,
runs them in order and undoes them in reverse order when one fails, each of these undos
possibly throwing; `plain_batch` is the `BatchCommand` of `createBatchCommand`,
which undoes nothing. The contexts the commands work on are interfaces without an
implementation in the repository, so each call may throw.

Four things can go wrong with a throw, and the model has all four. A command that throws
is a failed entry, and nothing was done. A part of a batch that throws stops
the batch, which is rolled back. A part whose undo throws is left as it is: `spoiled` is set, work was
left half done where undo cannot see it, and nothing is promised from there on. And a
`DeleteDrawingToolCommand` catches what `removeDrawingTool` throws (`DrawingCommands.ts:227-233`):
it is a success with its drawing still there and a copy of it in `deletedTool`, alone,
in a batch that goes on, and in a redo. `stays` are the deletes to which that happens,
`hidden` remembers it until the history is cleared, and `twice` is set when the undo or the
rollback of such a delete adds the drawing while it is there; what `addDrawingTool` does then is
nowhere said, so nothing is followed further. `RemoveIndicatorCommand` lets its context's
error through and is a kind of its own, "remove". `spoiled` is
also set by a `cleanupHistory` which drops undone entries, since later ones are then
redone without them.

`UndoStack` is what the user is promised: undo gives back the chart before the
last edit, redo the chart after it, a new edit ends redo, a failed edit
ends undo (see *Findings*), and the oldest charts may be forgotten.

`ChartEdits_safety` (908 thousand states): a create, a delete, a batch of an update,
a delete and a setting, a plain batch of a create and a removal, a history of three, each
executed at most twice: the smallest set where a redo changes an id that
another command refers to, in and outside of a batch. It checks

- `ImplementsUndoStack`: commands and history implement `UndoStack`, with
  `chart <- View(chart)`, which names items by their maker: a redone create gives the
  user the same drawing under another id. With `spoiled` or `hidden` the two
  stacks are empty: nothing can be brought back any more, until a clear of the history
  forgets the delete that hid its error;
- `OneItemPerCreate`: undo, redo, delete and rollback neither lose nor double a
  drawing, and none is added while it is there unless a delete has hidden its error;
- `UndoFindsItsItem`: the command undo is about to undo still finds its item; with
  `hidden`, a delete may find that its item never went;
- `FailedBatchLeavesNothing`: the redo of a drawing or chart batch that fails
  changes nothing, undos that throw and deletes that hide it apart.

The exemptions are needed: without `hidden` TLC finds a create, a delete that hides its error,
and the undo of the delete, which adds the drawing again.

After the redo of a create, the redo of an update or delete of it is refused by
`validate()` and stays redoable. `ExportUserPreferences` cannot be undone, which is the
non-undoable command of `CommandInvoker_safety`. An update's undo merges, so a key that
the update added remains: which keys a value has is left out, and so is a
`ChartSettingsCommand` with `indicators`, which replaces all indicators at once. The undo of a
drawing batch (298-311) does not await the undos of its parts, so what one of them throws is caught
by nobody; the chart is the same as in a chart batch, which catches it.

*Proved*, for any commands of any kinds, batches of any length and any bounds, with
`~CleanupWhileExecuting`: `EditsTypeOK`, `OneItemPerCreate`,
`FailedBatchLeavesNothing`, `UndoFindsItsItem` without `hidden`, and the refinement `ImplementsUndoStack`. Every theorem of
`CommandInvoker` carries over, since a step of `ChartEdits` is one of its steps or
changes nothing of it (`EditsKeepHistory`).

A batch is followed through the sequence of states between its parts (`Trace`), and what
holds of the first state and is kept by each part holds of the last: an induction up to the number
of parts, from the well-foundedness of the natural numbers (`UpTo`). Rollback and
undo run along the same states backwards, and each part finds the state it left
(`UndoExecute`).

`EInv` (in `ChartEdits_proofs`) is the invariant of the items. A redo of a create
leaves ids behind that other commands still name, so an id means something only
together with the history: what an update or a delete points at was made by a create before it
(`TargetsMade`, `TargetsEarlier`), is the last item of that create while the
command is in effect (`TargetsFresh`), and what is undone or about to run has no
item (`UndoneIsOff`).

`LInv` (in `UndoStack_proofs`) is the invariant of the views, for which ids do not matter.
`Effect` says that a command with what it remembers leads from one view to
another, for a batch by way of the views between its parts. The views before and
after the entries link up (`Joined`), the chart shows the end of the last entry that is
done, which is the beginning of the next one (`Shown`), and each successful
entry leads from its view before to its view after, while it is in effect with what its
command remembers now (`Effective`): a redo of a batch captures new values, and a later
command must not have disturbed them. An undo under way takes back what
the chart shows, even when a clear has taken its entry (`UndoHeld`). All this lasts until work
is left half done or an error hidden; a cleared history starts afresh. Undoing along an effect gives the view before, executing along
it the view after. Read from the last failed entry on, the entries are two
stacks of views (`Stacks`), and each action moves one view between them as `UndoStack` says.

`EditsAssumption` asks that the commands a user gives to the invoker can be undone:
the factory makes all kinds modelled here with `canUndo` set, its default.
The one exception, the export of preferences, changes no chart.

## DrawingSync

One user with one tab. `tools` is the list on screen as a bag of drawings,
`armed` the timeout of the autosave, `load` the request of the chart on screen,
`saves` the calls of `saveToServer` being awaited with what they still have to
send, `rows` the table. A chart is a symbol with a timeframe. `ChartMainContent`
replaces the chart by a spinner while market data is fetched, and every change
of symbol or timeframe fetches: hence a change is `Unmount` and `Mount`, the timeout is
cleared, the list is lost, the answer to an old load goes nowhere, and old saves
go on. Each request of a save is an action of its own, taken when the server
executes it; a DELETE of a row that is gone fails and ends the save. `CloseTab`
stops saves between two requests. `kept` is what the user has drawn and not
deleted; it is compared with the table and drives nothing else.

What may go wrong is chosen by `hitches`, fixed in a behaviour: `slow` loads
(slower than the delay of 1 s), `overlap` (saves slower than that), `loadfails`,
`savefails`, and a `hasty` user, who draws before the load is done and leaves before the save
is. Properties say for which of them they hold.

`DrawingSync_safety` (598 thousand states): two charts, two drawings on one and one on the
other, two saves at a time, three rows at a time, in three worlds: none of
the hitches; a hasty user with slow and failing loads; a patient user with
everything slow, overlapping and failing. Two saves are the smallest overlap;
two drawings on a chart make a save that is half done. All five at once exceed
what TLC finishes; `HomeKept` is proved for them too. It checks

- `HomeKept`: no drawing is stored under, or shown on, a chart it was not drawn
  on, whatever happens;
- `SettledIsSaved`: when the autosave rests, the table holds what is on screen,
  unless saves failed or overlapped, even after half-done saves of a closed tab;
- `NothingLost`: with a patient user and a server that is quick and reliable,
  the table holds exactly what was drawn and not deleted.

`DrawingSync_live` (26 thousand states): `AutosaveRests`, once the user rests the
client stops saving, although a load arms the autosave. Fairness: requests are answered
or fail, and the timeout fires once the user rests (while the list changes it is
set anew, so no fairness is assumed of it before).

`DrawingSync_fault` finds a disagreement, see *Findings*.

*Proved*, for any charts, drawings, row ids and save slots and in every world:
`TypeOK` and `HomeKept`. What is in flight has to be at home as well
(`CargoHome`: loads for the chart on screen, saves for the chart they were started for), and
the table is finite so that a count above zero has a row. Also proved is
`SettledIsSaved`. Its invariant (`CalmInv`) says that without overlap and
failing saves there is one save at a time, that every row it has yet to delete is
there (or the DELETE would answer 404 and the save end half way), and that the rows
it keeps and the drawings it has yet to send add up to the list it started
with, which is the list on screen unless the autosave is armed again.

And `NothingLost`: with no hitches a save is for the chart on screen and meets no load
(`SavesOfScreen`), a load brings what is stored (`ServedIsStored`), and a drawing
the user keeps is on screen if its chart is loaded and has its one row if not
(`KeptSomewhere`). That a save deletes no row but its own holds in every world
(`RowInv`: a new row never takes an id that is listed).

Left out: React's double effects of development builds; expiry of rows; a second
tab or device of the same user, of which the server knows nothing.

## Sessions

One account and any requests about it, from its owner, from someone who guesses,
and from an administrator. A handler is a chain of awaits, and each action is one
link of it: `req[r].at` is the await the request is at, its other fields what it
was sent and what it has read. `user` is the row, `tokens` the rows of refresh tokens.
A refresh token is the JWT of account and second, so a token *is* its second:
a second one signed in it is the same string, and its row is refused by the
unique column. `SignOut` ends the handlers that revoke: the answer goes out and
`RevokeAll`, `DropCsrf` and `DropKey` happen later, as the code does not await them. `TokenStore`
is the pair of stores (Redis, memory) for CSRF tokens and sign-in attempts.

`world` says which requests come, and whether the limiter is on (it is off in
development), writes of the database are refused, or Redis comes and goes between any two awaits. HISTORY
variables record what a sign-out was to end (`stale`, `oldCsrf`), what met one
half done (`raced`, `newCsrf`), what two refreshes had verified at once (`shared`),
and counts of guesses, admitted sign-ins and uses of a link; they drive nothing. `hitches` notes
races the handlers do not provide for. A property holds but for those it
names, and each exemption is needed: without it TLC finds the race.

`Sessions_safety` (2.7 million states): two requests at once in sixteen
worlds, each a choice of requests that act on the same rows; all seventeen at once exceed what TLC
finishes. Two requests make every race of a read with a write; two wrong passwords
lock, three attempts close the window, three seconds give a token, its successor and one more.
A request slot is used again and again, so that chains of any length occur. It checks

- `SignOutReachesEveryToken`: once the revocations are through, no token that a
  logout, password change or reset, or deactivation was to end is good, nor one it was
  exchanged for, but for those signed by a request under way meanwhile;
- `NoSessionLost`: the other direction: a token is revoked only by such a
  sign-out or because another took its place. Exempt: `same_second` ("Token generation
  failed" after the old token was revoked), and a refused write;
- `OneSuccessorPerToken`: a token is exchanged once, unless two refreshes verified it
  before the first revoked it;
- `LockFollowsGuesses`: at most the allowed number of wrong passwords is compared before
  the lock, plus one per request under way, and a lock means a count at the limit.
  Exempt: `counter_race`, with which a lock lands on an account just reset;
- `LimiterCountsEverySignIn`: the window admits fewer than its maximum, unless two sign-ins
  read the entry before either wrote it, or Redis came or went: what is left is the boundary of
  the counter over windows, successes and refusals;
- `ResetLinkWorksOnce`, unless two requests found the link before either wrote;
- `CsrfFollowsSignOut`: while Redis is steady and no removal is under way, exactly the
  CSRF tokens since the last removal are found.

As the code is: access tokens are JWTs good until they expire (`revokeToken` and
`RefreshTokenStore` have no caller); `/refresh` does not look at `isActive`; an import
deactivates without revoking; a logout ends all sessions of the account and
removes no CSRF token; a sign-in during a late revocation is revoked with the rest; a
registration that fails after the row was written leaves an account without session. `routes/authRoutes.ts` is not
mounted. Left out: expiry of refresh tokens, CSRF tokens and links; an account
that is deleted and registered again is another account (`SessionsAssumption`).

*Proved*, for any number of requests, passwords, seconds, links and CSRF tokens, any limits and every world:
`TypeOK` and all seven properties. Each
request is well formed for the await it is at (`AlwaysTyped`); each property has an invariant
of its own, and for each there are "calm" actions that leave alone all the
invariant is about, so that only the others need an argument:

- the limiter: with no race, what was admitted is at most the stored count and
  the count any request has read and is about to write;
- reset links: each is stored once, by the request that made it, and one that was used is
  neither stored nor held by a request about to use it;
- CSRF tokens: all are in Redis or removed, only old ones are removed, and an old one
  in Redis is still to be gone through;
- tokens (`TokenInv`, for three properties): a token that any request or history knows
  has a row as long as the account lives (`TokensKept`); a token with a
  successor, stored or signed, is not good, and of two requests or successors
  that hold one token both had verified it together (`TokensSpent`); a
  token that was to end is good only while a revocation is outstanding
  (`TokensEnded`); a revoked one was to end, is raced, was exchanged or is about to be, and
  while a revocation is outstanding it finds no others (`TokensAccounted`).
- the lock (`GuessInv`, in `SignInLock_proofs`): without races a request about to write
  the count has read the count there is (`CountIsRead`), so every guess is counted or is
  yet to be. While the account is open, the guesses stay below the limit plus the requests that
  found a wrong password and have yet to count it or lock; once it is locked or
  deleted the requests about to compare use up what is left (`GuessesBounded`). The
  three sets of requests change by one element per step (`OneMoves`). A new account
  has no guesses (`NotYet`).

## Findings

- `QuoteHub_limit`: the sweep, deliveries to dead sockets and `close()` drop records
  without giving `subscriptionCount` back, so a connection can be refused
  ("Maximum subscriptions limit reached") while it holds fewer.
- `CommandInvoker_blocked`: a failed command becomes the current entry, and
  "Undo the last executed command" is refused for the successful ones before it.
- `CommandInvoker_cleanup`: a cleanup during an awaited undo or redo moves
  `currentIndex` under it, and an undone command survives the next execute.
- `DrawingSync_fault`: a load that fails is taken for an empty chart, and one second
  later every stored drawing of the chart is deleted.

## What is proved and what is only checked

Every invariant and every action property that a run checks is a theorem, and so are
both refinements; of `UndoFindsItsItem` the part with `hidden` is left to TLC. The proofs use the named assumptions on constants and the
library's theorems on finite sets, sequences and well-founded relations. Each safety theorem
goes through an inductive invariant (init, step, consequence) with one lemma per
action or group of actions; the refinements (`HubImplementsFeed`,
`EditsImplementUndoStack`) map each step to a step of the abstract
specification or a stutter.

Model-checked only: liveness (`OrphanTimerStops`, `DeadPeerDropped`,
`AutosaveRests`, `ServedOrGaveUp`), which needs fairness and ENABLED, and these the prover
does not support.

The theorems of `CommandInvoker` and `ChartEdits` assume `~CleanupWhileExecuting`, as their
runs do. Theorems speak of the models; that an action is the code of a handler from one
await to the next is by reading.

## Not modelled

- *Caches and providers*: answers kept for a while, stateless HTTP and mapping; no
  invariant of the program reads them.
- *Watchlist, saved charts, indicators*: one or two queries per request. Two
  additions may store one position, which only the order of display shows.
- *Startup, shutdown, container, database access, other repositories and routes*: one sequence of
  awaits, a map filled at start, thin wrappers, one query per request.
- *General rate limiter*: the read-then-write counter of the sign-in limiter again.
- *Client session, error recovery, memory management*: flags and timers local to
  a page with no effect on what is stored.
- *Pages, components, rendering, numeric indicators*: presentation and floating point.
- Prices, texts, wording and logging everywhere.

Most of the repository's lines are in that list, so the models stand for a small
share of the lines and for the parts in which order, failure and time
decide. What remains worth doing, in this order:

1. The cache of symbols (an entry put back after its invalidation) and the age of quotes
   in `QuoteHub` (overlapping fetches of one symbol).
2. The shutdown, composed with the sockets of `QuoteHub` it waits for.
3. Within the theorems, the exemptions named by `hitches` and `world` could be made
   narrower: each now stands for a whole behaviour, from the first time it happens.
