---------------------------- MODULE DrawingSync ----------------------------
(***************************************************************************)
(* Drawings between the chart on screen and the server: the hook           *)
(* useDrawingServerPersistence of apps/client/src/hooks/drawing/ as        *)
(* ChartContainer uses it, and the routes of                               *)
(* apps/server/src/routes/drawings.ts it calls, for one user with one tab. *)
(*                                                                         *)
(* A save is a GET, a DELETE per row found and a POST per drawing; each    *)
(* request is one action, taken when the server executes it, and anything  *)
(* may happen between two of them.  A load is asked for, served and        *)
(* arrives.  The chart is taken off the screen while market data is        *)
(* fetched (ChartMainContent), so every change of symbol or timeframe is   *)
(* an Unmount and a Mount, and the answer to a load of the unmounted chart *)
(* goes nowhere; its saves go on.                                          *)
(*                                                                         *)
(* A chart is a symbol with a timeframe.  A drawing is what the user drew, *)
(* and an edited drawing is another one; each is drawn on one chart.  The  *)
(* ids of the client are left out: the list on screen is a bag.            *)
(***************************************************************************)
EXTENDS Integers, FiniteSets

CONSTANTS
    Charts,     \* symbol and timeframe
    None,       \* no chart on screen
    Drawings,   \* the drawings, by content
    HomeOf,     \* HomeOf[d]: the chart d is drawn on
    Ids,        \* BOUND: row ids in use at a time
    Slots,      \* BOUND: saves in flight at a time
    Worlds      \* the sets of hitches to consider, see below

(***************************************************************************)
(* What the world may do to the client:                                    *)
(*   slow       a load takes longer than the delay of the autosave         *)
(*   overlap    a save takes longer than the delay of the next one         *)
(*   loadfails  a request of a load fails                                  *)
(*   savefails  a request of a save fails                                  *)
(*   hasty      the user draws before the load is done, and leaves the     *)
(*              chart, signs out or closes the tab before the save is      *)
(***************************************************************************)
AllHitches == {"slow", "overlap", "loadfails", "savefails", "hasty"}

ASSUME SyncAssumption ==
    /\ None \notin Charts
    /\ HomeOf \in [Drawings -> Charts]
    /\ Worlds \subseteq SUBSET AllHitches

VARIABLES
    hitches,  \* the world we are in
    chart,    \* the chart on screen
    tools,    \* state.tools: the copies of each drawing on screen
    armed,    \* the timeout of the autosave is set
    load,     \* the load of the chart on screen
    saves,    \* the calls of saveToServer being awaited
    rows,     \* the rows of the table drawing_tools
    kept,     \* what the user has drawn and has not deleted
    resting   \* the user has stopped

vars == <<hitches, chart, tools, armed, load, saves, rows, kept, resting>>

Bags == [Drawings -> Nat]

Nothing == [d \in Drawings |-> 0]

Loads == [phase : {"none", "asked", "served"}, got : Bags]

NoLoad == [phase |-> "none", got |-> Nothing]

Rows == [id : Ids, chart : Charts, drawing : Drawings]

\* saveToServer between two requests: dels and adds are still to be sent.
Saves == [phase : {"none", "get", "replace"}, chart : Charts \cup {None},
          dels : SUBSET Ids, adds : Bags]

NoSave == [phase |-> "none", chart |-> None, dels |-> {}, adds |-> Nothing]

TypeOK ==
    /\ hitches \in Worlds
    /\ chart \in Charts \cup {None}
    /\ tools \in Bags
    /\ armed \in BOOLEAN
    /\ load \in Loads
    /\ chart = None => tools = Nothing /\ ~armed /\ load = NoLoad
    /\ saves \in [Slots -> Saves]
    /\ rows \in SUBSET Rows
    /\ kept \in SUBSET Drawings
    /\ resting \in BOOLEAN

Init ==
    /\ hitches \in Worlds
    /\ chart = None
    /\ tools = Nothing
    /\ armed = FALSE
    /\ load = NoLoad
    /\ saves = [i \in Slots |-> NoSave]
    /\ rows = {}
    /\ kept = {}
    /\ resting = FALSE

-----------------------------------------------------------------------------
Saving == \E i \in Slots : saves[i].phase # "none"

\* Nothing is under way and the last change has been sent.
Settled == ~armed /\ load.phase = "none" /\ ~Saving

RowsOf(ch) == {r \in rows : r.chart = ch}

\* What GET /drawings/:symbol answers.
Stored(ch) == [d \in Drawings |-> Cardinality({r \in RowsOf(ch) : r.drawing = d})]

FreeIds == Ids \ ({r.id : r \in rows} \cup UNION {saves[i].dels : i \in Slots})

\* A drawing of the chart on screen that is nowhere yet.
Fresh(d) ==
    /\ chart = HomeOf[d]
    /\ d \notin kept
    /\ tools[d] = 0
    /\ load.got[d] = 0
    /\ \A r \in rows : r.drawing # d
    /\ \A i \in Slots : saves[i].adds[d] = 0

MayEdit ==
    /\ ~resting
    /\ chart # None
    /\ "hasty" \in hitches \/ load.phase = "none"

MayLeave == ~resting /\ ("hasty" \in hitches \/ Settled)

-----------------------------------------------------------------------------
\* The chart appears: the list is empty, and both effects run, the one that
\* arms the autosave and the one that asks for the drawings.
Mount(ch) ==
    /\ ~resting
    /\ chart = None
    /\ chart' = ch
    /\ armed' = TRUE
    /\ load' = [NoLoad EXCEPT !.phase = "asked"]
    /\ UNCHANGED <<hitches, tools, saves, rows, kept, resting>>

\* Mutant: the effect does not clear its timeout.
Unmount_KeepTimer ==
    /\ MayLeave
    /\ chart # None
    /\ chart' = None
    /\ tools' = Nothing
    /\ load' = NoLoad
    /\ UNCHANGED <<hitches, armed, saves, rows, kept, resting>>

\* The chart goes: the timeout is cleared, the list is gone, and what the load
\* answers is dropped.
Unmount ==
    /\ MayLeave
    /\ chart # None
    /\ chart' = None
    /\ tools' = Nothing
    /\ armed' = FALSE
    /\ load' = NoLoad
    /\ UNCHANGED <<hitches, saves, rows, kept, resting>>

\* The tab is closed, or the session ends and the requests are refused: the
\* saves stop where they are.
CloseTab ==
    /\ MayLeave
    /\ chart' = None
    /\ tools' = Nothing
    /\ armed' = FALSE
    /\ load' = NoLoad
    /\ saves' = [i \in Slots |-> NoSave]
    /\ UNCHANGED <<hitches, rows, kept, resting>>

\* ADD_TOOL.  Every change of the list arms the autosave anew.
Draw(d) ==
    /\ MayEdit
    /\ Fresh(d)
    /\ tools' = [tools EXCEPT ![d] = 1]
    /\ armed' = TRUE
    /\ kept' = kept \cup {d}
    /\ UNCHANGED <<hitches, chart, load, saves, rows, resting>>

\* UPDATE_TOOL: d becomes e.
Change(d, e) ==
    /\ MayEdit
    /\ tools[d] > 0
    /\ Fresh(e)
    /\ tools' = [tools EXCEPT ![d] = @ - 1, ![e] = 1]
    /\ armed' = TRUE
    /\ kept' = (kept \ {d}) \cup {e}
    /\ UNCHANGED <<hitches, chart, load, saves, rows, resting>>

\* Mutant: the autosave skips an empty list.
Erase_LastUnsaved(d) ==
    /\ MayEdit
    /\ tools[d] > 0
    /\ tools' = [tools EXCEPT ![d] = @ - 1]
    /\ armed' = (tools' # Nothing)
    /\ kept' = kept \ {d}
    /\ UNCHANGED <<hitches, chart, load, saves, rows, resting>>

\* DELETE_TOOL
Erase(d) ==
    /\ MayEdit
    /\ tools[d] > 0
    /\ tools' = [tools EXCEPT ![d] = @ - 1]
    /\ armed' = TRUE
    /\ kept' = kept \ {d}
    /\ UNCHANGED <<hitches, chart, load, saves, rows, resting>>

\* The user does nothing more.
Rest ==
    /\ ~resting
    /\ resting' = TRUE
    /\ UNCHANGED <<hitches, chart, tools, armed, load, saves, rows, kept>>

-----------------------------------------------------------------------------
\* GET of loadFromServer is executed.
ServeLoad ==
    /\ load.phase = "asked"
    /\ load' = [phase |-> "served", got |-> Stored(chart)]
    /\ UNCHANGED <<hitches, chart, tools, armed, saves, rows, kept, resting>>

\* Its answer arrives and replaces the list on screen, which arms the autosave.
FinishLoad ==
    /\ load.phase = "served"
    /\ tools' = load.got
    /\ armed' = TRUE
    /\ load' = NoLoad
    /\ UNCHANGED <<hitches, chart, saves, rows, kept, resting>>

\* It fails, and loadFromServer returns an empty list, which is loaded.
FailLoad ==
    /\ "loadfails" \in hitches
    /\ load.phase # "none"
    /\ tools' = Nothing
    /\ armed' = TRUE
    /\ load' = NoLoad
    /\ UNCHANGED <<hitches, chart, saves, rows, kept, resting>>

-----------------------------------------------------------------------------
\* The timeout fires: saveToServer starts with the list and chart of now.
StartSave(i) ==
    /\ armed
    /\ "slow" \in hitches \/ load.phase = "none"
    /\ "overlap" \in hitches \/ ~Saving
    /\ saves[i].phase = "none"
    /\ armed' = FALSE
    /\ saves' = [saves EXCEPT ![i] = [phase |-> "get", chart |-> chart,
                                      dels |-> {}, adds |-> tools]]
    /\ UNCHANGED <<hitches, chart, tools, load, rows, kept, resting>>

\* saveToServer is over when nothing is left to be sent.
Proceed(s) == IF s.dels = {} /\ s.adds = Nothing THEN NoSave ELSE s

\* Mutant: the rows are listed without regard to the chart.
SaveGet_AllRows(i) ==
    /\ saves[i].phase = "get"
    /\ saves' = [saves EXCEPT ![i] =
                   Proceed([saves[i] EXCEPT !.phase = "replace",
                                     !.dels = {r.id : r \in rows}])]
    /\ UNCHANGED <<hitches, chart, tools, armed, load, rows, kept, resting>>

SaveGet(i) ==
    /\ saves[i].phase = "get"
    /\ saves' = [saves EXCEPT ![i] =
                   Proceed([saves[i] EXCEPT !.phase = "replace",
                                     !.dels = {r.id : r \in RowsOf(saves[i].chart)}])]
    /\ UNCHANGED <<hitches, chart, tools, armed, load, rows, kept, resting>>

\* DELETE /drawings/:id; of a row that is gone it answers 404 and the save ends.
SaveDelete(i, id) ==
    /\ saves[i].phase = "replace"
    /\ id \in saves[i].dels
    /\ rows' = {r \in rows : r.id # id}
    /\ saves' = [saves EXCEPT ![i] =
                   IF rows' # rows THEN Proceed([saves[i] EXCEPT !.dels = @ \ {id}])
                                   ELSE NoSave]
    /\ UNCHANGED <<hitches, chart, tools, armed, load, kept, resting>>

\* Mutant: setIsSaving(false) arms the autosave again when the save is over.
SaveCreate_Rearms(i, d) ==
    /\ saves[i].phase = "replace"
    /\ saves[i].dels = {}
    /\ saves[i].adds[d] > 0
    /\ FreeIds # {}
    /\ rows' = rows \cup {[id |-> CHOOSE id \in FreeIds : TRUE,
                           chart |-> saves[i].chart, drawing |-> d]}
    /\ saves' = [saves EXCEPT ![i] = Proceed([saves[i] EXCEPT !.adds[d] = @ - 1])]
    /\ armed' = (armed \/ (chart # None /\ saves'[i].phase = "none"))
    /\ UNCHANGED <<hitches, chart, tools, load, kept, resting>>

\* Mutant: the row goes under the chart on screen by now.
SaveCreate_OnScreen(i, d) ==
    /\ chart # None
    /\ saves[i].phase = "replace"
    /\ saves[i].dels = {}
    /\ saves[i].adds[d] > 0
    /\ FreeIds # {}
    /\ rows' = rows \cup {[id |-> CHOOSE id \in FreeIds : TRUE,
                           chart |-> chart, drawing |-> d]}
    /\ saves' = [saves EXCEPT ![i] = Proceed([saves[i] EXCEPT !.adds[d] = @ - 1])]
    /\ UNCHANGED <<hitches, chart, tools, armed, load, kept, resting>>

\* POST /drawings, once every row listed is deleted.
SaveCreate(i, d) ==
    /\ saves[i].phase = "replace"
    /\ saves[i].dels = {}
    /\ saves[i].adds[d] > 0
    /\ FreeIds # {}
    /\ rows' = rows \cup {[id |-> CHOOSE id \in FreeIds : TRUE,
                           chart |-> saves[i].chart, drawing |-> d]}
    /\ saves' = [saves EXCEPT ![i] = Proceed([saves[i] EXCEPT !.adds[d] = @ - 1])]
    /\ UNCHANGED <<hitches, chart, tools, armed, load, kept, resting>>

\* A request fails, before or after it was executed, and nothing more is sent.
FailSave(i) ==
    /\ "savefails" \in hitches
    /\ saves[i].phase # "none"
    /\ saves' = [saves EXCEPT ![i] = NoSave]
    /\ UNCHANGED <<hitches, chart, tools, armed, load, rows, kept, resting>>

-----------------------------------------------------------------------------
LoadStep == ServeLoad \/ FinishLoad \/ FailLoad

SaveStep(i) ==
    \/ SaveGet(i)
    \/ \E id \in Ids : SaveDelete(i, id)
    \/ \E d \in Drawings : SaveCreate(i, d)
    \/ FailSave(i)

Next ==
    \/ \E ch \in Charts : Mount(ch)
    \/ Unmount
    \/ CloseTab
    \/ \E d \in Drawings : Draw(d) \/ Erase(d)
    \/ \E d, e \in Drawings : Change(d, e)
    \/ Rest
    \/ LoadStep
    \/ \E i \in Slots : StartSave(i) \/ SaveStep(i)

Spec == Init /\ [][Next]_vars

(***************************************************************************)
(* Requests are answered.  The timeout fires once the user rests: as long  *)
(* as the list keeps changing it is set anew.                              *)
(***************************************************************************)
Fairness ==
    /\ WF_vars(LoadStep)
    /\ \A i \in Slots : WF_vars(SaveStep(i))
    /\ WF_vars(resting /\ \E i \in Slots : StartSave(i))

FairSpec == Spec /\ Fairness

-----------------------------------------------------------------------------
\* "symbol-based storage": whatever is slow, fails, overlaps or is left half
\* done, no drawing is ever stored under a chart it was not drawn on, nor shown
\* on one.
HomeKept ==
    /\ \A r \in rows : HomeOf[r.drawing] = r.chart
    /\ \A d \in Drawings : tools[d] > 0 => HomeOf[d] = chart

\* When the autosave has come to rest the rows of the chart are what is on
\* screen, if no save fails or overlaps another: even if the load was slow or
\* failed, and if earlier saves were cut off by closing the tab.
SettledIsSaved ==
    (hitches \cap {"overlap", "savefails"} = {} /\ Settled /\ chart # None)
    => Stored(chart) = tools

\* When everything has come to rest, the table holds what the user drew and did
\* not delete, once, in the worlds whose hitches are among H.
KeptDespite(H) ==
    (hitches \subseteq H /\ Settled)
    => \A d \in Drawings : Cardinality({r \in rows : r.drawing = d})
                              = (IF d \in kept THEN 1 ELSE 0)

\* With a patient user and a quick, reliable server nothing is lost, doubled or
\* brought back by replacing all the rows of a chart again and again.
NothingLost == KeptDespite({})

\* "Automatically saves and restores drawing tools": the same when a load
\* fails.
LoadFailureLosesNothing == KeptDespite({"loadfails"})

\* Once the user rests the autosave comes to rest too: loading arms it once
\* more, but saving must not, or it would save for ever.
AutosaveRests == resting ~> []Settled
=============================================================================
