----------------------------- MODULE ChartEdits -----------------------------
(***************************************************************************)
(* The commands of the client and what their undo gives back: the drawing, *)
(* chart and preference commands and the two kinds of batch                *)
(* (apps/client/src/commands), run by the history of CommandInvoker.       *)
(*                                                                         *)
(* A chart is a set of items, the drawings and indicators, each named by   *)
(* the command that made it and how many times that command had run (a     *)
(* create makes a new id every time), and one item for the settings and    *)
(* preferences, which is always there.  The value of an item is the        *)
(* command that wrote it last.  Commands change the chart between awaits,  *)
(* and only commands do, so the work of one is put where its await ends.   *)
(* The contexts they work on are interfaces without an implementation: any *)
(* of their functions may throw, having done nothing, and none says what   *)
(* adding an item does while one with its id is there. A drawing's delete  *)
(* catches what removeDrawingTool throws: it then is a success like any    *)
(* other, with the drawing still there.                                    *)
(*                                                                         *)
(* Left out are a ChartSettingsCommand with `indicators`, which replaces   *)
(* every indicator at once and whose undo puts the old ones back, and the  *)
(* formats of preferences.                                                 *)
(***************************************************************************)
EXTENDS CommandInvoker

CONSTANTS
    KindOf,    \* what each command does
    PartsOf,   \* the commands of a batch, in order
    MaxMade    \* BOUND: how often one command is executed

\* A drawing is deleted and an indicator removed; both are made, updated, set alike.
Kinds == {"create", "update", "delete", "remove", "set", "batch", "plain_batch"}

Batches == {c \in Commands : KindOf[c] \in {"batch", "plain_batch"}}

\* The commands a user gives to the invoker: those of no batch.
TopLevel == {c \in Commands : \A b \in Batches : \A i \in DOMAIN PartsOf[b] :
                                    PartsOf[b][i] # c}

\* The factories make a new object per call, so a command stands in one place; all
\* commands of these kinds are made with canUndo set.
ASSUME EditsAssumption ==
    /\ KindOf \in [Commands -> Kinds]
    /\ TopLevel \subseteq Undoable
    /\ PartsOf \in [Commands -> Seq(Commands \ Batches)]
    /\ \A b, c \in Batches : \A i \in DOMAIN PartsOf[b], j \in DOMAIN PartsOf[c] :
          PartsOf[b][i] = PartsOf[c][j] => b = c /\ i = j
    /\ MaxMade \in Nat \ {0}

VARIABLES
    chart,    \* the items of the chart and their values
    target,   \* the id an update or delete was made with
    memo,     \* what captureState kept: the value written over or deleted
    made,     \* how often each command has been executed
    before,   \* the chart before the first execution of a command
    after,    \* and after it
    spoiled,  \* work was left half done where undo cannot see it
    hidden,   \* a delete of the history has hidden that its drawing stayed
    twice     \* an item was added while one with its id was there

editVars == <<chart, target, memo, made, before, after, spoiled, hidden, twice>>
allVars == <<history, currentIndex, pending, executed, aged, chart, target,
             memo, made, before, after, spoiled, hidden, twice>>

\* The one item no command makes.
Settings == <<None, 0>>

Ids == (Commands \X (1..MaxMade)) \cup {Settings}

\* The chart with each item named by its maker: what the user sees of it.
View(d) == [c \in {i[1] : i \in DOMAIN d} |->
               d[CHOOSE i \in DOMAIN d : i[1] = c]]

EditsTypeOK ==
    /\ TypeOK
    /\ DOMAIN chart \subseteq Ids
    /\ Settings \in DOMAIN chart
    /\ \A i \in DOMAIN chart : chart[i] \in Commands \cup {None}
    /\ target \in [Commands -> Ids]
    /\ memo \in [Commands -> Commands \cup {None}]
    /\ made \in [Commands -> 0..MaxMade]
    /\ spoiled \in BOOLEAN
    /\ hidden \in BOOLEAN
    /\ twice \in BOOLEAN

EmptyChart == [i \in {Settings} |-> None]

EditsInit ==
    /\ Init
    /\ chart = EmptyChart
    /\ target = [c \in Commands |-> Settings]
    /\ memo = [c \in Commands |-> None]
    /\ made = [c \in Commands |-> 0]
    /\ before = [c \in Commands |-> View(EmptyChart)]
    /\ after = [c \in Commands |-> View(EmptyChart)]
    /\ spoiled = FALSE
    /\ hidden = FALSE
    /\ twice = FALSE

-----------------------------------------------------------------------------
Put(d, i, v) == [j \in DOMAIN d \cup {i} |-> IF j = i THEN v ELSE d[j]]

Drop(d, i) == [j \in DOMAIN d \ {i} |-> d[j]]

\* The commands made with the id of an item.
Pointing(c) == KindOf[c] \in {"update", "delete", "remove"}

\* validate(): a command that names an item is refused when it is not there.
Valid(d, c) == Pointing(c) => target[c] \in DOMAIN d

\* The state a command works on and its own memory.
State == [chart |-> chart, memo |-> memo, made |-> made, twice |-> twice]

\* The id a create has given, or gives next.
CreatedId(e, c) == <<c, e.made[c]>>
NextId(e, c) == <<c, e.made[c] + 1>>

\* captureState and doExecute: a create makes an item, an update and a change of
\* the settings write over one, a delete takes one away.
Counted(e, c) == [e.made EXCEPT ![c] = @ + 1]
Captured(e, c) == [e.memo EXCEPT ![c] = e.chart[target[c]]]

Create(e, c) ==
    [chart |-> Put(e.chart, NextId(e, c), c), memo |-> e.memo, made |-> Counted(e, c),
     twice |-> e.twice]

Overwrite(e, c) ==
    [chart |-> Put(e.chart, target[c], c), memo |-> Captured(e, c), made |-> Counted(e, c),
     twice |-> e.twice]

\* In `stays` are the drawings' deletes whose removal throws: nobody is told.
Delete(e, c, stays) ==
    [chart |-> IF c \in stays THEN e.chart ELSE Drop(e.chart, target[c]),
     memo |-> Captured(e, c), made |-> Counted(e, c), twice |-> e.twice]

ExecuteOne(e, c, stays) ==
    CASE KindOf[c] = "create" -> Create(e, c)
      [] KindOf[c] \in {"update", "set"} -> Overwrite(e, c)
      [] KindOf[c] \in {"delete", "remove"} -> Delete(e, c, stays)

\* What was deleted is added again, as it was, whether it is there or not.
AddBack(e, i, v) ==
    [chart |-> Put(e.chart, i, v), memo |-> e.memo, made |-> e.made,
     twice |-> e.twice \/ i \in DOMAIN e.chart]

\* Mutant: a create only knows the id of its first execution.
UndoOne_FirstId(e, c) ==
    CASE KindOf[c] = "create" -> [e EXCEPT !.chart = Drop(@, <<c, 1>>)]
      [] KindOf[c] \in {"update", "set"} ->
           IF target[c] \in DOMAIN e.chart
           THEN [e EXCEPT !.chart = Put(@, target[c], e.memo[c])] ELSE e
      [] KindOf[c] \in {"delete", "remove"} -> AddBack(e, target[c], e.memo[c])

\* Mutant: a deleted item comes back with an id of its own.
UndoOne_OtherId(e, c) ==
    CASE KindOf[c] = "create" -> [e EXCEPT !.chart = Drop(@, CreatedId(e, c))]
      [] KindOf[c] \in {"update", "set"} ->
           IF target[c] \in DOMAIN e.chart
           THEN [e EXCEPT !.chart = Put(@, target[c], e.memo[c])] ELSE e
      [] KindOf[c] \in {"delete", "remove"} -> AddBack(e, <<c, 1>>, e.memo[c])

\* doUndo of one command.
UndoOne(e, c) ==
    CASE KindOf[c] = "create" -> [e EXCEPT !.chart = Drop(@, CreatedId(e, c))]
      [] KindOf[c] \in {"update", "set"} ->
           IF target[c] \in DOMAIN e.chart
           THEN [e EXCEPT !.chart = Put(@, target[c], e.memo[c])] ELSE e
      [] KindOf[c] \in {"delete", "remove"} -> AddBack(e, target[c], e.memo[c])

-----------------------------------------------------------------------------
\* One more part of b, unless the batch has stopped, it is refused, or it is the
\* k-th and throws.  A part that hides its error is one that has run.
RunPart(run, b, k, i, stays) ==
    IF run.ok /\ i # k /\ Valid(run.state.chart, PartsOf[b][i])
    THEN [state |-> ExecuteOne(run.state, PartsOf[b][i], stays), ran |-> i, ok |-> TRUE]
    ELSE [run EXCEPT !.ok = FALSE]

\* The parts of b in order: what is done, how many parts, and whether all of them.
RunParts(e, b, k, stays) ==
    LET run[i \in 0..Len(PartsOf[b])] ==
            IF i = 0 THEN [state |-> e, ran |-> 0, ok |-> TRUE]
                     ELSE RunPart(run[i - 1], b, k, i, stays)
    IN  run[Len(PartsOf[b])]

\* One part of b undone, if its undo does not throw (each error is caught).
UndoPart(s, b, i, stuck) == IF i \in stuck THEN s ELSE UndoOne(s, PartsOf[b][i])

\* Mutant: the parts are undone in the order they were executed.
UndoParts_Forward(e, b, n, stuck) ==
    LET undone[i \in 0..n] ==
            IF i = 0 THEN e ELSE UndoPart(undone[i - 1], b, i, stuck)
    IN  undone[n]

\* The first n parts of b undone, the last one first, but for those in `stuck`.  The
\* undo of a drawing batch awaits none of its parts, so that what one of them throws
\* is seen by nobody; that of a chart batch catches it.
UndoParts(e, b, n, stuck) ==
    LET undone[i \in 0..n] ==
            IF i = 0 THEN e ELSE UndoPart(undone[i - 1], b, n + 1 - i, stuck)
    IN  undone[n]

\* Nothing is done when a command is refused or when it throws and says so.
Refused(e) == [state |-> e, ok |-> FALSE, half |-> FALSE, hidden |-> FALSE]

\* What execute() of one command can come to.
ExecuteSingle(e, c, stays) ==
    {Refused(e)} \cup
    (IF Valid(e.chart, c)
     THEN {[state |-> ExecuteOne(e, c, stays), ok |-> TRUE, half |-> FALSE,
            hidden |-> c \in stays]} ELSE {})

\* Whether one of the first n parts of b has hidden its error.
Hid(b, n, stays) == \E i \in 1..n : PartsOf[b][i] \in stays

\* Mutant: a failed batch is left as it is.
ExecuteBatch_NoRollback(e, b, stays) ==
    IF \A i \in DOMAIN PartsOf[b] : Valid(e.chart, PartsOf[b][i])
    THEN {LET run == RunParts(e, b, k, stays)
          IN  [state |-> run.state, ok |-> run.ok, half |-> FALSE,
               hidden |-> Hid(b, run.ran, stays)] : k \in 0..Len(PartsOf[b])}
    ELSE {Refused(e)}

\* BatchDrawingCommand and BatchChartCommand: all parts are validated first; a
\* batch that fails undoes what it did, as far as those undos do not throw.
ExecuteBatch(e, b, stays) ==
    IF \A i \in DOMAIN PartsOf[b] : Valid(e.chart, PartsOf[b][i])
    THEN {LET run == RunParts(e, b, k, stays)
          IN  [state |-> IF run.ok THEN run.state
                                   ELSE UndoParts(run.state, b, run.ran, stuck),
               ok |-> run.ok,
               half |-> ~run.ok /\ stuck \cap 1..run.ran # {},
               hidden |-> Hid(b, run.ran, stays)] :
             k \in 0..Len(PartsOf[b]), stuck \in SUBSET (DOMAIN PartsOf[b])}
    ELSE {Refused(e)}

\* BatchCommand of createBatchCommand: no rollback.
ExecutePlainBatch(e, b, stays) ==
    IF \A i \in DOMAIN PartsOf[b] : Valid(e.chart, PartsOf[b][i])
    THEN {LET run == RunParts(e, b, k, stays)
          IN  [state |-> run.state, ok |-> run.ok, half |-> ~run.ok /\ run.ran > 0,
               hidden |-> Hid(b, run.ran, stays)] : k \in 0..Len(PartsOf[b])}
    ELSE {Refused(e)}

Leaves(c) == IF c \in Batches THEN {PartsOf[c][i] : i \in DOMAIN PartsOf[c]} ELSE {c}

\* The commands of c that hide the error of a removal that throws.
Hiding(c) == {p \in Leaves(c) : KindOf[p] = "delete"}

\* What execute() can come to, and what a redo comes to as well, since an undone
\* command is one that redo() executes.
Outcomes(e, c) ==
    UNION {CASE KindOf[c] = "batch" -> ExecuteBatch(e, c, stays)
             [] KindOf[c] = "plain_batch" -> ExecutePlainBatch(e, c, stays)
             [] OTHER -> ExecuteSingle(e, c, stays) : stays \in SUBSET Hiding(c)}

-----------------------------------------------------------------------------
\* The user gives c to the invoker, made with the ids of items that are there.
Start(c) ==
    LET pointing == {p \in Leaves(c) : Pointing(p)}
    IN  /\ c \in TopLevel
        /\ \A p \in Leaves(c) : made[p] = 0
        /\ StartExecute(c)
        /\ \E f \in [pointing -> DOMAIN chart \ {Settings}] :
              target' = [p \in Commands |-> IF p \in pointing THEN f[p] ELSE target[p]]
        /\ UNCHANGED <<chart, memo, made, before, after, spoiled, hidden, twice>>

Apply(e) ==
    /\ chart' = e.chart
    /\ memo' = e.memo
    /\ made' = e.made
    /\ twice' = e.twice

\* f without what belonged to commands that nothing refers to after this step.
Reachable(f, blank) ==
    LET roots == {history'[i].command : i \in DOMAIN history'} \cup {pending'.command}
        live == UNION {Leaves(c) \cup {c} : c \in roots}
    IN  [c \in Commands |-> IF c \in live THEN f[c] ELSE blank]

\* What commands remember is kept as long as they are.
Keep(b, a, m) ==
    /\ before' = Reachable(b, View(EmptyChart))
    /\ after' = Reachable(a, View(EmptyChart))
    /\ memo' = Reachable(m, None)
    /\ target' = Reachable(target, Settings)

\* The await of an execute ends; half of a batch may be left on the chart, with a
\* failed entry in the history.
Executed ==
    /\ pending.op = "execute"
    /\ \E o \in Outcomes(State, pending.command) :
        /\ FinishExecute(o.ok)
        /\ chart' = o.state.chart
        /\ made' = o.state.made
        /\ twice' = o.state.twice
        /\ hidden' = (hidden \/ o.hidden)
        /\ Keep([before EXCEPT ![pending.command] = View(chart)],
                [after EXCEPT ![pending.command] = View(o.state.chart)], o.state.memo)
        /\ UNCHANGED spoiled

\* Of an undo, which throws (a single command), or leaves the parts that do.
Undone ==
    LET c == pending.command
    IN  \/ /\ FinishUndo(FALSE)
           /\ c \notin Batches \cap executed
           /\ UNCHANGED editVars
        \/ /\ pending.op = "undo"
           /\ c \in executed
           /\ \E stuck \in IF c \in Batches THEN SUBSET (DOMAIN PartsOf[c]) ELSE {{}} :
                 /\ Apply(IF c \in Batches
                          THEN UndoParts(State, c, Len(PartsOf[c]), stuck)
                          ELSE UndoOne(State, c))
                 /\ spoiled' = (spoiled \/ stuck # {})
           /\ FinishUndo(TRUE)
           /\ UNCHANGED <<target, before, after, hidden>>

\* Of a redo; half a batch done and then refused leaves the entry undone.
Redone ==
    /\ pending.op = "redo"
    /\ \E o \in Outcomes(State, pending.command) :
        /\ FinishRedo(o.ok)
        /\ Apply(o.state)
        /\ spoiled' = (spoiled \/ o.half)
        /\ hidden' = (hidden \/ o.hidden)
        /\ UNCHANGED <<target, before, after>>

\* cleanupHistory drops old entries, undone ones too: what is redone after that
\* is redone without them.
Clean ==
    /\ CleanupHistory
    /\ spoiled' = (spoiled \/ \E i \in 1..(Len(history) - Len(history')) :
                                 history[i].undone)
    /\ Keep(before, after, memo)
    /\ UNCHANGED <<chart, made, hidden, twice>>

\* clearHistory; a command under way is not forgotten with its entry.
Clear ==
    /\ ClearHistory
    /\ hidden' = (hidden /\ isExecuting)
    /\ Keep(before, after, memo)
    /\ UNCHANGED <<chart, made, spoiled, twice>>

\* Once work is left half done, or an item is added twice, nothing is promised, and
\* nothing is followed up.
EditsNext ==
    /\ ~spoiled
    /\ ~twice
    /\ \/ \E c \in Commands : Start(c)
       \/ Executed
       \/ Undone
       \/ Redone
       \/ /\ StartUndo
          /\ UNCHANGED editVars
       \/ /\ StartRedo
          /\ \A p \in Leaves(Following.command) : made[p] < MaxMade
          /\ UNCHANGED editVars
       \/ Clean
       \/ Clear
       \/ /\ ~isExecuting   \* age only matters to CleanupHistory
          /\ \E k \in Indices : GrowOld(aged \cup {history[i].command : i \in 1..k})
          /\ UNCHANGED editVars

EditsSpec == EditsInit /\ [][EditsNext]_allVars

-----------------------------------------------------------------------------
(***************************************************************************)
(* Properties.                                                             *)
(***************************************************************************)

\* The entries that are done: those after them are undone.
Done == IF history = <<>> THEN 0 ELSE currentIndex + 1

\* The last entry whose command failed: undo stops there.
LastFailed ==
    CHOOSE n \in 0..Len(history) :
        /\ n = 0 \/ ~history[n].success
        /\ \A i \in (n + 1)..Len(history) : history[i].success

Past == [i \in 1..(Done - LastFailed) |-> before[history[LastFailed + i].command]]

Future == [i \in 1..(Len(history) - Done) |-> after[history[Done + i].command]]

Stack == INSTANCE UndoStack WITH
             InitialChart <- View(EmptyChart),
             chart <- View(chart),
             past <- IF spoiled \/ hidden THEN <<>> ELSE Past,
             future <- IF spoiled \/ hidden THEN <<>> ELSE Future

\* The commands and their history implement the abstract undo stack: every undo
\* gives back the chart as it was before the last edit and every redo the chart
\* as it was after, although a redone create makes a drawing with another id,
\* commands fail and batches roll back, until a batch is left half done or a
\* drawing's delete has hidden that the drawing stayed.
ImplementsUndoStack == Stack!Spec

\* Each create has at most one item on the chart, and has none while it is undone:
\* undo, redo, delete and rollback neither lose nor double a drawing.  A delete that
\* has hidden its error is exempt from the last: its undo does add the drawing twice.
OneItemPerCreate ==
    ~spoiled =>
        /\ \A c \in Commands : KindOf[c] = "create" =>
            /\ \A i, j \in DOMAIN chart : i[1] = c /\ j[1] = c => i = j
            /\ (\E h \in DOMAIN history : history[h].command = c /\ history[h].undone)
                  => \A i \in DOMAIN chart : i[1] # c
        /\ twice => hidden

\* An update or delete that can be undone was made with an id that undo still
\* means: the item is there (for an update) or is not (for a delete that did not
\* hide an error), so its undo neither does nothing nor overwrites a drawing.
UndoFindsItsItem ==
    (~spoiled /\ ~twice /\ canUndo /\ ~isExecuting) =>
        LET c == Current.command
        IN  CASE KindOf[c] = "update" -> target[c] \in DOMAIN chart
              [] KindOf[c] \in {"delete", "remove"} ->
                     target[c] \notin DOMAIN chart \/ hidden
              [] KindOf[c] = "create" -> CreatedId(State, c) \in DOMAIN chart
              [] OTHER -> TRUE

\* The redo of a drawing batch that fails half way leaves the chart as it was, when
\* the undos of its parts do not throw and none of its deletes hid that its drawing
\* stayed: nobody sees half of it, nor a drawing twice.
FailedBatchLeavesNothing ==
    [][(pending.op = "redo" /\ pending' = Idle /\ KindOf[pending.command] = "batch"
            /\ pending.command \notin executed' /\ ~spoiled' /\ ~hidden')
       => chart' = chart /\ ~twice']_allVars
=============================================================================
