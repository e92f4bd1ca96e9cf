--------------------------- MODULE CommandInvoker ---------------------------
(***************************************************************************)
(* The undo/redo history of the client: class CommandInvoker of            *)
(* apps/client/src/commands/CommandInvoker.ts with the flags BaseCommand   *)
(* keeps (apps/client/src/commands/BaseCommand.ts).                        *)
(*                                                                         *)
(* execute, undo and redo await the command, so each is a Start and a      *)
(* Finish action; isExecuting keeps a second one out, but clearHistory and *)
(* cleanupHistory do not look at it and may come in between.  The variants *)
(* executeSequence, executeParallel, executeWithTimeout and                *)
(* executeWithRetry change the history only through execute.               *)
(*                                                                         *)
(* A command is a model value; what it does to the chart is left out, its  *)
(* `executed` flag is kept.  Factories make a new command per call, so a   *)
(* command is executed once; a value that has left the history stands for  *)
(* a new object when it is used again.                                     *)
(***************************************************************************)
EXTENDS Integers, Sequences, FiniteSets

CONSTANTS
    Commands,         \* command objects
    Undoable,         \* those with canUndo
    None,             \* no command is being executed
    MaxHistorySize,   \* maxHistorySize (100 by default)
    CleanupWhileExecuting   \* whether callers clean up during an await

ASSUME InvokerAssumption ==
    /\ Undoable \subseteq Commands
    /\ None \notin Commands
    /\ MaxHistorySize \in Nat \ {0}
    /\ CleanupWhileExecuting \in BOOLEAN

VARIABLES
    history,       \* the entries, oldest first
    currentIndex,  \* as in the code: 0 is the first entry, -1 before it
    pending,       \* the operation being awaited (isExecuting)
    executed,      \* the commands whose `executed` flag is set
    aged           \* the commands older than the age cleanupHistory keeps

vars == <<history, currentIndex, pending, executed, aged>>

Entry == [command : Undoable, success : BOOLEAN, undone : BOOLEAN]

Idle == [op |-> "none", command |-> None]

Pending == {Idle} \cup [op : {"execute", "undo", "redo"}, command : Commands]

TypeOK ==
    /\ history \in Seq(Entry)
    /\ Len(history) <= MaxHistorySize
    /\ currentIndex \in -2..MaxHistorySize
    /\ pending \in Pending
    /\ executed \in SUBSET Commands
    /\ aged \in SUBSET Commands

Init ==
    /\ history = <<>>
    /\ currentIndex = -1
    /\ pending = Idle
    /\ executed = {}
    /\ aged = {}

-----------------------------------------------------------------------------
Indices == 1..Len(history)

isExecuting == pending # Idle

\* history[currentIndex] and history[currentIndex + 1] of the code.
Current == history[currentIndex + 1]
Following == history[currentIndex + 2]

canUndo ==
    /\ currentIndex >= 0
    /\ currentIndex < Len(history)
    /\ ~Current.undone
    /\ Current.success

canRedo ==
    /\ currentIndex >= -1
    /\ currentIndex + 1 < Len(history)
    /\ Following.undone
    /\ Following.success

\* Array.slice(0, n), where a negative n counts from the end.
SliceTo(s, n) ==
    SubSeq(s, 1, IF n >= 0 THEN (IF n < Len(s) THEN n ELSE Len(s)) ELSE Len(s) + n)

\* entry.undone = value, on the entry the operation has held since it started,
\* wherever it is now and whether or not it is still in the history.
MarkUndone(c, value) ==
    [i \in Indices |-> IF history[i].command = c
                       THEN [history[i] EXCEPT !.undone = value] ELSE history[i]]

\* Mutant: the undone entries after currentIndex are kept.
AddToHistory_KeepTail(c, ok) ==
    LET pushed == Append(history, [command |-> c, success |-> ok, undone |-> FALSE])
        excess == IF Len(pushed) > MaxHistorySize
                  THEN Len(pushed) - MaxHistorySize ELSE 0
    IN  /\ history' = SubSeq(pushed, excess + 1, Len(pushed))
        /\ currentIndex' = Len(pushed) - 1 - excess

\* Mutant: the size is checked before the push.
AddToHistory_LateTrim(c, ok) ==
    LET kept == IF currentIndex < Len(history) - 1
                THEN SliceTo(history, currentIndex + 1) ELSE history
        pushed == Append(kept, [command |-> c, success |-> ok, undone |-> FALSE])
        excess == IF Len(kept) > MaxHistorySize THEN 1 ELSE 0
    IN  /\ history' = SubSeq(pushed, excess + 1, Len(pushed))
        /\ currentIndex' = Len(pushed) - 1 - excess

\* The entries after currentIndex go, the new one is last and current, and the
\* oldest ones go when there are too many.
AddToHistory(c, ok) ==
    LET kept == IF currentIndex < Len(history) - 1
                THEN SliceTo(history, currentIndex + 1) ELSE history
        pushed == Append(kept, [command |-> c, success |-> ok, undone |-> FALSE])
        excess == IF Len(pushed) > MaxHistorySize
                  THEN Len(pushed) - MaxHistorySize ELSE 0
    IN  /\ history' = SubSeq(pushed, excess + 1, Len(pushed))
        /\ currentIndex' = Len(pushed) - 1 - excess

-----------------------------------------------------------------------------
\* execute(c) up to the await; it throws, changing nothing, when isExecuting.
StartExecute(c) ==
    /\ ~isExecuting
    /\ \A i \in Indices : history[i].command # c
    /\ pending' = [op |-> "execute", command |-> c]
    /\ executed' = executed \ {c}
    /\ aged' = aged \ {c}
    /\ UNCHANGED <<history, currentIndex>>

\* The command has done its work, or has thrown: both go into the history if
\* the command can be undone.
FinishExecute(ok) ==
    /\ pending.op = "execute"
    /\ executed' = IF ok THEN executed \cup {pending.command} ELSE executed
    /\ IF pending.command \in Undoable
       THEN AddToHistory(pending.command, ok)
       ELSE UNCHANGED <<history, currentIndex>>
    /\ pending' = Idle
    /\ UNCHANGED aged

StartUndo ==
    /\ canUndo
    /\ ~isExecuting
    /\ pending' = [op |-> "undo", command |-> Current.command]
    /\ UNCHANGED <<history, currentIndex, executed, aged>>

\* Mutant: the entry is marked and left behind although the undo failed.
FinishUndo_IgnoresFailure(ok) ==
    /\ pending.op = "undo"
    /\ executed' = IF ok THEN executed \ {pending.command} ELSE executed
    /\ history' = MarkUndone(pending.command, TRUE)
    /\ currentIndex' = currentIndex - 1
    /\ pending' = Idle
    /\ UNCHANGED aged

\* Mutant: currentIndex-- is forgotten.
FinishUndo_NoStepBack(ok) ==
    /\ pending.op = "undo"
    /\ IF ok /\ pending.command \in executed
       THEN /\ executed' = executed \ {pending.command}
            /\ history' = MarkUndone(pending.command, TRUE)
       ELSE UNCHANGED <<executed, history>>
    /\ pending' = Idle
    /\ UNCHANGED <<currentIndex, aged>>

\* BaseCommand.undo throws when the command is not executed, or when its
\* doUndo does; currentIndex is decremented from its value now.
FinishUndo(ok) ==
    /\ pending.op = "undo"
    /\ IF ok /\ pending.command \in executed
       THEN /\ executed' = executed \ {pending.command}
            /\ history' = MarkUndone(pending.command, TRUE)
            /\ currentIndex' = currentIndex - 1
       ELSE UNCHANGED <<executed, history, currentIndex>>
    /\ pending' = Idle
    /\ UNCHANGED aged

StartRedo ==
    /\ canRedo
    /\ ~isExecuting
    /\ pending' = [op |-> "redo", command |-> Following.command]
    /\ UNCHANGED <<history, currentIndex, executed, aged>>

FinishRedo(ok) ==
    /\ pending.op = "redo"
    /\ IF ok
       THEN /\ executed' = executed \cup {pending.command}
            /\ history' = MarkUndone(pending.command, FALSE)
            /\ currentIndex' = currentIndex + 1
       ELSE UNCHANGED <<executed, history, currentIndex>>
    /\ pending' = Idle
    /\ UNCHANGED aged

ClearHistory ==
    /\ history' = <<>>
    /\ currentIndex' = -1
    /\ UNCHANGED <<pending, executed, aged>>

\* Mutant: currentIndex keeps its value although the entries have moved.
CleanupHistory_KeepIndex ==
    /\ CleanupWhileExecuting \/ ~isExecuting
    /\ \E k \in 1..(Len(history) - 1) :
          /\ history[k + 1].command \notin aged
          /\ \A i \in 1..k : history[i].command \in aged
          /\ history' = SubSeq(history, k + 1, Len(history))
    /\ UNCHANGED <<currentIndex, pending, executed, aged>>

\* findIndex looks for the first entry young enough; those before it go.  When
\* there is none (-1) everything stays.
CleanupHistory ==
    /\ CleanupWhileExecuting \/ ~isExecuting
    /\ \E k \in 1..(Len(history) - 1) :
          /\ history[k + 1].command \notin aged
          /\ \A i \in 1..k : history[i].command \in aged
          /\ history' = SubSeq(history, k + 1, Len(history))
          /\ currentIndex' = IF currentIndex - k >= -1 THEN currentIndex - k ELSE -1
    /\ UNCHANGED <<pending, executed, aged>>

\* Time passes: the commands made before some moment are now too old.
GrowOld(S) ==
    /\ aged \subseteq S
    /\ aged' = S
    /\ UNCHANGED <<history, currentIndex, pending, executed>>

-----------------------------------------------------------------------------
Next ==
    \/ \E c \in Commands : StartExecute(c)
    \/ \E ok \in BOOLEAN : FinishExecute(ok) \/ FinishUndo(ok) \/ FinishRedo(ok)
    \/ StartUndo
    \/ StartRedo
    \/ ClearHistory
    \/ CleanupHistory
    \/ \E S \in SUBSET Commands : GrowOld(S)

Spec == Init /\ [][Next]_vars

-----------------------------------------------------------------------------
\* The entries up to currentIndex are the ones not undone: undo takes them from
\* the end and redo gives them back in order, whatever fails, is trimmed,
\* cleared or cleaned up in between.
HistoryShape ==
    \A i \in Indices : history[i].undone <=> i > currentIndex + 1

\* What the history says was done or undone is what the commands themselves
\* know: a successful entry is undone exactly when its command is not executed.
HistoryMatchesCommands ==
    \A i \in Indices :
        history[i].success => (history[i].undone <=> history[i].command \notin executed)

\* Undo is linear: of two successful commands in the history, the later one is
\* never in effect without the earlier one.
UndoIsLinear ==
    \A i, j \in Indices :
        (i < j /\ history[i].success /\ history[j].success
             /\ history[j].command \in executed)
        => history[i].command \in executed

\* What was undone and is still in the history can be redone.
UndoneCanBeRedone == (\E i \in Indices : history[i].undone) => canRedo

\* "Undo the last executed command": as long as a successful command of the
\* history is in effect, there is something to undo.
LastExecutedCanBeUndone ==
    (~isExecuting /\ \E i \in Indices : history[i].success
                                          /\ history[i].command \in executed)
    => canUndo

\* "Remove any commands after current index (they become invalid)": when a
\* command is added, no undone command is left in the history.
InvalidCommandsRemoved ==
    [][(pending.op = "execute" /\ pending' = Idle /\ pending.command \in Undoable)
       => \A i \in DOMAIN history' : ~history'[i].undone]_vars
=============================================================================
