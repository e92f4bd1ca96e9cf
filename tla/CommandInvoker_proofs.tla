------------------------ MODULE CommandInvoker_proofs ------------------------
(***************************************************************************)
(* Proofs about CommandInvoker, for every set of commands and every size   *)
(* of the history, as long as nobody calls cleanupHistory while a command  *)
(* is awaited.  clearHistory may come at any time.                         *)
(***************************************************************************)
EXTENDS CommandInvoker, SequenceTheorems, TLAPS

\* A command has at most one entry.
CommandsDistinct ==
    \A i, j \in Indices : history[i].command = history[j].command => i = j

\* currentIndex points into the history, or just before it; a clearHistory
\* during an undo or a redo leaves it one off an empty history.
IndexInRange ==
    \/ history = <<>> /\ currentIndex \in -2..0
    \/ currentIndex \in -1..(Len(history) - 1)

\* Only what has succeeded is ever undone.
UndoneSucceeded == \A i \in Indices : history[i].undone => history[i].success

\* What is awaited is still where it was, unless the history was cleared.
PendingInPlace ==
    /\ pending.op = "execute" =>
          /\ \A i \in Indices : history[i].command # pending.command
          /\ pending.command \notin executed
    /\ pending.op = "undo" =>
          \/ history = <<>> /\ currentIndex = -1
          \/ canUndo /\ Current.command = pending.command
    /\ pending.op = "redo" =>
          \/ history = <<>> /\ currentIndex = -1
          \/ canRedo /\ Following.command = pending.command

\* The inductive invariant.
IInv ==
    /\ TypeOK
    /\ CommandsDistinct
    /\ IndexInRange
    /\ HistoryShape
    /\ HistoryMatchesCommands
    /\ UndoneSucceeded
    /\ PendingInPlace

LEMMA InitIInv == ASSUME InvokerAssumption, Init PROVE IInv
  BY DEF InvokerAssumption, Init, IInv, TypeOK, Entry, Pending, Idle,
     CommandsDistinct, IndexInRange, HistoryShape, HistoryMatchesCommands,
     UndoneSucceeded, PendingInPlace, Indices

-----------------------------------------------------------------------------
\* What IInv says of the entries, with the fields unpacked once and for all.
LEMMA EntryFacts ==
    ASSUME IInv
    PROVE  /\ Len(history) \in Nat /\ currentIndex \in Int
           /\ \A i \in Indices : /\ history[i] \in Entry
                                 /\ history[i].command \in Undoable
                                 /\ history[i].success \in BOOLEAN
                                 /\ history[i].undone \in BOOLEAN
  <1>1. history \in Seq(Entry) /\ currentIndex \in -2..MaxHistorySize
    BY DEF IInv, TypeOK
  <1>2. Len(history) \in Nat /\ \A i \in Indices : history[i] \in Entry
    BY <1>1 DEF Indices
  <1>3. currentIndex \in Int
    BY <1>1
  <1>4. \A e \in Entry : /\ e.command \in Undoable
                         /\ e.success \in BOOLEAN
                         /\ e.undone \in BOOLEAN
    BY DEF Entry
  <1>5. QED
    BY <1>2, <1>3, <1>4

LEMMA ClearStep ==
    ASSUME IInv, InvokerAssumption, ClearHistory
    PROVE  IInv'
  <1>1. TypeOK'
    BY DEF ClearHistory, IInv, TypeOK, InvokerAssumption
  <1>2. Indices' = {}
    BY DEF ClearHistory, Indices
  <1>3. /\ CommandsDistinct' /\ HistoryShape' /\ HistoryMatchesCommands'
        /\ UndoneSucceeded'
    BY <1>2 DEF CommandsDistinct, HistoryShape, HistoryMatchesCommands, UndoneSucceeded
  <1>4. IndexInRange'
    BY DEF ClearHistory, IndexInRange
  <1>5. PendingInPlace'
    BY <1>2 DEF ClearHistory, IInv, PendingInPlace
  <1>6. QED
    BY <1>1, <1>3, <1>4, <1>5 DEF IInv

LEMMA GrowOldStep ==
    ASSUME IInv, NEW S \in SUBSET Commands, GrowOld(S)
    PROVE  IInv'
  BY DEF GrowOld, IInv, TypeOK, CommandsDistinct, IndexInRange, HistoryShape,
     HistoryMatchesCommands, UndoneSucceeded, PendingInPlace, Indices,
     canUndo, canRedo, Current, Following

LEMMA StartExecuteStep ==
    ASSUME IInv, InvokerAssumption, NEW c \in Commands, StartExecute(c)
    PROVE  IInv'
  <1>1. TypeOK'
    BY DEF StartExecute, IInv, TypeOK, Pending
  <1>2. CommandsDistinct' /\ IndexInRange' /\ HistoryShape' /\ UndoneSucceeded'
    BY DEF StartExecute, IInv, CommandsDistinct, IndexInRange, HistoryShape,
       UndoneSucceeded, Indices
  <1>3. HistoryMatchesCommands'
    BY DEF StartExecute, IInv, HistoryMatchesCommands, Indices
  <1>4. PendingInPlace'
    BY DEF StartExecute, PendingInPlace, Indices
  <1>5. QED
    BY <1>1, <1>2, <1>3, <1>4 DEF IInv

LEMMA StartUndoStep ==
    ASSUME IInv, InvokerAssumption, StartUndo
    PROVE  IInv'
  <1>1. Current.command \in Commands
    BY EntryFacts DEF StartUndo, canUndo, Current, Indices, InvokerAssumption
  <1>2. TypeOK'
    BY <1>1 DEF StartUndo, IInv, TypeOK, Pending
  <1>3. /\ CommandsDistinct' /\ IndexInRange' /\ HistoryShape'
        /\ HistoryMatchesCommands' /\ UndoneSucceeded'
    BY DEF StartUndo, IInv, CommandsDistinct, IndexInRange, HistoryShape,
       HistoryMatchesCommands, UndoneSucceeded, Indices
  <1>4. PendingInPlace'
    BY DEF StartUndo, PendingInPlace, canUndo, Current
  <1>5. QED
    BY <1>2, <1>3, <1>4 DEF IInv

LEMMA StartRedoStep ==
    ASSUME IInv, InvokerAssumption, StartRedo
    PROVE  IInv'
  <1>1. Following.command \in Commands
    BY EntryFacts DEF StartRedo, canRedo, Following, Indices, InvokerAssumption
  <1>2. TypeOK'
    BY <1>1 DEF StartRedo, IInv, TypeOK, Pending
  <1>3. /\ CommandsDistinct' /\ IndexInRange' /\ HistoryShape'
        /\ HistoryMatchesCommands' /\ UndoneSucceeded'
    BY DEF StartRedo, IInv, CommandsDistinct, IndexInRange, HistoryShape,
       HistoryMatchesCommands, UndoneSucceeded, Indices
  <1>4. PendingInPlace'
    BY DEF StartRedo, PendingInPlace, canRedo, Following
  <1>5. QED
    BY <1>2, <1>3, <1>4 DEF IInv

-----------------------------------------------------------------------------
\* Marking changes `undone` of one command's entry and nothing else.
LEMMA MarkUndoneLemma ==
    ASSUME IInv, NEW c, NEW value \in BOOLEAN
    PROVE  /\ MarkUndone(c, value) \in Seq(Entry)
           /\ Len(MarkUndone(c, value)) = Len(history)
           /\ \A i \in Indices :
                 /\ MarkUndone(c, value)[i].command = history[i].command
                 /\ MarkUndone(c, value)[i].success = history[i].success
                 /\ MarkUndone(c, value)[i].undone =
                      IF history[i].command = c THEN value ELSE history[i].undone
  <1> DEFINE Marked(i) == IF history[i].command = c
                          THEN [history[i] EXCEPT !.undone = value] ELSE history[i]
  <1>1. \A i \in Indices :
           /\ Marked(i) \in Entry
           /\ Marked(i).command = history[i].command
           /\ Marked(i).success = history[i].success
           /\ Marked(i).undone =
                IF history[i].command = c THEN value ELSE history[i].undone
    BY EntryFacts DEF Entry
  <1>2. MarkUndone(c, value) = [i \in Indices |-> Marked(i)]
    BY DEF MarkUndone
  <1> HIDE DEF Marked
  <1>3. Len(history) \in Nat
    BY EntryFacts
  <1>4. /\ MarkUndone(c, value) \in Seq(Entry)
        /\ Len(MarkUndone(c, value)) = Len(history)
    BY <1>1, <1>2, <1>3 DEF Indices
  <1>5. QED
    BY <1>1, <1>2, <1>4

\* The step that marks: the entries stay where they are.
LEMMA MarkStep ==
    ASSUME IInv, NEW c, NEW value \in BOOLEAN, history' = MarkUndone(c, value)
    PROVE  /\ history' \in Seq(Entry)
           /\ Len(history') = Len(history)
           /\ Indices' = Indices
           /\ \A i \in Indices :
                 /\ history'[i].command = history[i].command
                 /\ history'[i].success = history[i].success
                 /\ history'[i].undone =
                      IF history[i].command = c THEN value ELSE history[i].undone
           /\ CommandsDistinct'
  <1> DEFINE M == MarkUndone(c, value)
  <1>1. /\ M \in Seq(Entry) /\ Len(M) = Len(history)
        /\ \A i \in Indices :
              /\ M[i].command = history[i].command
              /\ M[i].success = history[i].success
              /\ M[i].undone = IF history[i].command = c THEN value ELSE history[i].undone
    BY MarkUndoneLemma
  <1>2. history' = M
    OBVIOUS
  <1> HIDE DEF M
  <1>3. history' \in Seq(Entry) /\ Len(history') = Len(history)
    BY <1>1, <1>2
  <1>4. Indices' = Indices
    BY <1>3 DEF Indices
  <1>5. \A i \in Indices :
           /\ history'[i].command = history[i].command
           /\ history'[i].success = history[i].success
           /\ history'[i].undone =
                IF history[i].command = c THEN value ELSE history[i].undone
    BY <1>1, <1>2
  <1>6. \A i, j \in Indices : history[i].command = history[j].command => i = j
    BY DEF IInv, CommandsDistinct
  <1>7. \A i, j \in Indices' : history'[i].command = history'[j].command => i = j
    BY <1>4, <1>5, <1>6
  <1>8. CommandsDistinct'
    BY <1>7 DEF CommandsDistinct
  <1>9. QED
    BY <1>3, <1>4, <1>5, <1>8

\* An operation that ends without a change.
LEMMA SettleStep ==
    ASSUME IInv, pending' = Idle, UNCHANGED <<history, currentIndex, executed, aged>>
    PROVE  IInv'
  <1>1. TypeOK'
    BY DEF IInv, TypeOK, Pending
  <1>2. /\ CommandsDistinct' /\ IndexInRange' /\ HistoryShape'
        /\ HistoryMatchesCommands' /\ UndoneSucceeded'
    BY DEF IInv, CommandsDistinct, IndexInRange, HistoryShape, HistoryMatchesCommands,
       UndoneSucceeded, Indices
  <1>3. PendingInPlace'
    BY DEF PendingInPlace, Idle
  <1>4. QED
    BY <1>1, <1>2, <1>3 DEF IInv

LEMMA FinishUndoStep ==
    ASSUME IInv, InvokerAssumption, NEW ok \in BOOLEAN, FinishUndo(ok)
    PROVE  IInv'
  <1>1. CASE ~(ok /\ pending.command \in executed)
    BY <1>1, SettleStep DEF FinishUndo
  <1>2. CASE ok /\ pending.command \in executed
    <2> DEFINE c == pending.command
    <2>1. /\ history' = MarkUndone(c, TRUE)
          /\ currentIndex' = currentIndex - 1
          /\ executed' = executed \ {c}
          /\ pending' = Idle /\ aged' = aged
          /\ pending.op = "undo"
      BY <1>2 DEF FinishUndo
    <2>2. /\ history' \in Seq(Entry) /\ Len(history') = Len(history)
          /\ Indices' = Indices
          /\ \A i \in Indices :
                /\ history'[i].command = history[i].command
                /\ history'[i].success = history[i].success
                /\ history'[i].undone =
                     IF history[i].command = c THEN TRUE ELSE history[i].undone
          /\ CommandsDistinct'
      BY <2>1, MarkStep
    <2>3. /\ \/ history = <<>> /\ currentIndex = -1
             \/ /\ currentIndex \in 0..(Len(history) - 1)
                /\ currentIndex + 1 \in Indices
                /\ history[currentIndex + 1].command = c
                /\ history[currentIndex + 1].success
          /\ Len(history) \in Nat /\ currentIndex \in Int
      BY <2>1, EntryFacts DEF IInv, PendingInPlace, canUndo, Current, Indices
    <2> HIDE DEF c
    <2>4. TypeOK'
      <3>1. /\ Len(history) <= MaxHistorySize /\ executed \in SUBSET Commands
            /\ aged \in SUBSET Commands /\ currentIndex \in -2..MaxHistorySize
        BY DEF IInv, TypeOK
      <3>2. currentIndex' \in -2..MaxHistorySize
        BY <2>1, <2>3, <3>1 DEF InvokerAssumption
      <3>3. QED
        BY <2>1, <2>2, <3>1, <3>2 DEF TypeOK, Pending
    <2>5. IndexInRange'
      <3>1. CASE history = <<>> /\ currentIndex = -1
        <4>1. Len(history') = 0
          BY <2>2, <3>1
        <4>2. history' = <<>>
          BY <2>2, <4>1
        <4>3. currentIndex' \in -2..0
          BY <2>1, <3>1
        <4>4. QED
          BY <4>2, <4>3 DEF IndexInRange
      <3>2. CASE currentIndex \in 0..(Len(history) - 1)
        <4>1. currentIndex' = currentIndex - 1 /\ Len(history') = Len(history)
          BY <2>1, <2>2
        <4>2. Len(history) \in Nat /\ currentIndex \in Int
          BY <2>3
        <4>3. currentIndex' \in -1..(Len(history') - 1)
          BY <3>2, <4>1, <4>2
        <4>4. QED
          BY <4>3 DEF IndexInRange
      <3>3. QED
        BY <2>3, <3>1, <3>2
    <2>6. HistoryShape'
      <3>1. \A i \in Indices : i \in Int /\ (history[i].undone <=> i > currentIndex + 1)
        BY DEF IInv, HistoryShape, Indices
      <3>2. \A i \in Indices : history[i].command = c <=> i = currentIndex + 1
        BY <2>3 DEF IInv, CommandsDistinct, Indices
      <3>3. \A i \in Indices : history'[i].undone <=> i > currentIndex' + 1
        <4>1. SUFFICES ASSUME NEW i \in Indices
                       PROVE  history'[i].undone <=> i > currentIndex' + 1
          OBVIOUS
        <4>2. CASE i = currentIndex + 1
          <5>1. history'[i].undone = TRUE
            BY <2>2, <3>2, <4>2
          <5>2. i > currentIndex' + 1
            BY <2>1, <2>3, <4>2
          <5>3. QED
            BY <5>1, <5>2
        <4>3. CASE i # currentIndex + 1
          <5>1. history'[i].undone = history[i].undone
            BY <2>2, <3>2, <4>3
          <5>2. i > currentIndex + 1 <=> i > currentIndex' + 1
            BY <2>1, <2>3, <3>1, <4>3
          <5>3. QED
            BY <3>1, <5>1, <5>2
        <4>4. QED
          BY <4>2, <4>3
      <3>4. QED
        BY <2>2, <3>3 DEF HistoryShape
    <2>7. HistoryMatchesCommands'
      <3>1. \A i \in Indices : history[i].success =>
                (history[i].undone <=> history[i].command \notin executed)
        BY DEF IInv, HistoryMatchesCommands
      <3>2. \A i \in Indices' : history'[i].success =>
                (history'[i].undone <=> history'[i].command \notin executed')
        <4>1. SUFFICES ASSUME NEW i \in Indices, history'[i].success
                       PROVE  history'[i].undone <=> history'[i].command \notin executed'
          BY <2>2
        <4>2. CASE history[i].command = c
          BY <2>1, <2>2, <4>2
        <4>3. CASE history[i].command # c
          BY <2>1, <2>2, <3>1, <4>1, <4>3
        <4>4. QED
          BY <4>2, <4>3
      <3>3. QED
        BY <3>2 DEF HistoryMatchesCommands
    <2>8. UndoneSucceeded'
      <3>1. SUFFICES ASSUME NEW i \in Indices, history'[i].undone
                     PROVE  history'[i].success
        BY <2>2 DEF UndoneSucceeded
      <3>2. CASE history[i].command = c
        <4>1. i = currentIndex + 1
          BY <2>3, <3>1, <3>2 DEF IInv, CommandsDistinct, Indices
        <4>2. i \in 1..Len(history)
          BY DEF Indices
        <4>3. history[i].success
          BY <2>3, <4>1, <4>2
        <4>4. QED
          BY <2>2, <4>3
      <3>3. CASE history[i].command # c
        BY <2>2, <3>1, <3>3 DEF IInv, UndoneSucceeded
      <3>4. QED
        BY <3>2, <3>3
    <2>9. PendingInPlace'
      BY <2>1 DEF PendingInPlace, Idle
    <2>10. QED
      BY <2>2, <2>4, <2>5, <2>6, <2>7, <2>8, <2>9 DEF IInv
  <1>3. QED
    BY <1>1, <1>2

LEMMA FinishRedoStep ==
    ASSUME IInv, InvokerAssumption, NEW ok \in BOOLEAN, FinishRedo(ok)
    PROVE  IInv'
  <1>1. CASE ~ok
    BY <1>1, SettleStep DEF FinishRedo
  <1>2. CASE ok
    <2> DEFINE c == pending.command
    <2>1. /\ history' = MarkUndone(c, FALSE)
          /\ currentIndex' = currentIndex + 1
          /\ executed' = executed \cup {c}
          /\ pending' = Idle /\ aged' = aged
          /\ pending.op = "redo"
      BY <1>2 DEF FinishRedo
    <2>2. /\ history' \in Seq(Entry) /\ Len(history') = Len(history)
          /\ Indices' = Indices
          /\ \A i \in Indices :
                /\ history'[i].command = history[i].command
                /\ history'[i].success = history[i].success
                /\ history'[i].undone =
                     IF history[i].command = c THEN FALSE ELSE history[i].undone
          /\ CommandsDistinct'
      BY <2>1, MarkStep
    <2>3. /\ \/ history = <<>> /\ currentIndex = -1
             \/ /\ currentIndex \in -1..(Len(history) - 2)
                /\ currentIndex + 2 \in Indices
                /\ history[currentIndex + 2].command = c
          /\ Len(history) \in Nat /\ currentIndex \in Int
      BY <2>1, EntryFacts DEF IInv, PendingInPlace, canRedo, Following, Indices
    <2>4. c \in Commands
      BY <2>1 DEF IInv, TypeOK, Pending, Idle
    <2> HIDE DEF c
    <2>5. TypeOK'
      <3>1. /\ Len(history) <= MaxHistorySize /\ executed \in SUBSET Commands
            /\ aged \in SUBSET Commands /\ currentIndex \in -2..MaxHistorySize
        BY DEF IInv, TypeOK
      <3>2. currentIndex' \in -2..MaxHistorySize
        BY <2>1, <2>3, <3>1 DEF InvokerAssumption
      <3>3. executed' \in SUBSET Commands
        BY <2>1, <2>4, <3>1
      <3>4. QED
        BY <2>1, <2>2, <3>1, <3>2, <3>3 DEF TypeOK, Pending
    <2>6. IndexInRange'
      <3>1. CASE history = <<>> /\ currentIndex = -1
        <4>1. Len(history') = 0
          BY <2>2, <3>1
        <4>2. history' = <<>>
          BY <2>2, <4>1
        <4>3. currentIndex' \in -2..0
          BY <2>1, <3>1
        <4>4. QED
          BY <4>2, <4>3 DEF IndexInRange
      <3>2. CASE currentIndex \in -1..(Len(history) - 2)
        <4>1. currentIndex' = currentIndex + 1 /\ Len(history') = Len(history)
          BY <2>1, <2>2
        <4>2. Len(history) \in Nat /\ currentIndex \in Int
          BY <2>3
        <4>3. currentIndex' \in -1..(Len(history') - 1)
          BY <3>2, <4>1, <4>2
        <4>4. QED
          BY <4>3 DEF IndexInRange
      <3>3. QED
        BY <2>3, <3>1, <3>2
    <2>7. HistoryShape'
      <3>1. \A i \in Indices : i \in Int /\ (history[i].undone <=> i > currentIndex + 1)
        BY DEF IInv, HistoryShape, Indices
      <3>2. \A i \in Indices : history[i].command = c <=> i = currentIndex + 2
        BY <2>3 DEF IInv, CommandsDistinct, Indices
      <3>3. \A i \in Indices : history'[i].undone <=> i > currentIndex' + 1
        <4>1. SUFFICES ASSUME NEW i \in Indices
                       PROVE  history'[i].undone <=> i > currentIndex' + 1
          OBVIOUS
        <4>2. CASE i = currentIndex + 2
          <5>1. history'[i].undone = FALSE
            BY <2>2, <3>2, <4>2
          <5>2. ~(i > currentIndex' + 1)
            BY <2>1, <2>3, <4>2
          <5>3. QED
            BY <5>1, <5>2
        <4>3. CASE i # currentIndex + 2
          <5>1. history'[i].undone = history[i].undone
            BY <2>2, <3>2, <4>3
          <5>2. i > currentIndex + 1 <=> i > currentIndex' + 1
            BY <2>1, <2>3, <3>1, <4>3
          <5>3. QED
            BY <3>1, <5>1, <5>2
        <4>4. QED
          BY <4>2, <4>3
      <3>4. QED
        BY <2>2, <3>3 DEF HistoryShape
    <2>8. HistoryMatchesCommands'
      <3>1. \A i \in Indices : history[i].success =>
                (history[i].undone <=> history[i].command \notin executed)
        BY DEF IInv, HistoryMatchesCommands
      <3>2. \A i \in Indices' : history'[i].success =>
                (history'[i].undone <=> history'[i].command \notin executed')
        <4>1. SUFFICES ASSUME NEW i \in Indices, history'[i].success
                       PROVE  history'[i].undone <=> history'[i].command \notin executed'
          BY <2>2
        <4>2. CASE history[i].command = c
          BY <2>1, <2>2, <4>2
        <4>3. CASE history[i].command # c
          BY <2>1, <2>2, <3>1, <4>1, <4>3
        <4>4. QED
          BY <4>2, <4>3
      <3>3. QED
        BY <3>2 DEF HistoryMatchesCommands
    <2>9. UndoneSucceeded'
      BY <2>2 DEF IInv, UndoneSucceeded
    <2>10. PendingInPlace'
      BY <2>1 DEF PendingInPlace, Idle
    <2>11. QED
      BY <2>2, <2>5, <2>6, <2>7, <2>8, <2>9, <2>10 DEF IInv
  <1>3. QED
    BY <1>1, <1>2

-----------------------------------------------------------------------------
\* Adding an entry keeps an unbroken piece of the entries up to currentIndex,
\* e entries from its front dropped, and puts the new one behind it.
LEMMA AddStep ==
    ASSUME IInv, InvokerAssumption, NEW c \in Undoable, NEW ok \in BOOLEAN,
           AddToHistory(c, ok)
    PROVE  /\ history' \in Seq(Entry)
           /\ Len(history') \in 1..MaxHistorySize
           /\ currentIndex' = Len(history') - 1
           /\ history'[Len(history')]
                = [command |-> c, success |-> ok, undone |-> FALSE]
           /\ \E e \in Nat :
                 /\ Len(history') - 1 + e = IF history = <<>> THEN 0 ELSE currentIndex + 1
                 /\ \A i \in 1..(Len(history') - 1) :
                       /\ i + e \in Indices
                       /\ i + e <= currentIndex + 1
                       /\ history'[i] = history[i + e]
  <1> DEFINE new    == [command |-> c, success |-> ok, undone |-> FALSE]
             kept   == IF currentIndex < Len(history) - 1
                       THEN SliceTo(history, currentIndex + 1) ELSE history
             pushed == Append(kept, new)
             excess == IF Len(pushed) > MaxHistorySize
                       THEN Len(pushed) - MaxHistorySize ELSE 0
  <1>1. /\ history \in Seq(Entry) /\ Len(history) \in Nat
        /\ Len(history) <= MaxHistorySize /\ currentIndex \in Int
        /\ MaxHistorySize \in Nat /\ MaxHistorySize > 0
        /\ \A i \in 1..Len(history) : history[i] \in Entry
    BY EntryFacts DEF IInv, TypeOK, InvokerAssumption, Indices
  <1>2. new \in Entry
    BY DEF Entry
  <1>3. /\ kept \in Seq(Entry)
        /\ Len(kept) \in 0..Len(history)
        /\ Len(kept) = IF history = <<>> THEN 0 ELSE currentIndex + 1
        /\ \A i \in 1..Len(kept) : i <= currentIndex + 1 /\ kept[i] = history[i]
    <2>1. CASE history = <<>>
      <3>1. Len(history) = 0
        BY <2>1
      <3>2. CASE currentIndex < Len(history) - 1
        <4>1. kept = SubSeq(history, 1, Len(history) + (currentIndex + 1))
          BY <1>1, <3>1, <3>2 DEF SliceTo
        <4>2. Len(history) + (currentIndex + 1) < 1
          BY <1>1, <3>1, <3>2
        <4>3. kept = <<>>
          BY <1>1, <4>1, <4>2, SubSeqEmpty
        <4> HIDE DEF kept
        <4>4. QED
          BY <1>1, <2>1, <3>1, <4>3
      <3>3. CASE ~(currentIndex < Len(history) - 1)
        BY <1>1, <3>1, <3>3
      <3>4. QED
        BY <3>2, <3>3
    <2>2. CASE currentIndex \in -1..(Len(history) - 1)
      <3>1. CASE currentIndex < Len(history) - 1
        <4> DEFINE n == currentIndex + 1
        <4>1. n \in 0..Len(history) /\ n < Len(history)
          BY <1>1, <2>2, <3>1
        <4>2. kept = SubSeq(history, 1, n)
          BY <1>1, <3>1, <4>1 DEF SliceTo
        <4>3. /\ SubSeq(history, 1, n) \in Seq(Entry)
              /\ Len(SubSeq(history, 1, n)) = n
              /\ \A i \in 1..n : SubSeq(history, 1, n)[i] = history[i]
          <5>1. \A i \in 1..n : history[i] \in Entry
            BY <1>1, <4>1
          <5>2. n \in Int
            BY <4>1
          <5> HIDE DEF n
          <5>3. /\ SubSeq(history, 1, n) \in Seq(Entry)
                /\ Len(SubSeq(history, 1, n)) = IF 1 <= n THEN n - 1 + 1 ELSE 0
                /\ \A i \in 1..(n - 1 + 1) :
                      SubSeq(history, 1, n)[i] = history[1 + i - 1]
            BY <5>1, <5>2, SubSeqProperties
          <5>4. Len(SubSeq(history, 1, n)) = n
            BY <4>1, <5>3
          <5>5. \A i \in 1..n : i \in 1..(n - 1 + 1) /\ 1 + i - 1 = i
            BY <5>2
          <5>6. QED
            BY <5>3, <5>4, <5>5
        <4>4. kept \in Seq(Entry) /\ Len(kept) = n
          BY <4>2, <4>3
        <4>5. \A i \in 1..n : kept[i] = history[i]
          BY <4>2, <4>3
        <4>6. \A i \in 1..n : i <= currentIndex + 1
          BY <1>1
        <4> HIDE DEF kept, n
        <4>7. QED
          BY <2>2, <3>1, <4>1, <4>4, <4>5, <4>6 DEF n
      <3>2. CASE ~(currentIndex < Len(history) - 1)
        BY <1>1, <2>2, <3>2
      <3>3. QED
        BY <3>1, <3>2
    <2>3. QED
      BY <2>1, <2>2 DEF IInv, IndexInRange
  <1>4. history' = SubSeq(pushed, excess + 1, Len(pushed))
    BY DEF AddToHistory
  <1>5. currentIndex' = Len(pushed) - 1 - excess
    BY DEF AddToHistory
  <1> HIDE DEF kept, new
  <1>6. /\ pushed \in Seq(Entry)
        /\ Len(pushed) = Len(kept) + 1
        /\ \A i \in 1..Len(kept) : pushed[i] = kept[i]
        /\ pushed[Len(kept) + 1] = new
    BY <1>2, <1>3, AppendProperties
  <1> HIDE DEF pushed
  <1>7. excess \in 0..Len(kept) /\ Len(pushed) - excess <= MaxHistorySize
    BY <1>1, <1>3, <1>6
  <1>8. /\ Len(kept) \in Nat
        /\ \A i \in 1..Len(pushed) : pushed[i] \in Entry
    BY <1>1, <1>3, <1>6
  <1> HIDE DEF excess
  <1>9. /\ history' \in Seq(Entry)
        /\ Len(history') = Len(pushed) - excess
        /\ \A i \in 1..(Len(pushed) - excess) : history'[i] = pushed[i + excess]
    <2>1. \A i \in (excess + 1)..Len(pushed) : pushed[i] \in Entry
      BY <1>6, <1>7, <1>8
    <2>2. excess + 1 \in Int /\ Len(pushed) \in Int /\ excess + 1 <= Len(pushed)
      BY <1>6, <1>7, <1>8
    <2>3. /\ SubSeq(pushed, excess + 1, Len(pushed)) \in Seq(Entry)
          /\ Len(SubSeq(pushed, excess + 1, Len(pushed))) =
               IF excess + 1 <= Len(pushed) THEN Len(pushed) - (excess + 1) + 1 ELSE 0
          /\ \A i \in 1..(Len(pushed) - (excess + 1) + 1) :
                SubSeq(pushed, excess + 1, Len(pushed))[i] = pushed[(excess + 1) + i - 1]
      BY <2>1, <2>2, SubSeqProperties
    <2>4. Len(pushed) - (excess + 1) + 1 = Len(pushed) - excess
      BY <1>7, <2>2
    <2>5. \A i \in 1..(Len(pushed) - excess) : (excess + 1) + i - 1 = i + excess
      BY <1>7, <2>2
    <2>6. QED
      BY <1>4, <2>2, <2>3, <2>4, <2>5
  <1>10. Len(history') \in 1..MaxHistorySize /\ currentIndex' = Len(history') - 1
    BY <1>1, <1>5, <1>6, <1>7, <1>8, <1>9
  <1>11. history'[Len(history')] = new
    <2>1. Len(history') \in 1..(Len(pushed) - excess) /\ Len(history') + excess = Len(kept) + 1
      BY <1>1, <1>6, <1>7, <1>8, <1>9, <1>10
    <2>2. QED
      BY <1>6, <1>9, <2>1
  <1>12. \A i \in 1..(Len(history') - 1) :
            /\ i + excess \in Indices
            /\ i + excess <= currentIndex + 1
            /\ history'[i] = history[i + excess]
    <2>1. SUFFICES ASSUME NEW i \in 1..(Len(history') - 1)
                   PROVE  /\ i + excess \in Indices
                          /\ i + excess <= currentIndex + 1
                          /\ history'[i] = history[i + excess]
      OBVIOUS
    <2>2. i \in 1..(Len(pushed) - excess) /\ i + excess \in 1..Len(kept)
      BY <1>6, <1>7, <1>8, <1>9, <2>1
    <2>3. i + excess \in Indices
      BY <1>1, <1>3, <2>2 DEF Indices
    <2>4. QED
      BY <1>3, <1>6, <1>9, <2>2, <2>3
  <1>13. excess \in Nat
    BY <1>7, <1>8
  <1>14. Len(history') - 1 + excess = IF history = <<>> THEN 0 ELSE currentIndex + 1
    BY <1>1, <1>3, <1>6, <1>7, <1>8, <1>9
  <1>15. QED
    BY <1>9, <1>10, <1>11, <1>12, <1>13, <1>14 DEF new

LEMMA FinishExecuteStep ==
    ASSUME IInv, InvokerAssumption, NEW ok \in BOOLEAN, FinishExecute(ok)
    PROVE  IInv'
  <1> DEFINE c == pending.command
  <1>1. /\ executed' = IF ok THEN executed \cup {c} ELSE executed
        /\ pending' = Idle /\ aged' = aged /\ pending.op = "execute"
    BY DEF FinishExecute
  <1>2. /\ \A i \in Indices : history[i].command # c
        /\ c \notin executed
    BY <1>1 DEF IInv, PendingInPlace
  <1>3. c \in Commands
    BY <1>1 DEF IInv, TypeOK, Pending, Idle
  <1>4. executed' \in SUBSET Commands /\ aged' \in SUBSET Commands /\ pending' \in Pending
    BY <1>1, <1>3 DEF IInv, TypeOK, Pending
  <1>5. PendingInPlace'
    BY <1>1 DEF PendingInPlace, Idle
  <1>6. \A d : d # c => (d \in executed' <=> d \in executed)
    BY <1>1
  <1>7. CASE c \notin Undoable
    <2>1. UNCHANGED <<history, currentIndex>>
      BY <1>7 DEF FinishExecute
    <2> HIDE DEF c
    <2>2. TypeOK'
      BY <1>4, <2>1 DEF IInv, TypeOK
    <2>3. CommandsDistinct' /\ IndexInRange' /\ HistoryShape' /\ UndoneSucceeded'
      BY <2>1 DEF IInv, CommandsDistinct, IndexInRange, HistoryShape, UndoneSucceeded,
         Indices
    <2>4. HistoryMatchesCommands'
      BY <1>2, <1>6, <2>1 DEF IInv, HistoryMatchesCommands, Indices
    <2>5. QED
      BY <1>5, <2>2, <2>3, <2>4 DEF IInv
  <1>8. CASE c \in Undoable
    <2> DEFINE n == Len(history')
    <2>1. AddToHistory(c, ok)
      BY <1>8 DEF FinishExecute
    <2>2. /\ history' \in Seq(Entry)
          /\ n \in 1..MaxHistorySize
          /\ currentIndex' = n - 1
          /\ history'[n] = [command |-> c, success |-> ok, undone |-> FALSE]
          /\ \E e \in Nat : \A i \in 1..(n - 1) :
                /\ i + e \in Indices
                /\ i + e <= currentIndex + 1
                /\ history'[i] = history[i + e]
      BY <1>8, <2>1, AddStep
    <2>3. /\ history'[n].command = c
          /\ history'[n].success = ok
          /\ history'[n].undone = FALSE
      BY <2>2
    <2>4. PICK e \in Nat : \A i \in 1..(n - 1) :
                /\ i + e \in Indices
                /\ i + e <= currentIndex + 1
                /\ history'[i] = history[i + e]
      BY <2>2
    <2>5. Indices' = 1..n /\ MaxHistorySize \in Nat /\ n \in Nat /\ currentIndex \in Int
      BY <2>2, EntryFacts DEF Indices, InvokerAssumption
    <2> HIDE DEF c, n
    <2>6. \A i \in 1..n : i = n \/ i \in 1..(n - 1)
      BY <2>5
    <2>7. TypeOK'
      <3>1. n <= MaxHistorySize /\ currentIndex' \in -2..MaxHistorySize
        BY <2>2, <2>5
      <3>2. QED
        BY <1>4, <2>2, <3>1 DEF TypeOK, n
    <2>8. CommandsDistinct'
      <3>1. \A i \in 1..(n - 1) : history'[i].command # c
        BY <1>2, <2>4
      <3>2. \A i, j \in 1..(n - 1) : history'[i].command = history'[j].command => i = j
        <4>1. \A i, j \in Indices : history[i].command = history[j].command => i = j
          BY DEF IInv, CommandsDistinct
        <4>2. \A i, j \in 1..(n - 1) :
                 history'[i].command = history'[j].command => i + e = j + e
          BY <2>4, <4>1
        <4>3. \A i, j \in 1..(n - 1) : i + e = j + e => i = j
          BY <2>4, <2>5
        <4>4. QED
          BY <4>2, <4>3
      <3>3. \A i, j \in 1..n : history'[i].command = history'[j].command => i = j
        BY <2>3, <2>6, <3>1, <3>2
      <3>4. QED
        BY <2>5, <3>3 DEF CommandsDistinct
    <2>9. IndexInRange'
      <3>1. currentIndex' \in -1..(n - 1)
        BY <2>2, <2>5
      <3>2. QED
        BY <3>1 DEF IndexInRange, n
    <2>10. \A i \in 1..n : ~history'[i].undone
      <3>1. \A i \in 1..(n - 1) : ~history[i + e].undone
        <4>1. \A j \in Indices : history[j].undone <=> j > currentIndex + 1
          BY DEF IInv, HistoryShape
        <4>2. \A i \in 1..(n - 1) : ~(i + e > currentIndex + 1)
          BY <2>4, <2>5
        <4>3. QED
          BY <2>4, <4>1, <4>2
      <3>2. QED
        BY <2>3, <2>4, <2>6, <3>1
    <2>11. HistoryShape'
      <3>1. \A i \in 1..n : ~(i > currentIndex' + 1)
        BY <2>2, <2>5
      <3>2. QED
        BY <2>5, <2>10, <3>1 DEF HistoryShape
    <2>12. HistoryMatchesCommands'
      <3>1. SUFFICES ASSUME NEW i \in 1..n, history'[i].success
                     PROVE  history'[i].undone <=> history'[i].command \notin executed'
        BY <2>5 DEF HistoryMatchesCommands
      <3>2. CASE i = n
        <4>1. c \in executed'
          BY <1>1, <2>3, <3>1, <3>2 DEF c
        <4>2. QED
          BY <2>3, <3>2, <4>1
      <3>3. CASE i \in 1..(n - 1)
        <4>1. i + e \in Indices /\ history'[i] = history[i + e]
          BY <2>4, <3>3
        <4>2. history[i + e].success =>
                 (history[i + e].undone <=> history[i + e].command \notin executed)
          BY <4>1 DEF IInv, HistoryMatchesCommands
        <4>3. history[i + e].command # c
          BY <1>2, <4>1
        <4>4. QED
          BY <1>6, <3>1, <4>1, <4>2, <4>3
      <3>4. QED
        BY <2>6, <3>2, <3>3
    <2>13. UndoneSucceeded'
      BY <2>5, <2>10 DEF UndoneSucceeded
    <2>14. QED
      BY <1>5, <2>7, <2>8, <2>9, <2>11, <2>12, <2>13 DEF IInv
  <1>9. QED
    BY <1>7, <1>8

LEMMA CleanupStep ==
    ASSUME IInv, InvokerAssumption, ~CleanupWhileExecuting, CleanupHistory
    PROVE  IInv'
  <1>1. PICK k \in 1..(Len(history) - 1) :
           /\ history' = SubSeq(history, k + 1, Len(history))
           /\ currentIndex' = IF currentIndex - k >= -1 THEN currentIndex - k ELSE -1
    BY DEF CleanupHistory
  <1>2. /\ pending = Idle /\ UNCHANGED <<pending, executed, aged>>
    BY DEF CleanupHistory, isExecuting
  <1>3. /\ history \in Seq(Entry) /\ Len(history) \in Nat /\ currentIndex \in Int
        /\ Len(history) <= MaxHistorySize
        /\ \A i \in 1..Len(history) : history[i] \in Entry
    BY EntryFacts DEF IInv, TypeOK, Indices
  <1> DEFINE n == Len(history) - k
  <1>4. n \in Nat /\ n > 0 /\ k \in Nat /\ k > 0 /\ n <= MaxHistorySize
    BY <1>3 DEF InvokerAssumption
  <1>5. /\ history' \in Seq(Entry) /\ Len(history') = n
        /\ \A i \in 1..n : i + k \in Indices /\ history'[i] = history[i + k]
    <2>1. k + 1 \in Int /\ Len(history) \in Int /\ k + 1 <= Len(history)
      BY <1>3, <1>4
    <2>2. \A i \in (k + 1)..Len(history) : history[i] \in Entry
      BY <1>3, <1>4
    <2>3. /\ SubSeq(history, k + 1, Len(history)) \in Seq(Entry)
          /\ Len(SubSeq(history, k + 1, Len(history))) =
               IF k + 1 <= Len(history) THEN Len(history) - (k + 1) + 1 ELSE 0
          /\ \A i \in 1..(Len(history) - (k + 1) + 1) :
                SubSeq(history, k + 1, Len(history))[i] = history[(k + 1) + i - 1]
      BY <2>1, <2>2, SubSeqProperties
    <2>4. Len(history) - (k + 1) + 1 = n
      BY <1>3, <1>4
    <2>5. \A i \in 1..n : (k + 1) + i - 1 = i + k /\ i + k \in 1..Len(history)
      BY <1>3, <1>4
    <2> HIDE DEF n
    <2>6. QED
      BY <1>1, <2>1, <2>3, <2>4, <2>5 DEF Indices
  <1>6. currentIndex \in -1..(Len(history) - 1)
    <2>1. history # <<>>
      BY <1>3, <1>4
    <2>2. QED
      BY <2>1 DEF IInv, IndexInRange
  <1>7. currentIndex' \in -1..(n - 1)
    BY <1>1, <1>3, <1>4, <1>6
  <1>8. \A i \in 1..n : i + k > currentIndex + 1 <=> i > currentIndex' + 1
    BY <1>1, <1>3, <1>4
  <1> HIDE DEF n
  <1>9. Indices' = 1..n
    BY <1>5 DEF Indices
  <1>10. TypeOK'
    <2>1. currentIndex' \in -2..MaxHistorySize
      BY <1>4, <1>7 DEF InvokerAssumption
    <2>2. QED
      BY <1>2, <1>4, <1>5, <2>1 DEF IInv, TypeOK
  <1>11. CommandsDistinct'
    <2>1. \A i, j \in Indices : history[i].command = history[j].command => i = j
      BY DEF IInv, CommandsDistinct
    <2>2. \A i, j \in 1..n : history'[i].command = history'[j].command => i + k = j + k
      BY <1>5, <2>1
    <2>3. \A i, j \in 1..n : i + k = j + k => i = j
      BY <1>4
    <2>4. QED
      BY <1>9, <2>2, <2>3 DEF CommandsDistinct
  <1>12. IndexInRange'
    BY <1>5, <1>7 DEF IndexInRange
  <1>13. HistoryShape'
    <2>1. \A i \in Indices : history[i].undone <=> i > currentIndex + 1
      BY DEF IInv, HistoryShape
    <2>2. \A i \in 1..n : history'[i].undone <=> i > currentIndex' + 1
      BY <1>5, <1>8, <2>1
    <2>3. QED
      BY <1>9, <2>2 DEF HistoryShape
  <1>14. HistoryMatchesCommands'
    BY <1>2, <1>5, <1>9 DEF IInv, HistoryMatchesCommands
  <1>15. UndoneSucceeded'
    BY <1>5, <1>9 DEF IInv, UndoneSucceeded
  <1>16. PendingInPlace'
    BY <1>2 DEF PendingInPlace, Idle
  <1>17. QED
    BY <1>10, <1>11, <1>12, <1>13, <1>14, <1>15, <1>16 DEF IInv

LEMMA StutterStep ==
    ASSUME IInv, UNCHANGED vars
    PROVE  IInv'
  BY DEF vars, IInv, TypeOK, CommandsDistinct, IndexInRange, HistoryShape,
     HistoryMatchesCommands, UndoneSucceeded, PendingInPlace, Indices,
     canUndo, canRedo, Current, Following

-----------------------------------------------------------------------------
LEMMA NextIInv ==
    ASSUME IInv, InvokerAssumption, ~CleanupWhileExecuting, [Next]_vars
    PROVE  IInv'
  <1>1. CASE \E c \in Commands : StartExecute(c)
    BY <1>1, StartExecuteStep
  <1>2. CASE \E ok \in BOOLEAN : FinishExecute(ok) \/ FinishUndo(ok) \/ FinishRedo(ok)
    BY <1>2, FinishExecuteStep, FinishUndoStep, FinishRedoStep
  <1>3. CASE StartUndo
    BY <1>3, StartUndoStep
  <1>4. CASE StartRedo
    BY <1>4, StartRedoStep
  <1>5. CASE ClearHistory
    BY <1>5, ClearStep
  <1>6. CASE CleanupHistory
    BY <1>6, CleanupStep
  <1>7. CASE \E S \in SUBSET Commands : GrowOld(S)
    BY <1>7, GrowOldStep
  <1>8. CASE UNCHANGED vars
    BY <1>8, StutterStep
  <1>9. QED
    BY <1>1, <1>2, <1>3, <1>4, <1>5, <1>6, <1>7, <1>8 DEF Next

\* The inductive invariant holds always.
THEOREM Invariance == ~CleanupWhileExecuting => (Spec => []IInv)
  <1> SUFFICES ASSUME ~CleanupWhileExecuting
               PROVE  Spec => []IInv
    OBVIOUS
  <1>1. Init => IInv
    BY InvokerAssumption, InitIInv
  <1>2. IInv /\ [Next]_vars => IInv'
    BY InvokerAssumption, NextIInv
  <1>3. QED
    BY <1>1, <1>2, PTL DEF Spec

\* The history never holds more than MaxHistorySize entries, and currentIndex
\* stays within it but for what a clear during an await leaves.
THEOREM TypeCorrect == ~CleanupWhileExecuting => (Spec => []TypeOK)
  <1>1. IInv => TypeOK
    BY DEF IInv
  <1>2. QED
    BY <1>1, Invariance, PTL

\* undo and redo move one boundary between what is done and what is undone.
THEOREM ShapeKept == ~CleanupWhileExecuting => (Spec => []HistoryShape)
  <1>1. IInv => HistoryShape
    BY DEF IInv
  <1>2. QED
    BY <1>1, Invariance, PTL

\* The history and the commands agree on what is in effect.
THEOREM CommandsMatch == ~CleanupWhileExecuting => (Spec => []HistoryMatchesCommands)
  <1>1. IInv => HistoryMatchesCommands
    BY DEF IInv
  <1>2. QED
    BY <1>1, Invariance, PTL

\* A later command is never in effect without the earlier ones of the history.
THEOREM UndoOrder == ~CleanupWhileExecuting => (Spec => []UndoIsLinear)
  <1>1. IInv => UndoIsLinear
    <2> SUFFICES ASSUME IInv, NEW i \in Indices, NEW j \in Indices, i < j,
                        history[i].success, history[j].success,
                        history[j].command \in executed
                 PROVE  history[i].command \in executed
      BY DEF UndoIsLinear
    <2>1. ~history[j].undone
      BY DEF IInv, HistoryMatchesCommands
    <2>2. ~(j > currentIndex + 1)
      BY <2>1 DEF IInv, HistoryShape
    <2>3. ~(i > currentIndex + 1)
      BY <2>2, EntryFacts DEF Indices
    <2>4. ~history[i].undone
      BY <2>3 DEF IInv, HistoryShape
    <2>5. QED
      BY <2>4 DEF IInv, HistoryMatchesCommands
  <1>2. QED
    BY <1>1, Invariance, PTL

\* Whatever is undone and still in the history is within redo's reach.
THEOREM RedoReaches == ~CleanupWhileExecuting => (Spec => []UndoneCanBeRedone)
  <1>1. IInv => UndoneCanBeRedone
    <2> SUFFICES ASSUME IInv, NEW i \in Indices, history[i].undone
                 PROVE  canRedo
      BY DEF UndoneCanBeRedone
    <2>1. /\ Len(history) \in Nat /\ currentIndex \in Int
          /\ i \in 1..Len(history)
      BY EntryFacts DEF Indices
    <2>2. i > currentIndex + 1
      BY DEF IInv, HistoryShape
    <2>3. currentIndex \in -1..(Len(history) - 1)
      <3>1. history # <<>>
        BY <2>1
      <3>2. QED
        BY <3>1 DEF IInv, IndexInRange
    <2>4. currentIndex + 2 \in Indices
      BY <2>1, <2>2, <2>3 DEF Indices
    <2>5. Following.undone
      BY <2>1, <2>4 DEF IInv, HistoryShape, Following
    <2>6. Following.success
      BY <2>4, <2>5 DEF IInv, UndoneSucceeded, Following
    <2>7. currentIndex >= -1 /\ currentIndex + 1 < Len(history)
      BY <2>1, <2>2, <2>3
    <2>8. QED
      BY <2>5, <2>6, <2>7 DEF canRedo
  <1>2. QED
    BY <1>1, Invariance, PTL
=============================================================================
