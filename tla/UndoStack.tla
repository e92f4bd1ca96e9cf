----------------------------- MODULE UndoStack ------------------------------
(***************************************************************************)
(* What undo and redo promise the user: the abstract specification that    *)
(* ChartEdits implements.  Undo brings back the chart as it was before the *)
(* last edit, redo the chart as it was after it; nothing else does.        *)
(***************************************************************************)
EXTENDS Integers, Sequences

CONSTANT InitialChart   \* the chart before the first edit

VARIABLES
    chart,    \* what the user sees
    past,     \* the charts undo can bring back, the latest last
    future    \* the charts redo can bring back, the next first

stackVars == <<chart, past, future>>

Init ==
    /\ chart = InitialChart
    /\ past = <<>>
    /\ future = <<>>

-----------------------------------------------------------------------------
\* An edit: nothing can be redone any more, and the oldest charts may be lost.
Edit ==
    /\ future' = <<>>
    /\ \E k \in 1..(Len(past) + 2) :
          past' = SubSeq(Append(past, chart), k, Len(past) + 1)

\* An edit that fails and may leave half of its work: it cannot be undone, nor
\* can anything before it.  So it is with one that hides that it failed.
Fail ==
    /\ past' = <<>>
    /\ future' = <<>>

Undo ==
    /\ past # <<>>
    /\ chart' = past[Len(past)]
    /\ past' = SubSeq(past, 1, Len(past) - 1)
    /\ future' = <<chart>> \o future

Redo ==
    /\ future # <<>>
    /\ chart' = future[1]
    /\ past' = Append(past, chart)
    /\ future' = Tail(future)

\* The history is cleaned up from its oldest end, or cleared.
Forget ==
    /\ \/ /\ \E k \in 1..(Len(past) + 1) : past' = SubSeq(past, k, Len(past))
          /\ \/ UNCHANGED future
             \/ \E k \in 1..(Len(future) + 1) :
                    past' = <<>> /\ future' = SubSeq(future, k, Len(future))
       \/ past' = <<>> /\ future' = <<>>
    /\ UNCHANGED chart

-----------------------------------------------------------------------------
Next == Edit \/ Fail \/ Undo \/ Redo \/ Forget

Spec == Init /\ [][Next]_stackVars
=============================================================================
