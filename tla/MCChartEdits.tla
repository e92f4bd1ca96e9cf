---------------------------- MODULE MCChartEdits ----------------------------
(***************************************************************************)
(* Instances of ChartEdits for TLC.                                        *)
(***************************************************************************)
EXTENDS ChartEdits

CONSTANTS c1, d1, b1, p1, p2, p3, g1, q1, q2

MCKindOf ==
    [c \in Commands |->
        CASE c \in {c1, q1} -> "create"
          [] c = p1 -> "update"
          [] c \in {d1, p2} -> "delete"
          [] c = q2 -> "remove"
          [] c = p3 -> "set"
          [] c = b1 -> "batch"
          [] c = g1 -> "plain_batch"]

MCPartsOf ==
    [c \in Commands |-> CASE c = b1 -> <<p1, p2, p3>>
                          [] c = g1 -> <<q1, q2>>
                          [] OTHER -> <<>>]
=============================================================================
