------------------------------ MODULE RowTable ------------------------------
(***************************************************************************)
(* What the calls on one dataset promise about its rows: an append adds    *)
(* its rows once, a delete takes away rows that match its predicate, among *)
(* them all that were there when it opened the dataset, and no other call  *)
(* changes anything.                                                       *)
(***************************************************************************)
CONSTANTS
    Backend, Row, Idle, Done,
    Change      \* the sets of rows that are appended or deleted together

VARIABLES
    rows,   \* the rows a reader sees
    todo    \* the change a backend still owes: <<op, rows, must>>

tvars == <<rows, todo>>

Init ==
    /\ rows \subseteq Row
    /\ todo = [b \in Backend |-> Idle]

IssueAppend(b, R) ==
    /\ todo[b] \in {Idle, Done}
    /\ todo' = [todo EXCEPT ![b] = <<"append", R, R>>]
    /\ UNCHANGED rows

IssueDelete(b, P) ==
    /\ todo[b] \in {Idle, Done}
    /\ todo' = [todo EXCEPT ![b] = <<"delete", P, P \intersect rows>>]
    /\ UNCHANGED rows

Applied(b) == todo' = [todo EXCEPT ![b] = Done]

ApplyAppend(b) ==
    /\ todo[b] \notin {Idle, Done}
    /\ todo[b][1] = "append"
    /\ rows' = rows \union todo[b][2]
    /\ Applied(b)

ApplyDelete(b) ==
    /\ todo[b] \notin {Idle, Done}
    /\ todo[b][1] = "delete"
    /\ \E D \in SUBSET (todo[b][2] \intersect rows) :
         /\ todo[b][3] \intersect rows \subseteq D
         /\ rows' = rows \ D
    /\ Applied(b)

\* The call gives up without having changed anything.
GiveUp(b) ==
    /\ todo[b] # Idle
    /\ todo' = [todo EXCEPT ![b] = Idle]
    /\ UNCHANGED rows

Next ==
    \E b \in Backend :
        \/ \E R \in Change : IssueAppend(b, R) \/ IssueDelete(b, R)
        \/ ApplyAppend(b) \/ ApplyDelete(b) \/ GiveUp(b)

Spec == Init /\ [][Next]_tvars
=============================================================================
