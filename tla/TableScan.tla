----------------------------- MODULE TableScan ------------------------------
(***************************************************************************)
(* What a scan promises the executor, with no batches, streams or columns: *)
(* it is opened on some list of tuples, and every pass over it returns the *)
(* tuples of that list one by one, from the first to the last.             *)
(***************************************************************************)
EXTENDS Naturals, Sequences

CONSTANTS Node, Lists

VARIABLES
    state,   \* "closed", "open" or, when a pass is through, "through"
    list,    \* what the scan was opened on
    given    \* what the current pass has returned

svars == <<state, list, given>>

Init ==
    /\ state = [n \in Node |-> "closed"]
    /\ list  = [n \in Node |-> <<>>]
    /\ given = [n \in Node |-> <<>>]

Open(n) ==
    /\ state[n] = "closed"
    /\ state' = [state EXCEPT ![n] = "open"]
    /\ \E l \in Lists : list' = [list EXCEPT ![n] = l]
    /\ UNCHANGED given

GiveNext(n) ==
    /\ state[n] = "open"
    /\ Len(given[n]) < Len(list[n])
    /\ given' = [given EXCEPT ![n] = Append(@, list[n][Len(@) + 1])]
    /\ UNCHANGED <<state, list>>

GiveNone(n) ==
    /\ state[n] = "open"
    /\ given[n] = list[n]
    /\ state' = [state EXCEPT ![n] = "through"]
    /\ UNCHANGED <<list, given>>

Restart(n) ==
    /\ state[n] # "closed"
    /\ state' = [state EXCEPT ![n] = "open"]
    /\ given' = [given EXCEPT ![n] = <<>>]
    /\ UNCHANGED list

\* Scans are closed one by one, or all at once when the statement fails.
Close(S) ==
    /\ state' = [n \in Node |-> IF n \in S THEN "closed" ELSE state[n]]
    /\ list'  = [n \in Node |-> IF n \in S THEN <<>> ELSE list[n]]
    /\ given' = [n \in Node |-> IF n \in S THEN <<>> ELSE given[n]]

Next ==
    \/ \E n \in Node : Open(n) \/ GiveNext(n) \/ GiveNone(n) \/ Restart(n)
    \/ \E S \in SUBSET Node : Close(S)

Spec == Init /\ [][Next]_svars
=============================================================================
