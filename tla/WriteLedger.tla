---------------------------- MODULE WriteLedger -----------------------------
(***************************************************************************)
(* What a writing call promises, with no dataset, cursor or handle: it     *)
(* makes the rows of its source durable one chunk after another, from the  *)
(* first on, may stop between two chunks, and reports success only when    *)
(* every row is durable.  A call whose chunk is 0 thus has all of its rows *)
(* durable at once, or never.  Nothing durable is taken back.              *)
(***************************************************************************)
EXTENDS Chunking

CONSTANT Calls

VARIABLES
    size,      \* the number of source rows of each call
    chunk,     \* lance.write_chunk_rows when it runs
    durable,   \* the source rows of each call the dataset has taken
    state      \* "idle", "running", "ok" or "failed"

lvars == <<size, chunk, durable, state>>

Init ==
    /\ size \in [Calls -> Nat]
    /\ chunk \in [Calls -> Nat]
    /\ durable = [c \in Calls |-> {}]
    /\ state = [c \in Calls |-> "idle"]

Begin(c) ==
    /\ state[c] = "idle"
    /\ state' = [state EXCEPT ![c] = "running"]
    /\ UNCHANGED <<size, chunk, durable>>

\* The next chunk becomes durable, all of it in one step.
Apply(c) ==
    /\ state[c] = "running"
    /\ \E n \in 0 .. size[c] :
         /\ n < size[c]
         /\ durable[c] = Positions(0, n)
         /\ durable' = [durable EXCEPT
              ![c] = Positions(0, NextStop(size[c], chunk[c], n))]
    /\ UNCHANGED <<size, chunk, state>>

Succeed(c) ==
    /\ state[c] = "running"
    /\ durable[c] = Positions(0, size[c])
    /\ state' = [state EXCEPT ![c] = "ok"]
    /\ UNCHANGED <<size, chunk, durable>>

\* A call may be turned away before it has begun.
Fail(c) ==
    /\ state[c] \in {"idle", "running"}
    /\ state' = [state EXCEPT ![c] = "failed"]
    /\ UNCHANGED <<size, chunk, durable>>

Next == \E c \in Calls : Begin(c) \/ Apply(c) \/ Succeed(c) \/ Fail(c)

Spec == Init /\ [][Next]_lvars
=============================================================================
