-------------------------- MODULE WriteRefinement ---------------------------
(***************************************************************************)
(* The write path implements the ledger: the rows a call has made durable  *)
(* are read off the versions in the dataset's log, not off the counters of *)
(* the call.                                                               *)
(***************************************************************************)
EXTENDS WritePath

\* The source rows of call c found in the log.
Durable(c) == UNION { Applied(v) : v \in Mine(c) }

StateOf(c) ==
    CASE pc[c] = "new" -> "idle"
      [] Running(c)    -> "running"
      [] pc[c] = "ok"  -> "ok"
      [] OTHER         -> "failed"

Ledger == INSTANCE WriteLedger WITH
    size    <- [c \in Calls |-> Len(Source(c))],
    chunk   <- [c \in Calls |-> args[c].chunk],
    durable <- [c \in Calls |-> Durable(c)],
    state   <- [c \in Calls |-> StateOf(c)]

\* Every behaviour of the write path, interleaved, interrupted, refused and
\* retried as it may be, is one of the ledger.
ImplementsLedger == Ledger!Spec

\* A call that runs comes to an end: no chunk is fetched for ever, and the
\* re-executions of a contended merge die out.
EveryCallEnds == \A c \in Calls : Running(c) ~> Ended(c)
=============================================================================
