---------------------------- MODULE StatusBatch ----------------------------
(***************************************************************************)
(* getTransactionStatus of a list of hashes: at most eight workers share a *)
(* cursor and an abort controller.  EvmChain and SolanaChain hand their    *)
(* controller's signal to each fetch, which may poll until a deadline;     *)
(* UtxoChain, TronChain and StellarChain keep a flag and read once.        *)
(*                                                                         *)
(* JavaScript runs from one await to the next without interruption: an     *)
(* action is what a worker does from the moment its await settles.         *)
(***************************************************************************)
EXTENDS Naturals, FiniteSets

CONSTANTS
  Items,         \* how many hashes the caller passes
  Concurrency,   \* BATCH_STATUS_CONCURRENCY
  Polls          \* a fetch polls until a final answer (wait: true)

ASSUME BatchAssumption ==
  /\ Items \in Nat
  /\ Concurrency \in Nat \ {0}
  /\ Polls \in BOOLEAN

VARIABLES
  cursor,     \* items taken so far; may pass Items
  worker,     \* per worker: its step, its item, the error it throws
  results,    \* per item: the item whose status was stored, or None
  aborted,    \* the batch's own controller or flag
  cancelled,  \* the caller's signal
  late,       \* workers whose fetch is past its deadline
  settled     \* what the caller's promise came to

vars == <<cursor, worker, results, aborted, cancelled, late, settled>>

None == 0
Errors == {"rpc", "timeout", "stopped"}
Workers == 1 .. (IF Concurrency < Items THEN Concurrency ELSE Items)

Reading(i) == [step |-> "read", item |-> i]
Sleeping(i) == [step |-> "sleep", item |-> i]
Failing(i, e) == [step |-> "failing", item |-> i, error |-> e]
Failed(i) == [step |-> "failed", item |-> i]
Done == [step |-> "done"]

Holding(w) == worker[w].step # "done"
Stopped(w) == worker[w].step \in {"failed", "done"}

-----------------------------------------------------------------------------
\* A fetch that polls refuses to begin under an aborted signal; its caller's
\* await settles in a later step.
Begin(i) == IF Polls /\ cancelled THEN Failing(i, "stopped") ELSE Reading(i)

\* Slip: the flag is not looked at between items.
GoesOnAnyway == TRUE
GoesOn == ~aborted

\* Slip: the cursor moves only once the item's status is there.
NotMoved(c) == c
Moved(c) == c + 1

HasItemPast(c) == c < Items

\* The loop's head: stop, or take the next item and begin to fetch it.
Loop(w) ==
  /\ cursor' = IF GoesOn THEN Moved(cursor) ELSE cursor
  /\ worker' = [worker EXCEPT ![w] =
                  IF GoesOn /\ HasItemPast(cursor) THEN Begin(cursor + 1) ELSE Done]
  /\ late' = late \ {w}

\* Promise.all resolves when every worker has, unless one failed before.
ResolveWith(next) ==
  settled' = IF settled = "pending" /\ \A w \in Workers : next[w].step = "done"
               THEN "resolved" ELSE settled

\* Slip: the status goes where the cursor is.
StoreAtCursor(i) == results' = [results EXCEPT ![cursor] = i]
Store(i) == results' = [results EXCEPT ![i] = i]

\* The fetch returns a status.
Return(w) ==
  /\ worker[w].step = "read"
  /\ Store(worker[w].item)
  /\ Loop(w)
  /\ ResolveWith(worker')
  /\ UNCHANGED <<aborted, cancelled>>

Throw(w, e) ==
  /\ worker' = [worker EXCEPT ![w] = Failing(@.item, e)]
  /\ UNCHANGED <<cursor, results, aborted, cancelled, late, settled>>

ReadFails(w) == worker[w].step = "read" /\ Throw(w, "rpc")

\* Slip: the deadline is not looked at once the transaction is included.
PollOnAnyway(w) == TRUE
MayPollOn(w) == w \notin late

\* The poll found nothing final: the next one comes after a sleep.
NotFinal(w) ==
  /\ Polls
  /\ worker[w].step = "read"
  /\ IF MayPollOn(w)
       THEN /\ worker' = [worker EXCEPT ![w] = Sleeping(@.item)]
            /\ UNCHANGED <<cursor, results, aborted, cancelled, late, settled>>
       ELSE Throw(w, "timeout")

\* Slip: only the caller's signal is passed on to the fetch.
CallersSignal == cancelled
ComposedSignal == cancelled \/ aborted

\* The timer or the signal ends the sleep.
Wake(w) ==
  /\ worker[w].step = "sleep"
  /\ IF ComposedSignal
       THEN Throw(w, "stopped")
       ELSE /\ worker' = [worker EXCEPT ![w] = Reading(@.item)]
            /\ UNCHANGED <<cursor, results, aborted, cancelled, late, settled>>

\* Slip: the last rejection is the one the caller sees.
LastRejection(e) == e
Rejection(e) == IF settled = "pending" THEN e ELSE settled

\* The worker catches: it aborts the others and rejects.
Catch(w) ==
  /\ worker[w].step = "failing"
  /\ aborted' = TRUE
  /\ settled' = Rejection(worker[w].error)
  /\ worker' = [worker EXCEPT ![w] = Failed(@.item)]
  /\ UNCHANGED <<cursor, results, cancelled, late>>

DeadlinePasses(w) ==
  /\ Polls
  /\ worker[w].step \in {"read", "sleep"}
  /\ w \notin late
  /\ late' = late \cup {w}
  /\ UNCHANGED <<cursor, worker, results, aborted, cancelled, settled>>

Cancel ==
  /\ Polls
  /\ ~cancelled
  /\ cancelled' = TRUE
  /\ UNCHANGED <<cursor, worker, results, aborted, late, settled>>

-----------------------------------------------------------------------------
\* Every worker runs to its first await before the call returns.
Init ==
  /\ cancelled \in (IF Polls THEN BOOLEAN ELSE {FALSE})
  /\ cursor = Cardinality(Workers)
  /\ worker = [w \in Workers |-> Begin(w)]
  /\ results = [i \in 1 .. Items |-> None]
  /\ aborted = FALSE
  /\ late = {}
  /\ settled = IF Items = 0 THEN "resolved" ELSE "pending"

Step(w) == Return(w) \/ ReadFails(w) \/ NotFinal(w) \/ Wake(w) \/ Catch(w)

Next ==
  \/ \E w \in Workers : Step(w) \/ DeadlinePasses(w)
  \/ Cancel

Spec == Init /\ [][Next]_vars

\* Reads, sleeps and deadlines end.
FairSpec ==
  /\ Spec
  /\ \A w \in Workers : WF_vars(Step(w)) /\ WF_vars(DeadlinePasses(w))

-----------------------------------------------------------------------------
(* Properties.                                                             *)

WorkerStates ==
  [step : {"read", "sleep", "failed"}, item : 1 .. Items]
    \cup [step : {"failing"}, item : 1 .. Items, error : Errors]
    \cup {Done}

\* Every variable holds a value of its kind; no worker is ever on an item the
\* caller did not pass.
TypeOK ==
  /\ cursor \in Nat
  /\ worker \in [Workers -> WorkerStates]
  /\ results \in [1 .. Items -> 0 .. Items]
  /\ aborted \in BOOLEAN
  /\ cancelled \in BOOLEAN
  /\ late \in SUBSET Workers
  /\ settled \in {"pending", "resolved"} \cup Errors

\* runBatchStatus: the shared cursor hands every hash to one worker, and a
\* hash whose status is stored is not fetched again.
EachOnce ==
  \A w \in Workers : Holding(w) =>
    /\ results[worker[w].item] = None
    /\ \A v \in Workers \ {w} : Holding(v) => worker[v].item # worker[w].item

\* A batch that resolves has every hash's own status at its place: no hole, no
\* mix-up.
Complete ==
  settled = "resolved" => \A i \in 1 .. Items : results[i] = i

\* CHANGELOG: "the promise rejects with the underlying error".  The errors of
\* the workers a failure stops are never the ones the caller sees.
RejectsWithCause == settled = "stopped" => cancelled

\* runBatchStatus: what a batch resolves or rejects with is right, and no hash
\* is lost, mixed up or read twice on the way.
BatchHolds == EachOnce /\ Complete /\ RejectsWithCause

\* CHANGELOG: "all workers abort": after a failure no hash is taken up and no
\* poll begins.
NoReadAfterAbort ==
  [][aborted => \A w \in Workers : worker'[w].step = "read" => worker'[w] = worker[w]]_vars

\* Every batch settles and leaves no worker polling, whatever becomes of its
\* transactions: "unbounded polling would pin an RPC worker".
Ends == <>(settled # "pending" /\ \A w \in Workers : Stopped(w))
=============================================================================
