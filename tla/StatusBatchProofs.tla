------------------------- MODULE StatusBatchProofs -------------------------
(***************************************************************************)
(* For any number of hashes and workers: a batch takes every hash once,    *)
(* resolves only with every status at its place, rejects with the error    *)
(* that stopped it, and begins no read after it failed.                    *)
(***************************************************************************)
EXTENDS StatusBatch, FiniteSetTheorems, TLAPS

\* The workers are numbered from 1; there are no more of them than items.
LEMMA WorkersType ==
  /\ Workers \subseteq Nat \ {0}
  /\ IsFiniteSet(Workers)
  /\ Cardinality(Workers) \in Nat
  /\ Cardinality(Workers) <= Items
  /\ Workers = 1 .. Cardinality(Workers)
  <1>. DEFINE n == IF Concurrency < Items THEN Concurrency ELSE Items
  <1>1. n \in Nat /\ n <= Items
    BY BatchAssumption
  <1>2. IsFiniteSet(1 .. n) /\ Cardinality(1 .. n) = n
    <2>1. n \in Int /\ 1 \in Int
      BY <1>1
    <2>2. Cardinality(1 .. n) = IF 1 > n THEN 0 ELSE n - 1 + 1
      BY <2>1, FS_Interval
    <2>. HIDE DEF n
    <2>. QED BY <1>1, <2>1, <2>2, FS_Interval
  <1>. QED BY <1>1, <1>2 DEF Workers

LEMMA BeginType ==
  ASSUME NEW i \in 1 .. Items
  PROVE  /\ Begin(i) \in WorkerStates
         /\ Begin(i).step # "done"
         /\ Begin(i).item = i
         /\ Begin(i).step = "failing" => Begin(i).error = "stopped" /\ cancelled
         /\ Begin(i).step \in {"read", "failing"}
  BY DEF Begin, Failing, Reading, WorkerStates, Errors

-----------------------------------------------------------------------------
(* The inductive invariant.                                                *)

\* Items up to the cursor are stored or in some worker's hands; no item is in
\* two workers' hands.
TakenInv ==
  /\ \A w \in Workers : Holding(w) => worker[w].item <= cursor
  /\ \A i \in 1 .. Items :
       i <= cursor => results[i] = i \/ \E w \in Workers : Holding(w) /\ worker[w].item = i
  /\ \A i \in 1 .. Items : results[i] \in {None, i} /\ (results[i] = i => i <= cursor)
  /\ EachOnce

\* A worker stops early only when the batch was aborted, and that rejects.
StopInv ==
  /\ \A w \in Workers : worker[w].step = "done" => aborted \/ cursor >= Items
  /\ aborted => settled \notin {"pending", "resolved"}
  /\ \A w \in Workers : worker[w].step = "failed" => aborted
  /\ settled = "resolved" => \A w \in Workers : worker[w].step = "done"
  /\ Items = 0 \/ Workers # {}

\* The errors of stopped workers come after another error or the caller's
\* signal.
CauseInv ==
  /\ \A w \in Workers :
       worker[w].step = "failing" /\ worker[w].error = "stopped" => aborted \/ cancelled
  /\ RejectsWithCause

IInv == TypeOK /\ TakenInv /\ StopInv /\ CauseInv

LEMMA InvInit == Init => IInv
  <1>. SUFFICES ASSUME Init PROVE IInv
    OBVIOUS
  <1>1. cursor \in Nat /\ cursor <= Items /\ Workers = 1 .. cursor
    BY WorkersType DEF Init
  <1>2. \A w \in Workers : w \in 1 .. Items /\ w <= cursor
    BY <1>1, BatchAssumption
  <1>3. worker = [w \in Workers |-> Begin(w)]
    BY DEF Init
  <1>4. \A w \in Workers : /\ worker[w] \in WorkerStates /\ Holding(w) /\ worker[w].item = w
                           /\ worker[w].step \in {"read", "failing"}
                           /\ worker[w].step = "failing" => cancelled
    <2>. SUFFICES ASSUME NEW w \in Workers
                  PROVE  /\ worker[w] \in WorkerStates /\ Holding(w) /\ worker[w].item = w
                         /\ worker[w].step \in {"read", "failing"}
                         /\ worker[w].step = "failing" => cancelled
      OBVIOUS
    <2>1. worker[w] = Begin(w)
      BY <1>3
    <2>2. w \in 1 .. Items
      BY <1>2
    <2>. QED BY <2>1, <2>2, BeginType DEF Holding
  <1>5. results = [i \in 1 .. Items |-> None] /\ aborted = FALSE /\ late = {}
        /\ settled = IF Items = 0 THEN "resolved" ELSE "pending"
    BY DEF Init
  <1>6. cancelled \in BOOLEAN
    BY DEF Init
  <1>7. TypeOK
    <2>1. worker \in [Workers -> WorkerStates]
      BY <1>3, <1>4
    <2>2. results \in [1 .. Items -> 0 .. Items]
      <3>1. None \in 0 .. Items
        BY BatchAssumption DEF None
      <3>. QED BY <1>5, <3>1
    <2>3. late \in SUBSET Workers /\ aborted \in BOOLEAN /\ settled \in {"pending", "resolved"}
      BY <1>5
    <2>. QED BY <1>1, <1>6, <2>1, <2>2, <2>3 DEF TypeOK
  <1>8. TakenInv
    <2>1. \A i \in 1 .. Items : i <= cursor => i \in Workers
      BY <1>1, BatchAssumption
    <2>2. \A i \in 1 .. Items : results[i] = None /\ results[i] # i
      BY <1>5, BatchAssumption DEF None
    <2>. QED BY <2>1, <2>2, <1>2, <1>4 DEF TakenInv, EachOnce
  <1>9. StopInv
    <2>1. \A w \in Workers : worker[w].step # "done" /\ worker[w].step # "failed"
      BY <1>4
    <2>2. Items = 0 \/ Workers # {}
      <3>1. Items = 0 \/ 1 \in Workers
        BY BatchAssumption DEF Workers
      <3>. QED BY <3>1
    <2>3. settled = "resolved" => \A w \in Workers : FALSE
      BY <1>1, <1>5, BatchAssumption
    <2>. QED BY <1>5, <2>1, <2>2, <2>3 DEF StopInv
  <1>10. CauseInv
    BY <1>4, <1>5 DEF CauseInv, RejectsWithCause
  <1>. QED BY <1>7, <1>8, <1>9, <1>10 DEF IInv

-----------------------------------------------------------------------------
\* A step that only changes how worker w stands to the item it holds.
LEMMA SameItem ==
  ASSUME IInv, NEW w \in Workers, NEW s \in WorkerStates,
         Holding(w), s.step # "done", s.item = worker[w].item,
         worker' = [worker EXCEPT ![w] = s], UNCHANGED <<cursor, results>>
  PROVE  /\ TakenInv'
         /\ worker' \in [Workers -> WorkerStates]
         /\ worker'[w] = s
         /\ \A v \in Workers \ {w} : worker'[v] = worker[v]
  <1>1. /\ worker' \in [Workers -> WorkerStates] /\ worker'[w] = s
        /\ \A v \in Workers \ {w} : worker'[v] = worker[v]
    BY DEF IInv, TypeOK
  <1>2. \A v \in Workers : (Holding(v) <=> Holding(v)') /\ (Holding(v) => worker'[v].item = worker[v].item)
    BY <1>1 DEF Holding
  <1>3. TakenInv'
    BY <1>2 DEF IInv, TakenInv, EachOnce
  <1>. QED BY <1>1, <1>3

LEMMA ThrowStep ==
  ASSUME IInv, NEW w \in Workers, NEW e \in Errors, worker[w].step \in {"read", "sleep"},
         e = "stopped" => aborted \/ cancelled, Throw(w, e)
  PROVE  IInv'
  <1>. DEFINE s == Failing(worker[w].item, e)
  <1>1. Holding(w) /\ worker[w] \in WorkerStates /\ worker[w].item \in 1 .. Items
    BY DEF IInv, TypeOK, Holding, WorkerStates, Done
  <1>2. s \in WorkerStates /\ s.step = "failing" /\ s.item = worker[w].item /\ s.error = e
    BY <1>1 DEF Failing, WorkerStates
  <1>3. worker' = [worker EXCEPT ![w] = s] /\ UNCHANGED <<cursor, results, aborted, cancelled, late, settled>>
    BY DEF Throw, IInv, TypeOK
  <1>. HIDE DEF s
  <1>4. /\ TakenInv' /\ worker' \in [Workers -> WorkerStates] /\ worker'[w] = s
        /\ \A v \in Workers \ {w} : worker'[v] = worker[v]
    BY <1>1, <1>2, <1>3, SameItem
  <1>5. TypeOK'
    BY <1>3, <1>4 DEF IInv, TypeOK
  <1>6. StopInv'
    <2>1. settled # "resolved"
      BY <1>1 DEF IInv, StopInv, Holding
    <2>. QED BY <2>1, <1>2, <1>3, <1>4 DEF IInv, StopInv
  <1>7. CauseInv'
    BY <1>2, <1>3, <1>4 DEF IInv, CauseInv, RejectsWithCause
  <1>. QED BY <1>4, <1>5, <1>6, <1>7 DEF IInv

\* A worker that goes on with the item it holds.
LEMMA GoOnStep ==
  ASSUME IInv, NEW w \in Workers, NEW s \in WorkerStates, worker[w].step \in {"read", "sleep"},
         s.step \in {"read", "sleep"}, s.item = worker[w].item,
         worker' = [worker EXCEPT ![w] = s],
         UNCHANGED <<cursor, results, aborted, cancelled, late, settled>>
  PROVE  IInv'
  <1>1. Holding(w)
    BY DEF Holding
  <1>2. /\ TakenInv' /\ worker' \in [Workers -> WorkerStates] /\ worker'[w] = s
        /\ \A v \in Workers \ {w} : worker'[v] = worker[v]
    BY <1>1, SameItem
  <1>3. TypeOK'
    BY <1>2 DEF IInv, TypeOK
  <1>4. StopInv' /\ CauseInv'
    BY <1>1, <1>2 DEF IInv, StopInv, CauseInv, RejectsWithCause, Holding
  <1>. QED BY <1>2, <1>3, <1>4 DEF IInv

LEMMA CatchStep ==
  ASSUME IInv, NEW w \in Workers, Catch(w)
  PROVE  IInv'
  <1>. DEFINE s == Failed(worker[w].item)
  <1>1. /\ worker[w].step = "failing" /\ Holding(w) /\ worker[w].item \in 1 .. Items
        /\ worker[w].error \in Errors
    BY DEF IInv, TypeOK, Holding, WorkerStates, Done, Catch
  <1>2. s \in WorkerStates /\ s.step = "failed" /\ s.item = worker[w].item
    BY <1>1 DEF Failed, WorkerStates
  <1>3. /\ worker' = [worker EXCEPT ![w] = s] /\ aborted' = TRUE
        /\ settled' = Rejection(worker[w].error) /\ UNCHANGED <<cursor, results, cancelled, late>>
    BY DEF Catch, IInv, TypeOK
  <1>. HIDE DEF s
  <1>4. /\ TakenInv' /\ worker' \in [Workers -> WorkerStates] /\ worker'[w] = s
        /\ \A v \in Workers \ {w} : worker'[v] = worker[v]
    BY <1>1, <1>2, <1>3, SameItem
  <1>5. settled # "resolved"
    BY <1>1 DEF IInv, StopInv, Holding
  <1>6. settled' \in Errors
    BY <1>1, <1>3, <1>5 DEF Rejection, IInv, TypeOK, Errors
  <1>7. TypeOK'
    BY <1>3, <1>4, <1>6 DEF IInv, TypeOK
  <1>8. StopInv'
    BY <1>2, <1>3, <1>4, <1>6 DEF IInv, StopInv, Errors
  <1>9. CauseInv'
    <2>1. settled = "pending" => ~aborted
      BY DEF IInv, StopInv
    <2>. QED BY <2>1, <1>1, <1>2, <1>3, <1>4 DEF IInv, CauseInv, RejectsWithCause, Rejection
  <1>. QED BY <1>4, <1>7, <1>8, <1>9 DEF IInv

LEMMA ReturnStep ==
  ASSUME IInv, NEW w \in Workers, Return(w)
  PROVE  IInv'
  <1>. DEFINE i == worker[w].item
              s == IF GoesOn /\ HasItemPast(cursor) THEN Begin(cursor + 1) ELSE Done
  <1>1. /\ worker[w].step = "read" /\ Holding(w) /\ i \in 1 .. Items /\ i <= cursor
        /\ results[i] = None /\ cursor \in Nat
    BY DEF IInv, TypeOK, TakenInv, EachOnce, Holding, WorkerStates, Done, Return
  <1>2. /\ worker' = [worker EXCEPT ![w] = s]
        /\ cursor' = IF GoesOn THEN cursor + 1 ELSE cursor
        /\ results' = [results EXCEPT ![i] = i]
        /\ late' = late \ {w}
        /\ UNCHANGED <<aborted, cancelled>>
    BY DEF Return, Loop, Store, Moved
  <1>3. settled' = IF settled = "pending" /\ \A v \in Workers : worker'[v].step = "done"
                     THEN "resolved" ELSE settled
    BY DEF Return, ResolveWith
  <1>4. GoesOn /\ HasItemPast(cursor) => cursor + 1 \in 1 .. Items
    BY <1>1, BatchAssumption DEF HasItemPast
  <1>5. /\ s \in WorkerStates
        /\ s.step # "done" =>
             /\ GoesOn /\ cursor + 1 \in 1 .. Items /\ s.item = cursor + 1
             /\ s.step \in {"read", "failing"}
             /\ s.step = "failing" => s.error = "stopped" /\ cancelled
        /\ s.step = "done" => aborted \/ cursor' >= Items
    <2>1. CASE GoesOn /\ HasItemPast(cursor)
      <3>1. s = Begin(cursor + 1)
        BY <2>1
      <3>. HIDE DEF s
      <3>. QED BY <3>1, <2>1, <1>4, BeginType
    <2>2. CASE ~(GoesOn /\ HasItemPast(cursor))
      <3>1. s = Done /\ Done \in WorkerStates /\ Done.step = "done"
        BY <2>2 DEF Done, WorkerStates
      <3>2. aborted \/ cursor' >= Items
        BY <2>2, <1>1, <1>2, BatchAssumption DEF GoesOn, HasItemPast
      <3>. QED BY <3>1, <3>2
    <2>. QED BY <2>1, <2>2
  <1>. HIDE DEF s
  <1>6. /\ worker' \in [Workers -> WorkerStates] /\ worker'[w] = s
        /\ \A v \in Workers \ {w} : worker'[v] = worker[v]
    BY <1>2, <1>5 DEF IInv, TypeOK
  <1>7. cursor' \in Nat /\ cursor <= cursor'
    BY <1>1, <1>2
  <1>8. /\ results' \in [1 .. Items -> 0 .. Items] /\ results'[i] = i
        /\ \A j \in (1 .. Items) \ {i} : results'[j] = results[j]
    BY <1>1, <1>2 DEF IInv, TypeOK
  <1>9. TypeOK'
    BY <1>2, <1>3, <1>6, <1>7, <1>8 DEF IInv, TypeOK
  <1>. HIDE DEF i
  <1>10. TakenInv'
    <2>1. \A v \in Workers \ {w} : /\ Holding(v)' <=> Holding(v)
                                   /\ Holding(v) => /\ worker'[v].item = worker[v].item
                                                    /\ worker[v].item \in 1 .. Items
                                                    /\ worker[v].item <= cursor
                                                    /\ worker[v].item # i
                                                    /\ results[worker[v].item] = None
      BY <1>1, <1>6 DEF IInv, TakenInv, EachOnce, Holding, TypeOK, WorkerStates, Done, i
    <2>2. Holding(w)' => /\ worker'[w].item = cursor + 1 /\ cursor' = cursor + 1
                         /\ cursor + 1 \in 1 .. Items
      BY <1>2, <1>5, <1>6 DEF Holding
    <2>3. \A v \in Workers : Holding(v)' => worker'[v].item <= cursor'
      BY <2>1, <2>2, <1>1, <1>7
    <2>4. \A j \in 1 .. Items : results'[j] \in {None, j} /\ (results'[j] = j => j <= cursor')
      BY <1>1, <1>7, <1>8 DEF IInv, TakenInv
    <2>5. ASSUME NEW j \in 1 .. Items, j <= cursor'
          PROVE  results'[j] = j \/ \E v \in Workers : Holding(v)' /\ worker'[v].item = j
      <3>1. CASE j = i
        BY <3>1, <1>8
      <3>2. CASE j # i /\ j <= cursor
        <4>1. results[j] = j \/ \E v \in Workers : Holding(v) /\ worker[v].item = j
          BY <3>2 DEF IInv, TakenInv
        <4>2. CASE results[j] = j
          BY <4>2, <3>2, <1>8
        <4>3. ASSUME NEW v \in Workers, Holding(v), worker[v].item = j
              PROVE  \E u \in Workers : Holding(u)' /\ worker'[u].item = j
          BY <4>3, <3>2, <2>1 DEF i
        <4>. QED BY <4>1, <4>2, <4>3
      <3>3. CASE j # i /\ ~(j <= cursor)
        <4>1. cursor' = cursor + 1 /\ j = cursor + 1
          BY <3>3, <2>5, <1>1, <1>2, BatchAssumption
        <4>2. GoesOn /\ HasItemPast(cursor)
          BY <4>1, <1>1, <1>2, BatchAssumption DEF HasItemPast, GoesOn
        <4>3. Holding(w)' /\ worker'[w].item = j
          BY <4>1, <4>2, <1>4, <1>6, BeginType DEF Holding, s
        <4>. QED BY <4>3
      <3>. QED BY <3>1, <3>2, <3>3
    <2>6. EachOnce'
      <3>1. ASSUME NEW v \in Workers \ {w}, Holding(v)'
            PROVE  results'[worker'[v].item] = None /\ (Holding(w)' => worker'[w].item # worker'[v].item)
        BY <3>1, <2>1, <2>2, <1>1, <1>8
      <3>2. ASSUME Holding(w)' PROVE results'[worker'[w].item] = None
        <4>1. cursor + 1 # i /\ cursor + 1 \in 1 .. Items
          BY <3>2, <2>2, <1>1, BatchAssumption
        <4>2. results[cursor + 1] = None
          BY <4>1, <1>1 DEF IInv, TakenInv
        <4>. QED BY <3>2, <4>1, <4>2, <2>2, <1>8
      <3>3. ASSUME NEW v \in Workers \ {w}, NEW u \in Workers \ {w}, u # v, Holding(v)', Holding(u)'
            PROVE  worker'[u].item # worker'[v].item
        BY <3>3, <2>1 DEF IInv, TakenInv, EachOnce
      <3>. QED BY <3>1, <3>2, <3>3 DEF EachOnce
    <2>. QED BY <2>3, <2>4, <2>5, <2>6 DEF TakenInv
  <1>11. StopInv'
    <2>1. settled # "resolved"
      BY <1>1 DEF IInv, StopInv, Holding
    <2>2. \A v \in Workers : worker'[v].step = "done" => aborted' \/ cursor' >= Items
      BY <1>1, <1>2, <1>5, <1>6, <1>7, BatchAssumption DEF IInv, StopInv
    <2>3. \A v \in Workers : worker'[v].step = "failed" => aborted'
      BY <1>2, <1>5, <1>6 DEF IInv, StopInv
    <2>4. aborted' => settled' \notin {"pending", "resolved"}
      BY <2>1, <1>2, <1>3 DEF IInv, StopInv
    <2>5. settled' = "resolved" => \A v \in Workers : worker'[v].step = "done"
      BY <2>1, <1>3
    <2>. QED BY <2>2, <2>3, <2>4, <2>5 DEF IInv, StopInv
  <1>12. CauseInv'
    BY <1>2, <1>3, <1>5, <1>6 DEF IInv, CauseInv, RejectsWithCause
  <1>. QED BY <1>9, <1>10, <1>11, <1>12 DEF IInv

LEMMA InvStep == IInv /\ [Next]_vars => IInv'
  <1>. SUFFICES ASSUME IInv, [Next]_vars PROVE IInv'
    OBVIOUS
  <1>1. ASSUME NEW w \in Workers, Return(w) PROVE IInv'
    BY <1>1, ReturnStep
  <1>2. ASSUME NEW w \in Workers, ReadFails(w) PROVE IInv'
    BY <1>2, ThrowStep DEF ReadFails, Errors
  <1>3. ASSUME NEW w \in Workers, NotFinal(w) PROVE IInv'
    <2>1. CASE MayPollOn(w)
      <3>. DEFINE s == Sleeping(worker[w].item)
      <3>1. worker[w].step = "read" /\ worker[w].item \in 1 .. Items
        BY <1>3 DEF NotFinal, IInv, TypeOK, WorkerStates, Done
      <3>2. s \in WorkerStates /\ s.step = "sleep" /\ s.item = worker[w].item
        BY <3>1 DEF Sleeping, WorkerStates
      <3>3. worker' = [worker EXCEPT ![w] = s] /\ UNCHANGED <<cursor, results, aborted, cancelled, late, settled>>
        BY <1>3, <2>1 DEF NotFinal, IInv, TypeOK
      <3>. HIDE DEF s
      <3>. QED BY <3>1, <3>2, <3>3, GoOnStep
    <2>2. CASE ~MayPollOn(w)
      BY <1>3, <2>2, ThrowStep DEF NotFinal, Errors
    <2>. QED BY <2>1, <2>2
  <1>4. ASSUME NEW w \in Workers, Wake(w) PROVE IInv'
    <2>1. CASE ComposedSignal
      <3>1. (aborted \/ cancelled) /\ Throw(w, "stopped") /\ worker[w].step = "sleep"
        BY <1>4, <2>1 DEF Wake, ComposedSignal
      <3>. QED BY <3>1, ThrowStep DEF Errors
    <2>2. CASE ~ComposedSignal
      <3>. DEFINE s == Reading(worker[w].item)
      <3>1. worker[w].step = "sleep" /\ worker[w].item \in 1 .. Items
        BY <1>4 DEF Wake, IInv, TypeOK, WorkerStates, Done
      <3>2. s \in WorkerStates /\ s.step = "read" /\ s.item = worker[w].item
        BY <3>1 DEF Reading, WorkerStates
      <3>3. worker' = [worker EXCEPT ![w] = s] /\ UNCHANGED <<cursor, results, aborted, cancelled, late, settled>>
        BY <1>4, <2>2 DEF Wake, IInv, TypeOK
      <3>. HIDE DEF s
      <3>. QED BY <3>1, <3>2, <3>3, GoOnStep
    <2>. QED BY <2>1, <2>2
  <1>5. ASSUME NEW w \in Workers, Catch(w) PROVE IInv'
    BY <1>5, CatchStep
  <1>6. ASSUME NEW w \in Workers, DeadlinePasses(w) PROVE IInv'
    BY <1>6 DEF DeadlinePasses, IInv, TypeOK, TakenInv, EachOnce, StopInv, CauseInv, RejectsWithCause, Holding
  <1>7. CASE Cancel
    BY <1>7 DEF Cancel, IInv, TypeOK, TakenInv, EachOnce, StopInv, CauseInv, RejectsWithCause, Holding
  <1>8. CASE UNCHANGED vars
    BY <1>8 DEF vars, IInv, TypeOK, TakenInv, EachOnce, StopInv, CauseInv, RejectsWithCause, Holding
  <1>. QED BY <1>1, <1>2, <1>3, <1>4, <1>5, <1>6, <1>7, <1>8 DEF Next, Step

-----------------------------------------------------------------------------
(* What it says.                                                           *)

THEOREM Invariance == Spec => []IInv
  BY InvInit, InvStep, PTL DEF Spec

\* Every hash is in the hands of one worker at most, and is not fetched again
\* once its status is stored.
THEOREM TakenOnce == Spec => []EachOnce
  <1>1. IInv => EachOnce
    BY DEF IInv, TakenInv
  <1>. QED BY <1>1, Invariance, PTL

\* A batch that resolves has no hole and no status at another hash's place.
THEOREM ResolvesComplete == Spec => []Complete
  <1>1. IInv => Complete
    <2>. SUFFICES ASSUME IInv, settled = "resolved", NEW i \in 1 .. Items PROVE results[i] = i
      BY DEF Complete
    <2>1. \A w \in Workers : worker[w].step = "done"
      BY DEF IInv, StopInv
    <2>2. cursor >= Items
      <3>1. PICK w \in Workers : TRUE
        BY DEF IInv, StopInv
      <3>. QED BY <2>1, <3>1 DEF IInv, StopInv
    <2>3. i <= cursor
      BY <2>2, BatchAssumption DEF IInv, TypeOK
    <2>. QED BY <2>1, <2>3 DEF IInv, TakenInv, Holding
  <1>. QED BY <1>1, Invariance, PTL

\* The caller sees the error that stopped the batch.
THEOREM RejectsTruly == Spec => []RejectsWithCause
  <1>1. IInv => RejectsWithCause
    BY DEF IInv, CauseInv
  <1>. QED BY <1>1, Invariance, PTL

\* After a failure no worker begins a read: of another hash or another poll.
THEOREM AbortStops == Spec => NoReadAfterAbort
  <1>1. IInv /\ [Next]_vars =>
          [aborted => \A w \in Workers : worker'[w].step = "read" => worker'[w] = worker[w]]_vars
    <2>. SUFFICES ASSUME IInv, [Next]_vars, aborted, NEW w \in Workers, worker'[w].step = "read"
                  PROVE  worker'[w] = worker[w]
      OBVIOUS
    <2>. USE DEF IInv, TypeOK
    <2>1. ASSUME NEW v \in Workers, Return(v) PROVE worker'[w] = worker[w]
      <3>1. worker' = [worker EXCEPT ![v] = Done]
        BY <2>1 DEF Return, Loop, GoesOn
      <3>. QED BY <3>1 DEF Done
    <2>2. ASSUME NEW v \in Workers, NEW e, Throw(v, e) PROVE worker'[w] = worker[w]
      BY <2>2 DEF Throw, Failing
    <2>3. ASSUME NEW v \in Workers, NotFinal(v) PROVE worker'[w] = worker[w]
      <3>1. CASE MayPollOn(v)
        <4>1. worker' = [worker EXCEPT ![v] = Sleeping(@.item)]
          BY <2>3, <3>1 DEF NotFinal
        <4>. QED BY <4>1 DEF Sleeping
      <3>2. CASE ~MayPollOn(v)
        BY <2>2, <2>3, <3>2 DEF NotFinal
      <3>. QED BY <3>1, <3>2
    <2>4. ASSUME NEW v \in Workers, Wake(v) PROVE worker'[w] = worker[w]
      BY <2>2, <2>4 DEF Wake, ComposedSignal
    <2>5. ASSUME NEW v \in Workers, Catch(v) PROVE worker'[w] = worker[w]
      BY <2>5 DEF Catch, Failed
    <2>6. ASSUME NEW v \in Workers, DeadlinePasses(v) \/ ReadFails(v) PROVE worker'[w] = worker[w]
      BY <2>2, <2>6 DEF DeadlinePasses, ReadFails
    <2>7. Cancel \/ UNCHANGED vars => worker'[w] = worker[w]
      BY DEF Cancel, vars
    <2>. QED BY <2>1, <2>3, <2>4, <2>5, <2>6, <2>7 DEF Next, Step
  <1>. QED BY <1>1, Invariance, PTL DEF Spec, NoReadAfterAbort

\* What a batch resolves or rejects with is right.
THEOREM BatchIsRight == Spec => []BatchHolds
  BY TakenOnce, ResolvesComplete, RejectsTruly, PTL DEF BatchHolds
=============================================================================
