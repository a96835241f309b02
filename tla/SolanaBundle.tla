---------------------------- MODULE SolanaBundle ----------------------------
(***************************************************************************)
(* Jito bundles: submitJitoBundle and getBundleStatus (solana_chain.ts).   *)
(* The block engine runs a bundle's transactions together or not at all.   *)
(* A reply to getBundleStatuses has a row for some of the bundles that     *)
(* were asked for, in an order of its own, and an err in one of several    *)
(* shapes.                                                                 *)
(***************************************************************************)
EXTENDS Integers, Sequences, Functions

CONSTANTS
    Bundles,        \* what is submitted; each is its own id
    MaxAsked        \* bound: ids in one call

VARIABLES
    fate,           \* what became of each bundle: its level, or failed
    submitted,      \* the bundles the engine has
    ids,            \* what the caller was told: the id, or an error
    statuses        \* the answer of getBundleStatus

bundleVars == <<fate, submitted, ids, statuses>>

(***************************************************************************)
(* The block engine and the chain.                                         *)
(***************************************************************************)
Engine(b, next) == fate' = [fate EXCEPT ![b] = next] /\ UNCHANGED <<submitted, ids, statuses>>
Run(b) ==
    \/ b \in submitted /\ fate[b] = "waiting" /\ \E next \in {"processed", "failed"} : Engine(b, next)
    \/ fate[b] = "processed" /\ \E next \in {"waiting", "confirmed"} : Engine(b, next)
    \/ fate[b] = "confirmed" /\ Engine(b, "finalized")

\* submitJitoBundle: the transport may fail on the way there or back; an error in
\* the reply, and a reply without an id, are rejections.
submitJitoBundle(b) ==
    /\ ids[b] # "id"
    /\ \E reply \in {"id", "error", "noId", "http", "lost"}, taken \in BOOLEAN :
          /\ reply = "id" => taken
          /\ reply \in {"error", "noId"} => ~taken
          /\ submitted' = IF taken THEN submitted \cup {b} ELSE submitted
          /\ ids' = [ids EXCEPT ![b] = CASE reply = "id" -> "id"
                                         [] reply \in {"error", "noId"} -> "BroadcastRejected"
                                         [] reply \in {"http", "lost"} -> "RpcError"]
    /\ UNCHANGED <<fate, statuses>>

(***************************************************************************)
(* getBundleStatus.                                                        *)
(***************************************************************************)
NoRow == [id |-> "none"]
ShapesOf(b) == IF fate[b] = "failed" THEN {"Err", "text", "other"} ELSE {"null", "absent", "Ok"}
Rows(b) == {[id |-> b, level |-> fate[b], err |-> shape] : shape \in ShapesOf(b)}

\* Rows of bundles that the engine tells of, each once, and gaps, in any order.
Known(asked) == {i \in DOMAIN asked : fate[asked[i]] # "waiting"}
Replies(asked) ==
    {rows \in UNION {[1..m -> {NoRow} \cup UNION {Rows(asked[i]) : i \in Known(asked)}] : m \in 0..Len(asked)} :
        \A j, k \in DOMAIN rows : rows[j].id = rows[k].id /\ rows[j] # NoRow => j = k}

RowAt(rows, asked, i) == IF i \in DOMAIN rows THEN rows[i] ELSE NoRow     \* a slip: rows come as they were asked for
RowOf(rows, asked, i) ==
    LET mine == {k \in DOMAIN rows : rows[k].id = asked[i]}
    IN  IF mine = {} THEN NoRow ELSE rows[CHOOSE k \in mine : \A j \in mine : k <= j]

IsOk(err) == err \in {"null", "absent", "Ok"}
StateOf(row) ==
    IF row = NoRow THEN "Pending"
    ELSE IF ~IsOk(row.err) THEN "Failed"
    ELSE IF row.level \in {"confirmed", "finalized"} THEN "Landed" ELSE "Pending"

getBundleStatus ==
    /\ \E n \in 1..MaxAsked : \E asked \in [1..n -> {b \in Bundles : ids[b] = "id"}] :
          /\ IsInjective(asked)
          /\ \E rows \in Replies(asked) :
                statuses' = [i \in 1..n |-> [id |-> asked[i], state |-> StateOf(RowOf(rows, asked, i))]]
    /\ UNCHANGED <<fate, submitted, ids>>

Init ==
    /\ fate = [b \in Bundles |-> "waiting"] /\ submitted = {}
    /\ ids = [b \in Bundles |-> "none"] /\ statuses = <<>>

Next == (\E b \in Bundles : Run(b) \/ submitJitoBundle(b)) \/ getBundleStatus

Spec == Init /\ [][Next]_bundleVars

(***************************************************************************)
(* Property.                                                               *)
(***************************************************************************)

\* A bundle is told to have landed only when its transactions are in a block that is
\* confirmed, and to have failed only when none is and none will be, whatever rows the
\* reply left out, in whichever order and shape, however late it is.
BundleStatusIsTrue ==
    \A i \in DOMAIN statuses :
        /\ statuses[i].state = "Landed" => fate[statuses[i].id] \in {"confirmed", "finalized"}
        /\ statuses[i].state = "Failed" => fate[statuses[i].id] = "failed"
=============================================================================
