--------------------------- MODULE EvmStatusWait ---------------------------
(***************************************************************************)
(* EvmChain.getTransactionStatus of one hash with wait: true: poll until   *)
(* the receipt is Confirmations blocks deep or the deadline passes.  The   *)
(* chain grows and reorganises meanwhile, and an endpoint that balances    *)
(* its load answers each read from a node of its own, up to Lag blocks     *)
(* behind.                                                                 *)
(***************************************************************************)
EXTENDS Integers

CONSTANTS
  Confirmations,  \* opts.confirmations
  MaxReorg,       \* blocks a reorganisation takes back at most
  Lag,            \* blocks a node is behind at most
  Drift,          \* blocks between a receipt's read and its tip's at most
  MaxTip          \* bound: the chain's height

ASSUME WaitAssumption ==
  /\ Confirmations \in Nat \ {0}
  /\ MaxReorg \in Nat /\ Lag \in Nat /\ Drift \in Nat
  /\ MaxTip \in Nat \ {0}

VARIABLES
  tip,      \* the canonical chain's height
  hist,     \* by height: where the chain of that tip has the transaction
  step,     \* where the call is
  last,     \* the status it read last: the inclusion the receipt reports
  asked,    \* the tip when it was read
  late,     \* the deadline is past
  aborted   \* the caller's signal

vars == <<tip, hist, step, last, asked, late, aborted>>

\* Height 0: in no block.  A transaction included anew may fare otherwise.
Places == [at : 0 .. MaxTip, ok : BOOLEAN]
Nowhere == [at |-> 0, ok |-> FALSE]

-----------------------------------------------------------------------------
(* The chain.                                                              *)

\* The next block: the blocks above kept are replaced, and the transaction with
\* them if it was there.
NextPlaces(kept) ==
  IF hist[tip].at \in 1 .. kept
    THEN {hist[tip]}
    ELSE {Nowhere} \cup {p \in Places : p.at \in kept + 1 .. tip + 1}

Block ==
  /\ tip < MaxTip
  /\ step = "tip" => tip < asked + Drift
  /\ \E depth \in 0 .. MaxReorg : \E place \in NextPlaces(tip - depth) :
       /\ tip' = tip + 1
       /\ hist' = [t \in 1 .. tip + 1 |-> IF t <= tip THEN hist[t] ELSE place]
  /\ UNCHANGED <<step, last, asked, late, aborted>>

\* The chains a node may answer from.
Views == {t \in 1 .. tip : tip - t <= Lag}

-----------------------------------------------------------------------------
(* The call.                                                               *)

Go(s) == step' = s

\* Entry: an aborted signal is refused before the first poll.
Begin ==
  /\ step = "begin"
  /\ Go(IF aborted THEN "failed" ELSE "read")
  /\ UNCHANGED <<tip, hist, last, asked, late, aborted>>

\* Slip: the deadline is not looked at once there is a receipt.
OnlyUnmined == ~late \/ step = "tip"
InTime == ~late

\* Neither branch goes on past the deadline.
PollOn == Go(IF InTime THEN "sleep" ELSE "failed")

\* Slip: a receipt without a block counts.
AnyReceipt(receipt) == TRUE
Mined(receipt) == receipt.at > 0

\* The transaction and its receipt, from a node each, which may not know the
\* transaction: without either, NotFound or Pending.
StatusOnce(known, receipt) ==
  IF Mined(receipt) /\ known THEN receipt ELSE Nowhere

ReadStatus ==
  /\ step = "read"
  /\ \E known \in BOOLEAN, t \in Views : last' = StatusOnce(known, hist[t])
  /\ asked' = tip
  /\ IF ~Mined(last') THEN PollOn
     ELSE Go(IF Confirmations <= 1 THEN "returned" ELSE "tip")
  /\ UNCHANGED <<tip, hist, late, aborted>>

\* Slip: the block of the receipt is counted twice.
DepthAndOne(height) == height - last.at + 2
Depth(height) == height - last.at + 1

\* getBlockNumber, from any node.
ReadTip ==
  /\ step = "tip"
  /\ \E height \in Views :
       IF Depth(height) >= Confirmations THEN Go("returned") ELSE PollOn
  /\ UNCHANGED <<tip, hist, last, asked, late, aborted>>

ReadFails ==
  /\ step \in {"read", "tip"}
  /\ Go("failed")
  /\ UNCHANGED <<tip, hist, last, asked, late, aborted>>

Wake ==
  /\ step = "sleep"
  /\ Go(IF aborted THEN "failed" ELSE "read")
  /\ UNCHANGED <<tip, hist, last, asked, late, aborted>>

DeadlinePasses ==
  /\ step # "begin"
  /\ ~late
  /\ late' = TRUE
  /\ UNCHANGED <<tip, hist, step, last, asked, aborted>>

Abort ==
  /\ ~aborted
  /\ aborted' = TRUE
  /\ UNCHANGED <<tip, hist, step, last, asked, late>>

-----------------------------------------------------------------------------
Init ==
  /\ tip = 1
  /\ hist \in [{1} -> {p \in Places : p = Nowhere \/ p.at = 1}]
  /\ step = "begin"
  /\ last = Nowhere
  /\ asked = 1
  /\ late = FALSE
  /\ aborted = FALSE

Call == Begin \/ ReadStatus \/ ReadTip \/ ReadFails \/ Wake

Next == Call \/ Block \/ DeadlinePasses \/ Abort

Spec == Init /\ [][Next]_vars

\* Reads, sleeps and the deadline end.
FairSpec == Spec /\ WF_vars(Call) /\ WF_vars(DeadlinePasses)

-----------------------------------------------------------------------------
(* Properties.                                                             *)

\* What a run of the wait and of the chain can hold: a receipt that waits for
\* its depth is of a block the chain has reached.
TypeOK ==
  /\ tip \in 1 .. MaxTip
  /\ hist \in [1 .. tip -> Places]
  /\ \A t \in 1 .. tip : hist[t].at <= t
  /\ step \in {"begin", "read", "tip", "sleep", "returned", "failed"}
  /\ last \in Places /\ last.at <= tip
  /\ step \in {"tip", "returned"} => last.at > 0
  /\ asked \in 1 .. tip
  /\ late \in BOOLEAN /\ aborted \in BOOLEAN

\* Confirmations that cover a reorganisation, the nodes' lag and the blocks
\* that pass between the two reads.
Covered == Confirmations > MaxReorg + Lag + Drift

\* The receipt of a returned status is on the chain and stays there, though
\* neither of its two reads saw the chain of that moment.
SuccessIsFinal == Covered /\ step = "returned" => hist[tip] = last

\* The wait ends, whatever becomes of the transaction: unbounded polling would
\* pin an RPC worker and a connection.
Ends == <>(step \in {"returned", "failed"})
=============================================================================
