----------------------------- MODULE SolanaWait -----------------------------
(***************************************************************************)
(* SolanaChain.getTransactionStatus of one transaction while the cluster   *)
(* decides about it: read once, or polled until confirmed or finalized.    *)
(*                                                                         *)
(* A leader puts the transaction in a block (processed), the cluster votes *)
(* for the block (confirmed) and roots it (finalized).  A block that is no *)
(* more than processed may lose to a fork, where the transaction may run   *)
(* again and fare otherwise.  Nodes trail: each read may tell of any state *)
(* that there has been.                                                    *)
(***************************************************************************)
EXTENDS Integers

CONSTANTS
    Options,    \* what callers ask for: [wait, confirmations, timeout]
    MaxForks    \* bound: blocks with the transaction that lose to a fork

VARIABLES
    block,      \* where the transaction is: [level, ok]
    seen,       \* every state it has been in
    forks,      \* blocks dropped
    call,       \* the call: [step, opts, last]
    late,       \* its deadline has passed
    stop,       \* its caller's signal is aborted
    status      \* what it returned or threw

waitVars == <<block, seen, forks, call, late, stop, status>>

At(level, ok) == [level |-> level, ok |-> ok]
Nowhere == At("none", FALSE)
Error(kind) == [kind |-> kind]
NotSaid == Error("none")

(***************************************************************************)
(* The cluster.                                                            *)
(***************************************************************************)
Moves(next) ==
    /\ block' = next /\ seen' = seen \cup {next}
    /\ UNCHANGED <<call, late, stop, status>>
Include == block = Nowhere /\ (\E ok \in BOOLEAN : Moves(At("processed", ok))) /\ UNCHANGED forks
Vote ==
    /\ \/ block.level = "processed" /\ Moves(At("confirmed", block.ok))
       \/ block.level = "confirmed" /\ Moves(At("finalized", block.ok))
    /\ UNCHANGED forks
Fork == block.level = "processed" /\ forks < MaxForks /\ forks' = forks + 1 /\ Moves(Nowhere)

(***************************************************************************)
(* One read: getTransaction and getSignatureStatus side by side, each from *)
(* a node of its own.                                                      *)
(***************************************************************************)
InABlock(state) == state.level # "none"                     \* a slip: commitment 'processed'
Fetchable(state) == state.level \in {"confirmed", "finalized"}

\* A ledger may be pruned, and a transaction have no meta.
Fetched(state) == [kind |-> "tx", ok |-> state.ok]
TransactionReplies ==
    {Error("error"), Error("null"), Error("noMeta")} \cup {Fetched(s) : s \in {t \in seen : Fetchable(t)}}
SignatureReplies == seen \cup {At("error", FALSE)}

\* normaliseSolanaConfirmations: a rooted block has none to count.  -1 stands for null.
Confirmations(signature) ==
    CASE signature.level = "processed" -> 0
      [] signature.level = "confirmed" -> 1
      [] signature.level = "finalized" -> 32
      [] OTHER -> -1
Says(verdict, signature) ==
    [kind |-> "status", status |-> verdict, confirmations |-> Confirmations(signature)]

\* The signature alone decides only about a failure that is settled.
InAnyBlock(signature) == signature.level # "none"           \* a slip: processed is settled
Settled(signature) == signature.level \in {"confirmed", "finalized"}
FromSignature(signature) ==
    IF signature.level = "error" THEN Error("rpc")
    ELSE IF signature.level = "none" THEN Says("NotFound", signature)
    ELSE IF Settled(signature) /\ ~signature.ok THEN Says("Failed", signature)
    ELSE Says("Pending", signature)

getSolanaStatusOnce(tx, signature) ==
    CASE tx.kind = "error" -> Error("rpc")
      [] tx.kind = "null" -> FromSignature(signature)
      [] tx.kind = "noMeta" -> Says("Pending", signature)
      [] tx.kind = "tx" -> Says(IF tx.ok THEN "Success" ELSE "Failed", signature)

(***************************************************************************)
(* The call.                                                               *)
(***************************************************************************)
Chain == <<block, seen, forks>>
Go(step) == call' = [call EXCEPT !.step = step] /\ UNCHANGED <<Chain, late, stop, status>>
Return(said) ==
    /\ call' = [call EXCEPT !.step = "done"] /\ status' = said
    /\ UNCHANGED <<Chain, late, stop>>

\* 1 is confirmed and 32 is finalized; nothing between, and no wait without an end.
Refused(opts) ==
    \/ ~opts.wait /\ opts.confirmations > 1
    \/ opts.wait /\ ((opts.confirmations # 1 /\ opts.confirmations < 32) \/ ~opts.timeout)

Ask ==
    /\ call.step = "idle"
    /\ \E opts \in Options :
          LET refused == Refused(opts) \/ (opts.wait /\ stop)
          IN  /\ call' = [call EXCEPT !.step = IF refused THEN "done" ELSE "read", !.opts = opts]
              /\ status' = IF refused THEN Error("invalid") ELSE status
    /\ UNCHANGED <<Chain, late, stop>>

PollOnAnyway == TRUE        \* a slip: the deadline is not looked at
MayPollOn == ~late
PollOn == IF MayPollOn THEN Go("sleep") ELSE Return(Error("timeout"))

IsFinal(read) == read.kind = "status" /\ read.status \in {"Success", "Failed"}
Read ==
    /\ call.step = "read"
    /\ \E tx \in TransactionReplies, signature \in SignatureReplies :
          LET last == getSolanaStatusOnce(tx, signature)
              wantFinalized == call.opts.confirmations >= 32
          IN  IF last.kind # "status" \/ ~call.opts.wait \/ (IsFinal(last) /\ ~wantFinalized)
              THEN Return(last)
              ELSE IF IsFinal(last)
              THEN call' = [call EXCEPT !.step = "finality", !.last = last] /\ UNCHANGED <<Chain, late, stop, status>>
              ELSE PollOn

\* A second read tells whether what the first one told is finalized.
CheckFinality ==
    /\ call.step = "finality"
    /\ \E signature \in SignatureReplies :
          CASE signature.level = "error" -> Return(Error("rpc"))
            [] signature.level = "finalized" -> Return(call.last)
            [] OTHER -> PollOn

Wake == call.step = "sleep" /\ IF stop THEN Return(Error("aborted")) ELSE Go("read")

DeadlinePasses ==
    /\ call.step \notin {"idle", "done"} /\ call.opts.wait /\ ~late
    /\ late' = TRUE
    /\ UNCHANGED <<Chain, call, stop, status>>
Abort == call.step # "done" /\ ~stop /\ stop' = TRUE /\ UNCHANGED <<Chain, call, late, status>>

Init ==
    /\ block = Nowhere /\ seen = {Nowhere} /\ forks = 0
    /\ call = [step |-> "idle", opts |-> CHOOSE o \in Options : TRUE, last |-> NotSaid]
    /\ late = FALSE /\ stop = FALSE
    /\ status = NotSaid

Step == Read \/ CheckFinality \/ Wake
Next == Include \/ Vote \/ Fork \/ Ask \/ Step \/ DeadlinePasses \/ Abort

Spec == Init /\ [][Next]_waitVars

(***************************************************************************)
(* Properties.                                                             *)
(***************************************************************************)

\* Success and Failed are what the transaction came to and stays at, however the
\* nodes trail and whichever fork they were on: for a caller who waits for 32
\* confirmations, or is told of 32, in a finalized block.
SettledIsTrue ==
    IsFinal(status) =>
        /\ block.level \in {"confirmed", "finalized"}
        /\ block.ok <=> status.status = "Success"
        /\ (call.opts.confirmations >= 32 \/ status.confirmations = 32) => block.level = "finalized"

\* A call that began returns or throws, also of a transaction that is never found,
\* never finalized, or whose ledger was pruned.
WaitEnds == call.step \notin {"idle", "done"} ~> call.step = "done"
=============================================================================
