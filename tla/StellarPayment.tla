--------------------------- MODULE StellarPayment ---------------------------
(***************************************************************************)
(* Payments of one Stellar account, signed, broadcast, asked for and       *)
(* signed anew: createTransferTransaction, buildTransactionEnvelope,       *)
(* signTransaction, broadcast and getTransactionStatus (stellar_chain.ts,  *)
(* stellar_transactions.ts, stellar_wallet.ts).                            *)
(*                                                                         *)
(* The ledger is the sequence of the account's transactions that were      *)
(* applied, with or without success: each takes the sequence number of its *)
(* place.  Horizon answers from the first `ingested` of them.  What a      *)
(* transaction waits in, from the broadcast on, is `pool`.                 *)
(*                                                                         *)
(* Horizon and its node are one server: it does not forget what it has     *)
(* ingested, a request reaches it once or never, and it refuses no         *)
(* transaction that its node holds.                                        *)
(***************************************************************************)
EXTENDS Integers, Sequences, FiniteSets

CONSTANTS
    Payments,       \* what is to be paid
    Txs,            \* the transactions that may be signed
    Request,        \* per payment: the request of createTransferTransaction
    Fees,           \* base fees a ledger may have
    Pricing,        \* gasPricing: a FeePriority, or a number of stroops
    Rule            \* when the caller signs anew: see MayLoad

ASSUME RuleKnown == Rule \in {"any", "ask_first"}
ASSUME FeesAreStroops ==
    /\ Fees \subseteq Nat
    /\ Pricing \in {"SLOW", "NORMAL", "FAST"} \/ Pricing \in Nat

VARIABLES
    tx,             \* per transaction: what the client has of it
    ledger,         \* the transactions that were applied: [tx, paid]
    ingested,       \* how many of them Horizon knows of
    pool,           \* the transactions a node holds
    expired,        \* the transactions whose time bound has passed
    told,           \* per transaction: what broadcast answered last
    verdict         \* per transaction: what getTransactionStatus said last

vars == <<tx, ledger, ingested, pool, expired, told, verdict>>

NoTx == [step |-> "idle"]
Steps == {"fee", "prepare", "signed", "checked", "posted"}
\* "open" stands for no answer yet, and for RpcError, which leaves the outcome open.
\* BroadcastRejected has one of two causes: Horizon's, or a memo that is required.
BroadcastRejected == {"rejected", "requires_memo"}
Answers == {"open", "sent"} \cup BroadcastRejected
Verdicts == {"none", "NotFound", "Success", "Failed"}

Init ==
    /\ tx = [t \in Txs |-> NoTx]
    /\ ledger = <<>> /\ ingested = 0
    /\ pool = {} /\ expired = {}
    /\ told = [t \in Txs |-> "open"]
    /\ verdict = [t \in Txs |-> "none"]

\* The transactions for payment p, but t.
Others(t, p) == {u \in Txs \ {t} : tx[u].step # "idle" /\ tx[u].payment = p}
Applied == {ledger[i].tx : i \in DOMAIN ledger}
PaidBy(n) == {ledger[i].tx : i \in {j \in 1..n : ledger[j].paid}}
Paid == PaidBy(Len(ledger))
Given(t) == tx[t].step \in {"signed", "checked", "posted"}

(***************************************************************************)
(* Building and signing.                                                   *)
(***************************************************************************)
\* createTransferTransaction: a Payment of XLM or of an issued asset to an account,
\* or else a call of the token's contract.
ClassicPayment(req) == req.asset \in {"native", "issued"} /\ req.to = "account"
RefusesTransfer(req) == ~ClassicPayment(req) /\ req.memo

\* _resolveGasPricing: stroops a caller names, or the ledger's fee times the
\* multiplier of the priority; never below 100.
Multiplier(priority) == IF priority = "FAST" THEN 2 ELSE 1
resolveGasPricing(baseFee) ==
    LET stroops == IF Pricing \in {"SLOW", "NORMAL", "FAST"}
                   THEN baseFee * Multiplier(Pricing) ELSE Pricing
    IN  IF stroops > 100 THEN stroops ELSE 100

\* The caller's rules.  "any": it signs and sends what it likes, whenever it likes.
\* "ask_first": as docs/stellar.md:58 has it, the status of what was signed for the
\* payment, and is not being sent, is asked for before it is signed anew.
MayLoad(t, p) ==
    Rule = "ask_first" =>
        \A u \in Others(t, p) : tx[u].step = "signed" /\ verdict[u] \in {"NotFound", "Failed"}

\* The sequence number of a transaction for payment p: the one after the last that
\* Horizon knows of, whatever else was signed.
CountsSigned(p) == ingested + 1 + Cardinality({u \in Txs : tx[u].step # "idle" /\ tx[u].payment = p})
NextSequence(p) == ingested + 1

\* buildTransactionEnvelope: the account as Horizon has it.  The transaction takes
\* the next sequence number.  Kept of the moment: the transactions of the payment
\* that Horizon showed as paid.
LoadAccount(t, p) ==
    /\ tx[t].step = "idle"
    /\ ~RefusesTransfer(Request[p])
    /\ MayLoad(t, p)
    /\ tx' = [tx EXCEPT ![t] = [step |-> "fee", payment |-> p, seq |-> NextSequence(p), fee |-> 0,
                               shown |-> Others(t, p) \cap PaidBy(ingested), posted |-> FALSE]]
    /\ UNCHANGED <<ledger, ingested, pool, expired, told, verdict>>

\* The base fee; with a contract call the transaction is not complete yet.
GetBaseFee(t) ==
    /\ tx[t].step = "fee"
    /\ \E f \in Fees :
           tx' = [tx EXCEPT ![t].fee = resolveGasPricing(f),
                            ![t].step = IF ClassicPayment(Request[tx[t].payment])
                                        THEN "signed" ELSE "prepare"]
    /\ UNCHANGED <<ledger, ingested, pool, expired, told, verdict>>

\* prepareSorobanTransaction: the resource fee of the simulation on top.
Prepare(t) ==
    /\ tx[t].step = "prepare"
    /\ \E resource \in Fees :
           tx' = [tx EXCEPT ![t].fee = @ + resource, ![t].step = "signed"]
    /\ UNCHANGED <<ledger, ingested, pool, expired, told, verdict>>

\* A read or the simulation fails: nothing was signed.
GiveUp(t) ==
    /\ tx[t].step \in {"fee", "prepare"}
    /\ tx' = [tx EXCEPT ![t] = NoTx]
    /\ UNCHANGED <<ledger, ingested, pool, expired, told, verdict>>

(***************************************************************************)
(* Broadcast.                                                              *)
(***************************************************************************)
\* _checkMemoRequired: the destination's data is read before anything is sent.  It asks
\* for a memo, and broadcast makes BroadcastRejected of that; or the read fails; or
\* there is no account or nothing to ask for, and the call goes on.
CheckMemoRequired(t) ==
    /\ tx[t].step = "signed"
    /\ LET req == Request[tx[t].payment]
           asks == ClassicPayment(req) /\ ~req.memo
       IN  \/ /\ tx' = [tx EXCEPT ![t].step = "checked"]
              /\ told' = [told EXCEPT ![t] = "open"]
           \/ /\ asks /\ UNCHANGED tx
              /\ \E answer \in {"open", "requires_memo"} : told' = [told EXCEPT ![t] = answer]
    /\ verdict' = [verdict EXCEPT ![t] = "none"]
    /\ UNCHANGED <<ledger, ingested, pool, expired>>

CanApply(t) == t \notin expired /\ t \notin Applied /\ tx[t].seq = Len(ledger) + 1

\* _submitTransaction: the node takes the transaction, or the post is lost or refused.
Post(t) ==
    /\ tx[t].step = "checked"
    /\ \/ CanApply(t) /\ pool' = pool \cup {t}
       \/ UNCHANGED pool
    /\ tx' = [tx EXCEPT ![t].step = "posted", ![t].posted = TRUE]
    /\ UNCHANGED <<ledger, ingested, expired, told, verdict>>

\* Horizon's replies.  None, a 5xx, and a 200 without the hash or with another say
\* nothing of the transaction.
Replies(t) ==
    {"timeout", "5xx", "200_without_hash", "200_other_hash"}
    \cup (IF \E i \in 1..ingested : ledger[i].tx = t /\ ledger[i].paid THEN {"200"} ELSE {})
    \cup (IF t \notin pool /\ t \notin Paid THEN {"400"} ELSE {})

\* The reading of Python's client: any error is a rejection.
ErrorsReject(reply) == IF reply = "200" THEN "sent" ELSE "rejected"

\* broadcast's answer: horizonSubmissionRejection reads a 400 only as a rejection.
AnswerTo(reply) ==
    IF reply = "200" THEN "sent"
    ELSE IF reply = "400" THEN "rejected"
    ELSE "open"

Reply(t) ==
    /\ tx[t].step = "posted"
    /\ \E reply \in Replies(t) : told' = [told EXCEPT ![t] = AnswerTo(reply)]
    /\ tx' = [tx EXCEPT ![t].step = "signed"]
    /\ UNCHANGED <<ledger, ingested, pool, expired, verdict>>

(***************************************************************************)
(* The network.                                                            *)
(***************************************************************************)
Apply(t) ==
    /\ t \in pool /\ CanApply(t)
    /\ \E paid \in BOOLEAN : ledger' = Append(ledger, [tx |-> t, paid |-> paid])
    /\ pool' = pool \ {t}
    /\ UNCHANGED <<tx, ingested, expired, told, verdict>>

Forget(t) ==
    /\ t \in pool /\ pool' = pool \ {t}
    /\ UNCHANGED <<tx, ledger, ingested, expired, told, verdict>>

Expire(t) ==
    /\ Given(t) /\ t \notin expired
    /\ expired' = expired \cup {t}
    /\ UNCHANGED <<tx, ledger, ingested, pool, told, verdict>>

Ingest ==
    /\ ingested < Len(ledger)
    /\ ingested' = ingested + 1
    /\ UNCHANGED <<tx, ledger, pool, expired, told, verdict>>

(***************************************************************************)
(* Status.                                                                 *)
(***************************************************************************)
\* getTransactionStatusOnce: Horizon's record decides; a read behind it that fails
\* makes the call throw.
StatusNow(t) ==
    IF \E i \in 1..ingested : ledger[i].tx = t
    THEN IF t \in PaidBy(ingested) THEN "Success" ELSE "Failed"
    ELSE "NotFound"

GetTransactionStatus(t) ==
    /\ Given(t)
    /\ verdict' = [verdict EXCEPT ![t] = StatusNow(t)]
    /\ UNCHANGED <<tx, ledger, ingested, pool, expired, told>>

Next ==
    \/ Ingest
    \/ \E t \in Txs :
           \/ \E p \in Payments : LoadAccount(t, p)
           \/ GetBaseFee(t) \/ Prepare(t) \/ GiveUp(t)
           \/ CheckMemoRequired(t) \/ Post(t) \/ Reply(t)
           \/ Apply(t) \/ Forget(t) \/ Expire(t)
           \/ GetTransactionStatus(t)

Spec == Init /\ [][Next]_vars

(***************************************************************************)
(* Properties.                                                             *)
(***************************************************************************)
Transaction ==
    [step : Steps, payment : Payments, seq : Nat \ {0}, fee : Nat, shown : SUBSET Txs, posted : BOOLEAN]

TypeOK ==
    /\ tx \in [Txs -> {NoTx} \cup Transaction]
    /\ ledger \in Seq([tx : Txs, paid : BOOLEAN])
    /\ ingested \in 0..Len(ledger)
    /\ pool \subseteq Txs /\ expired \subseteq Txs
    /\ told \in [Txs -> Answers]
    /\ verdict \in [Txs -> Verdicts]

\* However the transactions of a payment are prepared, sent, sent again and lost: when
\* two of them are paid, Horizon showed the first as paid when the account was loaded for
\* the second.  Short of that, one voids the other by its sequence number.
PaidAgainOnlyIfShown ==
    \A i, j \in DOMAIN ledger :
        /\ i < j /\ ledger[i].paid /\ ledger[j].paid
        /\ tx[ledger[i].tx].payment = tx[ledger[j].tx].payment
        => ledger[i].tx \in tx[ledger[j].tx].shown

\* "The tx may still be on-chain: check getTransactionStatus(response.txHash) before
\* re-signing" (docs/stellar.md:58): who does so pays once.
PaidOnce ==
    \A i, j \in DOMAIN ledger :
        ledger[i].paid /\ ledger[j].paid /\ tx[ledger[i].tx].payment = tx[ledger[j].tx].payment
            => i = j

\* The answers are true, whatever else was and is sent.  What broadcast says was sent was
\* paid; what Horizon rejected is neither paid nor under way, and neither is what was
\* refused for want of a memo before it was ever posted.  A status that is final stays.
AnswersHold ==
    \A t \in Txs :
        /\ told[t] = "sent" => t \in Paid
        /\ told[t] = "rejected" => t \notin Paid /\ t \notin pool
        /\ told[t] = "requires_memo" /\ ~tx[t].posted => t \notin Paid /\ t \notin pool
        /\ verdict[t] = "Success" => t \in Paid
        /\ verdict[t] = "Failed" => t \notin Paid /\ ~CanApply(t)
=============================================================================
