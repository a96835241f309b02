---------------------------- MODULE TronPayment ----------------------------
(***************************************************************************)
(* Payments of a Tron account, built, signed, broadcast, asked for and     *)
(* made anew: TronTransactionBuilder and TronTransaction                   *)
(* (tron_transaction_builder.ts), TronClient's broadcast (tron_client.ts)  *)
(* and the adapters of TronChain (tron_chain.ts).                          *)
(*                                                                         *)
(* A Tron account has no sequence number: what keeps a transaction from    *)
(* landing late is its expiration alone, which the client sets by its own  *)
(* clock.  A node answers from a view that lags behind the chain.          *)
(***************************************************************************)
EXTENDS Integers, Sequences, FiniteSets

CONSTANTS
    Payments,       \* what is to be paid
    Txs,            \* the transactions that may be built
    Keys,           \* private keys of the caller
    Permission,     \* per payment: the keys its permission names; {} where it names none
    Threshold,      \* how many keys a permission asks for
    Lifetime,       \* from the building to the expiration: 60 s
    MaxSkew,        \* the client's clock is off by no more
    MaxLag,         \* a node's view is behind by no more
    Grace,          \* how long after an expiration the caller waits before NotFound counts
    MaxTime         \* bound on the chain's time

ASSUME GraceIsEnough == Grace \in Nat /\ MaxSkew \in Nat /\ MaxLag \in Nat /\ Grace >= MaxSkew + MaxLag
ASSUME TimesAreNumbers == MaxTime \in Nat /\ Lifetime \in Nat

VARIABLES
    now,            \* the chain's time
    skew,           \* what the client's clock is ahead
    tx,             \* per transaction: the TronTransaction, an object that signing changes
    pool,           \* the transactions some node holds
    landed,         \* per transaction: when it was put in a block, Never before
    paid,           \* the transactions that were executed with success
    told,           \* per transaction: "rejected" while broadcast said nothing else
    over            \* the transactions the caller knows are over

vars == <<now, skew, tx, pool, landed, paid, told, over>>

Never == MaxTime + 1
NoTx == [step |-> "idle"]
Local == now + skew

Init ==
    /\ now = 0 /\ skew \in (-MaxSkew)..MaxSkew
    /\ tx = [t \in Txs |-> NoTx]
    /\ pool = {} /\ paid = {} /\ over = {}
    /\ landed = [t \in Txs |-> Never]
    /\ told = [t \in Txs |-> "none"]

Others(t, p) == {u \in Txs \ {t} : tx[u].step # "idle" /\ tx[u].payment = p}

(***************************************************************************)
(* Building and signing.                                                   *)
(***************************************************************************)
\* TronTransactionBuilder: the expiration is set before the reference block is read.
\* The caller makes a payment anew once what it made before is over, and gives that up.
Build(t, p) ==
    /\ tx[t].step = "idle"
    /\ Others(t, p) \subseteq over
    /\ tx' = [tx EXCEPT ![t] = [step |-> "building", payment |-> p, expires |-> Local + Lifetime, sigs |-> <<>>]]
    /\ UNCHANGED <<now, skew, pool, landed, paid, told, over>>

\* build, TronTransaction.create: the reads succeed, of which getsignweight is made
\* for a permission only, or the call throws and there is no transaction.
Create(t) ==
    /\ tx[t].step = "building"
    /\ \/ tx' = [tx EXCEPT ![t].step = "built"]
       \/ tx' = [tx EXCEPT ![t] = NoTx]
    /\ UNCHANGED <<now, skew, pool, landed, paid, told, over>>

\* TronTransaction.sign: appends a signature, also where there is one; signing the
\* same object again counts against the one that was handed out before.
MayAppend(t, key) ==
    /\ Local < tx[t].expires
    /\ Permission[tx[t].payment] # {} => key \in Permission[tx[t].payment]

Sign(t, key) ==
    /\ tx[t].step = "built" /\ t \notin over
    /\ MayAppend(t, key)
    /\ Len(tx[t].sigs) < 2
    /\ tx' = [tx EXCEPT ![t].sigs = Append(@, key)]
    /\ UNCHANGED <<now, skew, pool, landed, paid, told, over>>

(***************************************************************************)
(* Broadcast.                                                              *)
(***************************************************************************)
\* What a node checks of the signatures: each key once, and as many as are asked for.
SignaturesHold(t) ==
    /\ Len(tx[t].sigs) = (IF Permission[tx[t].payment] = {} THEN 1 ELSE Threshold)
    /\ \A i, j \in DOMAIN tx[t].sigs : tx[t].sigs[i] = tx[t].sigs[j] => i = j

Held(t) == t \in pool \/ landed[t] # Never
Fresh(t) == SignaturesHold(t) /\ now < tx[t].expires /\ ~Held(t)

\* makeRequest: one post, which is not repeated.  Expiry is not checked here.
Post(t) ==
    /\ tx[t].step = "built" /\ tx[t].sigs # <<>> /\ t \notin over
    /\ \/ Fresh(t) /\ pool' = pool \cup {t}
          /\ tx' = [tx EXCEPT ![t].step = "taken"]
       \/ tx' = [tx EXCEPT ![t].step = "refused"] /\ UNCHANGED pool
    /\ UNCHANGED <<now, skew, landed, paid, told, over>>

\* A node's replies; "none" is a timeout, an HTTP error, a body that is not JSON.
NotAccepted == {"SIGERROR", "CONTRACT_VALIDATE_ERROR", "CONTRACT_EXE_ERROR", "BANDWITH_ERROR"}
Replies(t) ==
    {"none", "SERVER_BUSY", "ok_without_txid", "ok_other_txid"}
    \cup (IF tx[t].step = "taken" THEN {"ok"} ELSE NotAccepted \cup {"TAPOS_ERROR", "TRANSACTION_EXPIRATION_ERROR"})
    \cup (IF Held(t) THEN {"DUP_TRANSACTION_ERROR"} ELSE {})

\* Python's broadcast_error: every code is a refusal.
CodesReject(reply) ==
    IF reply \in NotAccepted \cup {"SERVER_BUSY", "DUP_TRANSACTION_ERROR"} THEN "rejected" ELSE "open"

\* tronBroadcastErrorKind: "rejected" stands for BroadcastRejected; RpcError and the
\* hash both leave the outcome open.
AnswerTo(reply) == IF reply \in NotAccepted THEN "rejected" ELSE "open"

\* The answers add up: one that was not a rejection is not taken back by a rejection.
Reply(t) ==
    /\ tx[t].step \in {"taken", "refused"}
    /\ \E reply \in Replies(t) :
           told' = [told EXCEPT ![t] = IF @ = "open" THEN "open" ELSE AnswerTo(reply)]
    /\ tx' = [tx EXCEPT ![t].step = "built"]
    /\ UNCHANGED <<now, skew, pool, landed, paid, over>>

(***************************************************************************)
(* Status.                                                                 *)
(***************************************************************************)
\* gettransactioninfobyid, from a view of an earlier time.
InfoAt(t, time) ==
    IF landed[t] > time THEN "NotFound" ELSE IF t \in paid THEN "Success" ELSE "Failed"

\* getTransactionStatusOnce's status; NotFound also while the transaction is pending.
GetTransactionStatus(t, status) ==
    /\ tx[t].step = "built"
    /\ \E lag \in 0..MaxLag : InfoAt(t, now - lag) = status
    /\ UNCHANGED <<now, skew, tx, pool, landed, paid, told>>

\* The caller's rule: a payment may be made anew when its transaction failed, when
\* broadcast only ever rejected it, or when it is NotFound long after it expired.
SeeFailed(t) == GetTransactionStatus(t, "Failed") /\ over' = over \cup {t}

SeeNotFound(t) ==
    /\ tx[t].step = "built" /\ Local >= tx[t].expires + Grace
    /\ GetTransactionStatus(t, "NotFound") /\ over' = over \cup {t}

SeeRejected(t) ==
    /\ tx[t].step = "built" /\ told[t] = "rejected"
    /\ over' = over \cup {t}
    /\ UNCHANGED <<now, skew, tx, pool, landed, paid, told>>

(***************************************************************************)
(* The network.                                                            *)
(***************************************************************************)
Land(t) ==
    /\ t \in pool /\ now < tx[t].expires
    /\ landed' = [landed EXCEPT ![t] = now]
    /\ \/ paid' = paid \cup {t}
       \/ UNCHANGED paid
    /\ pool' = pool \ {t}
    /\ UNCHANGED <<now, skew, tx, told, over>>

Tick ==
    /\ now < MaxTime /\ now' = now + 1
    /\ UNCHANGED <<skew, tx, pool, landed, paid, told, over>>

Next ==
    \/ Tick
    \/ \E t \in Txs :
           \/ \E p \in Payments : Build(t, p)
           \/ \E k \in Keys : Sign(t, k)
           \/ Create(t) \/ Post(t) \/ Reply(t) \/ Land(t)
           \/ SeeFailed(t) \/ SeeNotFound(t) \/ SeeRejected(t)

Spec == Init /\ [][Next]_vars

(***************************************************************************)
(* Properties.                                                             *)
(***************************************************************************)
Transaction ==
    [step : {"building", "built", "taken", "refused"}, payment : Payments, expires : Int, sigs : Seq(Keys)]

TypeOK ==
    /\ now \in 0..MaxTime /\ skew \in (-MaxSkew)..MaxSkew
    /\ tx \in [Txs -> {NoTx} \cup Transaction]
    /\ pool \subseteq Txs /\ paid \subseteq Txs /\ over \subseteq Txs
    /\ landed \in [Txs -> 0..Never]
    /\ told \in [Txs -> {"none", "rejected", "open"}]

\* A payment is made once, though every transaction of it is of its own and nothing
\* but the clock voids one: also when one was signed twice, sent again, refused by
\* one node and held by another, or not found while it waited.
PaidOnce ==
    \A t, u \in paid : tx[t].payment = tx[u].payment => t = u
=============================================================================
