----------------------------- MODULE EvmPayment -----------------------------
(***************************************************************************)
(* Payments of one account with EvmChain (evm_chain.ts): getPendingNonce,  *)
(* the caller's signature over a nonce, broadcast and what it reads from a *)
(* node's answer (classifyBroadcastError).  Nodes share an endpoint, see   *)
(* the chain late and keep a pool each.                                    *)
(*                                                                         *)
(* The caller keeps what it was told of each transaction, sends the same   *)
(* bytes again while it is unsure, and signs a payment under another nonce *)
(* only after all that was sent for it was refused outright.               *)
(***************************************************************************)
EXTENDS Integers, Sequences, FiniteSets

CONSTANTS
    Payments, Nodes,
    Txs,        \* numbers: transactions in the order they are signed
    Faults      \* how an endpoint may fail: a subset of AllFaults

AllFaults == {"lost", "rate_limited", "gateway", "timed_out"}

VARIABLES
    chain,      \* the account's transactions in blocks: its nonces, in order
    seen,       \* per node: how many of them it has seen
    pool,       \* per node: the transactions it holds
    tx,         \* per transaction: [pays, nonce], empty until it is signed
    told        \* per transaction: what its broadcasts were told

vars == <<chain, seen, pool, tx, told>>

Init ==
    /\ chain = <<>>
    /\ seen = [n \in Nodes |-> 0]
    /\ pool = [n \in Nodes |-> {}]
    /\ tx = [t \in Txs |-> <<>>]
    /\ told = [t \in Txs |-> {}]

Signed(t) == tx[t] # <<>>
Landed(t) == \E i \in DOMAIN chain : chain[i] = t
Nonce(t) == tx[t][1].nonce
For(p) == {t \in Txs : Signed(t) /\ tx[t][1].pays = p}

(***************************************************************************)
(* The caller.                                                             *)
(***************************************************************************)
\* getPendingNonce: past the transactions a node holds in a row.
getPendingNonce(n) ==
    LET held == {Nonce(t) : t \in pool[n]}
    IN  CHOOSE k \in seen[n]..(seen[n] + Cardinality(held)) :
            k \notin held /\ \A j \in seen[n]..(k - 1) : j \in held

\* Told of nothing but refusals: BroadcastRejected, InsufficientFunds, NonceTooLow.
Dead(t) == told[t] # {} /\ told[t] \subseteq {"refused", "used"}

SignWith(t, p, nonce) ==
    /\ ~Signed(t) /\ \A u \in Txs : u < t => Signed(u)
    /\ tx' = [tx EXCEPT ![t] = <<[pays |-> p, nonce |-> nonce]>>]
    /\ UNCHANGED <<chain, seen, pool, told>>

Sign(t, p) ==
    /\ \A u \in For(p) : Dead(u)
    /\ \E n \in Nodes : SignWith(t, p, getPendingNonce(n))

\* The same nonce and a higher fee.
Replace(t, u) == ~Dead(u) /\ Signed(u) /\ SignWith(t, tx[u][1].pays, Nonce(u))

(***************************************************************************)
(* A broadcast.                                                            *)
(***************************************************************************)
\* What a node answers, and whether it holds the transaction then.
Replies == {"hash", "already_known", "nonce_too_low", "underpriced", "insufficient_funds", "invalid"}

NodeReplies(t, n) ==
    IF t \in pool[n] THEN {"already_known"}
    ELSE IF Nonce(t) < seen[n] THEN {"nonce_too_low"}
    ELSE IF \E u \in pool[n] : Nonce(u) = Nonce(t) THEN {"hash", "underpriced"}
    ELSE {"hash", "insufficient_funds", "invalid"}

\* A pool holds one transaction of a nonce: the newer takes the place.
Hold(t, n) ==
    pool' = [pool EXCEPT ![n] = {u \in @ : Nonce(u) # Nonce(t)} \cup {t}]

\* Slips: any failure is a refusal; a nonce in a pool is one that is used.
AllRefused(reply) ==
    IF reply \in {"hash", "already_known"} THEN "sent"
    ELSE IF reply = "nonce_too_low" THEN "used" ELSE "rejected"
KnownNonceIsUsed(reply) ==
    IF reply \in {"hash", "already_known"} THEN "sent"
    ELSE IF reply \in {"nonce_too_low", "underpriced"} THEN "used"
    ELSE IF reply = "insufficient_funds" THEN "funds"
    ELSE IF reply \in {"lost", "rate_limited", "gateway"} THEN "unsure"
    ELSE "rejected"

\* classifyBroadcastError, and the hash that an already known transaction has.  What
\* matches no kind of failure is a rejection: a node's own "request timed out" is.
classify(reply) ==
    IF reply \in {"hash", "already_known"} THEN "sent"
    ELSE IF reply = "nonce_too_low" THEN "used"
    ELSE IF reply = "insufficient_funds" THEN "funds"
    ELSE IF reply \in {"lost", "rate_limited", "gateway"} THEN "unsure" ELSE "rejected"

\* What the caller makes of it.
Means(kind) ==
    IF kind \in {"rejected", "funds"} THEN "refused"
    ELSE IF kind = "used" THEN "used" ELSE "maybe"

Tell(t, reply) == told' = [told EXCEPT ![t] = @ \cup {Means(classify(reply))}]

broadcast(t, n) ==
    /\ Signed(t) /\ ~Dead(t)
    /\ \/ \E reply \in NodeReplies(t, n) :
             /\ IF reply = "hash" THEN Hold(t, n) ELSE UNCHANGED pool
             /\ Tell(t, reply)
       \* The answer is lost, or stands for one the node gives later.
       \/ \E fault \in Faults \ {"rate_limited"}, reply \in NodeReplies(t, n) :
             /\ IF reply = "hash" THEN Hold(t, n) ELSE UNCHANGED pool
             /\ Tell(t, fault)
       \* The transaction never reaches the node.
       \/ \E fault \in Faults : Tell(t, fault) /\ UNCHANGED pool
    /\ UNCHANGED <<chain, seen, tx>>

(***************************************************************************)
(* The chain and its nodes.                                                *)
(***************************************************************************)
Gossip(t, n) ==
    /\ \E m \in Nodes : t \in pool[m]
    /\ "hash" \in NodeReplies(t, n) /\ Hold(t, n)
    /\ UNCHANGED <<chain, seen, tx, told>>

Land(t) ==
    /\ \E n \in Nodes : t \in pool[n]
    /\ Nonce(t) = Len(chain) /\ chain' = Append(chain, t)
    /\ UNCHANGED <<seen, pool, tx, told>>

\* A node sees the next block, and drops what it replaces.
SeeBlock(n) ==
    /\ seen[n] < Len(chain) /\ seen' = [seen EXCEPT ![n] = @ + 1]
    /\ pool' = [pool EXCEPT ![n] = {t \in @ : Nonce(t) >= seen'[n]}]
    /\ UNCHANGED <<chain, tx, told>>

Evict(t, n) ==
    /\ t \in pool[n] /\ pool' = [pool EXCEPT ![n] = @ \ {t}]
    /\ UNCHANGED <<chain, seen, tx, told>>

Next ==
    \/ \E t \in Txs, p \in Payments : Sign(t, p)
    \/ \E t, u \in Txs : Replace(t, u)
    \/ \E t \in Txs, n \in Nodes : broadcast(t, n) \/ Gossip(t, n) \/ Evict(t, n)
    \/ \E t \in Txs : Land(t)
    \/ \E n \in Nodes : SeeBlock(n)

Spec == Init /\ [][Next]_vars

\* A payment is made at most once, though its transactions are sent again, replaced,
\* and signed anew under another nonce after a refusal.
PaidOnce == \A p \in Payments : Cardinality({t \in For(p) : Landed(t)}) <= 1

\* NonceTooLow is told only where a transaction with the nonce is in the chain; and what
\* was only ever refused is nowhere: a rejection is terminal, "chain says no".
AnswersHold ==
    \A t \in Txs :
        /\ "used" \in told[t] => Nonce(t) < Len(chain)
        /\ Dead(t) => ~Landed(t) /\ \A n \in Nodes : t \notin pool[n]
=============================================================================
