------------------------------ MODULE EvmProofs ------------------------------
(***************************************************************************)
(* Theorems about the EVM modules: a payment is made once, and what a      *)
(* broadcast says of a nonce and of a refusal is true, for any number of   *)
(* payments, transactions and nodes; a wait for enough confirmations       *)
(* returns a status that stays true, for any reorganisation, lag and       *)
(* drift; and what is built outlasts the blocks it waits for.              *)
(***************************************************************************)
EXTENDS EvmMC, Sums, Sequences

\* An endpoint may lose a reply, limit the rate and fail at its gateway, and its answer
\* says which.  A node's own "request timed out" reads as a rejection, and is not among
\* what the theorems cover.
FailuresShow == Faults \subseteq {"lost", "rate_limited", "gateway"}

Typed ==
    /\ chain \in Seq(Txs)
    /\ tx = [t \in Txs |-> tx[t]]
    /\ pool \in [Nodes -> SUBSET Txs]
    /\ answers \in [Txs -> SUBSET {"refused", "used", "maybe"}]

\* What is in the chain was signed with the nonce of its place, and was not told of as
\* refused only.
PlaceInv ==
    \A i \in DOMAIN chain :
        P!Signed(chain[i]) /\ P!Nonce(chain[i]) = i - 1 /\ "maybe" \in answers[chain[i]]

\* Nor was what a node holds.
HeldInv == \A n \in Nodes : \A t \in pool[n] : P!Signed(t) /\ "maybe" \in answers[t]

\* Of a payment's transactions, those that were not refused share a nonce.
NonceInv ==
    \A t, u \in Txs :
        P!Signed(t) /\ P!Signed(u) /\ tx[t][1].pays = tx[u][1].pays /\ ~P!Dead(t) /\ ~P!Dead(u)
            => P!Nonce(t) = P!Nonce(u)

\* The inductive invariant: a payment is signed under another nonce only where what was
\* sent for it is dead, which is for ever.
IInv == Typed /\ PlaceInv /\ HeldInv /\ NonceInv

LEMMA InitHolds == P!Init => IInv
BY DEF P!Init, IInv, Typed, PlaceInv, HeldInv, NonceInv, P!Signed

\* What the caller is told of a transaction that a node took may be true.
LEMMA TakenIsMaybe ==
    ASSUME FailuresShow, NEW reply, reply \in {"hash", "already_known"} \cup Faults
    PROVE  P!Means(P!classify(reply)) = "maybe"
BY DEF FailuresShow, P!Means, P!classify

\* The caller signs: the others of the payment are dead, or it takes the nonce of one.
LEMMA SignStep ==
    ASSUME IInv, NEW t \in Txs, NEW p, NEW nonce, P!SignWith(t, p, nonce),
           \A u \in Txs : P!Signed(u) /\ tx[u][1].pays = p /\ ~P!Dead(u) => P!Nonce(u) = nonce
    PROVE  IInv'
<1>1. /\ ~P!Signed(t) /\ UNCHANGED <<chain, pool, answers>>
      /\ tx' = [tx EXCEPT ![t] = <<[pays |-> p, nonce |-> nonce]>>]
    BY DEF P!SignWith
<1>2. tx'[t] = <<[pays |-> p, nonce |-> nonce]>> /\ \A u \in Txs : u # t => tx'[u] = tx[u]
    BY <1>1 DEF IInv, Typed
<1>3. Typed'  BY <1>1 DEF IInv, Typed
<1>4. tx'[t] # <<>> /\ tx'[t][1].pays = p /\ tx'[t][1].nonce = nonce  BY <1>2
<1>5. PlaceInv'
    <2>1. \A i \in DOMAIN chain : chain[i] \in Txs /\ chain[i] # t
        BY <1>1 DEF IInv, Typed, PlaceInv
    <2> QED  BY <1>1, <1>2, <2>1 DEF IInv, PlaceInv, P!Signed, P!Nonce
<1>6. HeldInv'
    <2>1. \A n \in Nodes : \A u \in pool[n] : u \in Txs /\ u # t
        BY <1>1 DEF IInv, Typed, HeldInv
    <2> QED  BY <1>1, <1>2, <2>1 DEF IInv, HeldInv, P!Signed
<1>7. NonceInv'
    <2> SUFFICES ASSUME NEW u \in Txs, NEW w \in Txs, P!Signed(u)', P!Signed(w)',
                        tx'[u][1].pays = tx'[w][1].pays, ~P!Dead(u), ~P!Dead(w)
                 PROVE  tx'[u][1].nonce = tx'[w][1].nonce
        BY <1>1 DEF NonceInv, P!Nonce, P!Dead
    <2>1. CASE u # t /\ w # t
        BY <1>2, <2>1 DEF IInv, NonceInv, P!Signed, P!Nonce
    <2>2. CASE u = t /\ w # t
        BY <1>2, <1>4, <2>2 DEF P!Signed, P!Nonce
    <2>3. CASE u # t /\ w = t
        BY <1>2, <1>4, <2>3 DEF P!Signed, P!Nonce
    <2> QED  BY <2>1, <2>2, <2>3
<1> QED  BY <1>3, <1>5, <1>6, <1>7 DEF IInv

\* What is told adds up: nothing that was dead comes to life, nothing that may be on its
\* way is forgotten.
LEMMA ToldStep ==
    ASSUME IInv, UNCHANGED <<chain, tx>>, Typed',
           \A u \in Txs : answers[u] \subseteq answers'[u] /\ (P!Dead(u) => answers'[u] = answers[u]),
           \A n \in Nodes : \A u \in pool'[n] : P!Signed(u) /\ "maybe" \in answers'[u]
    PROVE  IInv'
<1>1. PlaceInv'
    <2>1. \A i \in DOMAIN chain : chain[i] \in Txs  BY DEF IInv, Typed
    <2> QED  BY <2>1 DEF IInv, PlaceInv, P!Signed, P!Nonce
<1>2. HeldInv'  BY DEF HeldInv, P!Signed
<1>3. \A u \in Txs : P!Dead(u) => P!Dead(u)'  BY DEF P!Dead
<1>4. NonceInv'  BY <1>3 DEF IInv, NonceInv, P!Signed, P!Nonce
<1> QED  BY <1>1, <1>2, <1>4 DEF IInv

LEMMA StepHolds == ASSUME FailuresShow PROVE IInv /\ [P!Next]_P!vars => IInv'
<1> SUFFICES ASSUME IInv, [P!Next]_P!vars PROVE IInv'
    OBVIOUS
<1>0. Typed  BY DEF IInv
<1>1. CASE UNCHANGED P!vars
    BY <1>1 DEF P!vars, IInv, Typed, PlaceInv, HeldInv, NonceInv, P!Signed, P!Nonce, P!Dead
<1>2. ASSUME NEW t \in Txs, NEW p \in Payments, P!Sign(t, p) PROVE IInv'
    <2>1. PICK n \in Nodes : P!SignWith(t, p, P!getPendingNonce(n))  BY <1>2 DEF P!Sign
    <2>2. \A u \in Txs : P!Signed(u) /\ tx[u][1].pays = p => P!Dead(u)  BY <1>2 DEF P!Sign, P!For
    <2> QED  BY <2>1, <2>2, SignStep
<1>3. ASSUME NEW t \in Txs, NEW u \in Txs, P!Replace(t, u) PROVE IInv'
    <2>1. P!SignWith(t, tx[u][1].pays, P!Nonce(u)) /\ P!Signed(u) /\ ~P!Dead(u)  BY <1>3 DEF P!Replace
    <2>2. \A w \in Txs : P!Signed(w) /\ tx[w][1].pays = tx[u][1].pays /\ ~P!Dead(w) => P!Nonce(w) = P!Nonce(u)
        BY <2>1 DEF IInv, NonceInv
    <2> QED  BY <2>1, <2>2, SignStep
<1>4. ASSUME NEW t \in Txs, NEW n \in Nodes, P!broadcast(t, n) PROVE IInv'
    <2>1. P!Signed(t) /\ ~P!Dead(t) /\ UNCHANGED <<chain, tx>>  BY <1>4 DEF P!broadcast
    <2>2. PICK answer : /\ answers' = [answers EXCEPT ![t] = @ \cup {P!Means(P!classify(answer))}]
                        /\ pool' = pool \/ (P!Hold(t, n) /\ answer \in {"hash"} \cup Faults)
        <3>1. CASE \E reply \in P!NodeReplies(t, n) :
                       /\ IF reply = "hash" THEN P!Hold(t, n) ELSE UNCHANGED pool
                       /\ P!Tell(t, reply)
            <4>1. PICK reply \in P!NodeReplies(t, n) :
                       /\ IF reply = "hash" THEN P!Hold(t, n) ELSE UNCHANGED pool
                       /\ P!Tell(t, reply)
                BY <3>1
            <4> QED  BY <4>1 DEF P!Tell
        <3>2. CASE \E fault \in Faults \ {"rate_limited"}, reply \in P!NodeReplies(t, n) :
                       /\ IF reply = "hash" THEN P!Hold(t, n) ELSE UNCHANGED pool
                       /\ P!Tell(t, fault)
            <4>1. PICK fault \in Faults \ {"rate_limited"} :
                       (P!Hold(t, n) \/ UNCHANGED pool) /\ P!Tell(t, fault)
                BY <3>2
            <4> QED  BY <4>1 DEF P!Tell
        <3>3. CASE \E fault \in Faults : P!Tell(t, fault) /\ UNCHANGED pool
            <4>1. PICK fault \in Faults : P!Tell(t, fault) /\ UNCHANGED pool  BY <3>3
            <4> QED  BY <4>1 DEF P!Tell
        <3> QED  BY <1>4, <3>1, <3>2, <3>3 DEF P!broadcast
    <2>3. P!Means(P!classify(answer)) \in {"refused", "used", "maybe"}  BY DEF P!Means
    <2>4. pool' = pool \/ ("maybe" \in answers'[t] /\ P!Hold(t, n))
        BY <1>0, <2>2, TakenIsMaybe DEF Typed
    <2>5. \A u \in Txs : answers[u] \subseteq answers'[u] /\ (u # t => answers'[u] = answers[u])
        BY <1>0, <2>2 DEF Typed
    <2>6. Typed'
        <3>1. pool' \in [Nodes -> SUBSET Txs]  BY <1>0, <2>2 DEF Typed, P!Hold
        <3>2. answers' \in [Txs -> SUBSET {"refused", "used", "maybe"}]  BY <1>0, <2>2, <2>3 DEF Typed
        <3> QED  BY <1>0, <2>1, <3>1, <3>2 DEF Typed
    <2>7. ASSUME NEW m \in Nodes, NEW u \in pool'[m] PROVE P!Signed(u) /\ "maybe" \in answers'[u]
        <3>1. u \in Txs  BY <2>6, <2>7 DEF Typed
        <3>2. CASE u \in pool[m]  BY <2>5, <3>1, <3>2 DEF IInv, HeldInv
        <3>3. CASE u \notin pool[m]
            <4>1. u = t /\ "maybe" \in answers'[t]  BY <1>0, <2>4, <2>7, <3>3 DEF Typed, P!Hold
            <4> QED  BY <2>1, <4>1
        <3> QED  BY <3>2, <3>3
    <2> QED  BY <2>1, <2>5, <2>6, <2>7, ToldStep
<1>5. ASSUME NEW t \in Txs, NEW n \in Nodes, P!Gossip(t, n) PROVE IInv'
    <2>1. P!Hold(t, n) /\ UNCHANGED <<chain, tx, answers>> /\ \E m \in Nodes : t \in pool[m]
        BY <1>5 DEF P!Gossip
    <2>2. P!Signed(t) /\ "maybe" \in answers[t]  BY <2>1 DEF IInv, HeldInv
    <2>3. Typed'  BY <1>0, <2>1 DEF Typed, P!Hold
    <2>4. \A m \in Nodes : \A u \in pool'[m] : u = t \/ u \in pool[m]  BY <1>0, <2>1 DEF Typed, P!Hold
    <2>5. \A m \in Nodes : \A u \in pool'[m] : P!Signed(u) /\ "maybe" \in answers'[u]
        BY <2>1, <2>2, <2>4 DEF IInv, HeldInv
    <2> QED  BY <2>1, <2>3, <2>5, ToldStep
<1>6. ASSUME NEW t \in Txs, NEW n \in Nodes, P!Evict(t, n) PROVE IInv'
    <2>1. UNCHANGED <<chain, tx, answers>> /\ pool' \in [Nodes -> SUBSET Txs]
          /\ \A m \in Nodes : pool'[m] \subseteq pool[m]
        BY <1>0, <1>6 DEF P!Evict, Typed
    <2>2. Typed'  BY <1>0, <2>1 DEF Typed
    <2>3. \A m \in Nodes : \A u \in pool'[m] : P!Signed(u) /\ "maybe" \in answers'[u]
        BY <2>1 DEF IInv, HeldInv
    <2> QED  BY <2>1, <2>2, <2>3, ToldStep
<1>7. ASSUME NEW n \in Nodes, P!SeeBlock(n) PROVE IInv'
    <2>1. UNCHANGED <<chain, tx, answers>> /\ pool' \in [Nodes -> SUBSET Txs]
          /\ \A m \in Nodes : pool'[m] \subseteq pool[m]
        BY <1>0, <1>7 DEF P!SeeBlock, Typed
    <2>2. Typed'  BY <1>0, <2>1 DEF Typed
    <2>3. \A m \in Nodes : \A u \in pool'[m] : P!Signed(u) /\ "maybe" \in answers'[u]
        BY <2>1 DEF IInv, HeldInv
    <2> QED  BY <2>1, <2>2, <2>3, ToldStep
<1>8. ASSUME NEW t \in Txs, P!Land(t) PROVE IInv'
    <2>1. /\ P!Signed(t) /\ "maybe" \in answers[t] /\ P!Nonce(t) = Len(chain)
          /\ chain' = Append(chain, t) /\ UNCHANGED <<pool, tx, answers>>
        BY <1>8 DEF P!Land, IInv, HeldInv
    <2>2. Typed' /\ HeldInv' /\ NonceInv'
        <3>1. Typed'
            <4>1. chain' \in Seq(Txs)  BY <1>0, <2>1 DEF Typed
            <4> QED  BY <1>0, <2>1, <4>1 DEF Typed
        <3>2. HeldInv'  BY <2>1 DEF IInv, HeldInv, P!Signed
        <3>3. NonceInv'  BY <2>1 DEF IInv, NonceInv, P!Signed, P!Nonce, P!Dead
        <3> QED  BY <3>1, <3>2, <3>3
    <2>3. /\ DOMAIN chain' = DOMAIN chain \cup {Len(chain) + 1} /\ chain'[Len(chain) + 1] = t
          /\ \A i \in DOMAIN chain : chain'[i] = chain[i]
          /\ Len(chain) \in Nat
        BY <1>0, <2>1 DEF Typed
    <2>4. ASSUME NEW i \in DOMAIN chain'
          PROVE  (P!Signed(chain[i]) /\ P!Nonce(chain[i]) = i - 1 /\ "maybe" \in answers[chain[i]])'
        <3>1. CASE i \in DOMAIN chain
            BY <2>1, <2>3, <3>1 DEF IInv, PlaceInv, P!Signed, P!Nonce
        <3>2. CASE i = Len(chain) + 1
            BY <2>1, <2>3, <3>2 DEF P!Signed, P!Nonce
        <3> QED  BY <2>3, <2>4, <3>1, <3>2
    <2>5. PlaceInv'  BY <2>4 DEF PlaceInv
    <2> QED  BY <2>2, <2>5 DEF IInv
<1> QED  BY <1>1, <1>2, <1>3, <1>4, <1>5, <1>6, <1>7, <1>8 DEF P!Next

\* The payments count with the same Cardinality.
LEMMA CardinalityIs == \A S : P!Cardinality(S) = Cardinality(S)
BY DEF P!Cardinality, Cardinality

\* A payment is made once at most, by a caller who sends the same bytes again, replaces
\* them under their nonce, and signs anew only what was refused.
THEOREM PaysOnce == ASSUME FailuresShow PROVE P!Spec => []PaidOnce
<1>1. IInv => PaidOnce
    <2> SUFFICES ASSUME IInv, NEW p \in Payments
                 PROVE  Cardinality({t \in P!For(p) : P!Landed(t)}) <= 1
        BY CardinalityIs DEF PaidOnce, P!PaidOnce
    <2> DEFINE Made == {t \in P!For(p) : P!Landed(t)}
    <2>1. ASSUME NEW t \in Made, NEW u \in Made PROVE t = u
        <3>1. t \in Txs /\ u \in Txs /\ P!Signed(t) /\ P!Signed(u) /\ tx[t][1].pays = tx[u][1].pays
            BY DEF P!For
        <3>2. PICK i \in DOMAIN chain : chain[i] = t  BY DEF P!Landed
        <3>3. PICK j \in DOMAIN chain : chain[j] = u  BY DEF P!Landed
        <3>4. ~P!Dead(t) /\ ~P!Dead(u)  BY <3>2, <3>3 DEF IInv, PlaceInv, P!Dead
        <3>5. P!Nonce(t) = P!Nonce(u)  BY <3>1, <3>4 DEF IInv, NonceInv
        <3>6. P!Nonce(t) = i - 1 /\ P!Nonce(u) = j - 1  BY <3>2, <3>3 DEF IInv, PlaceInv
        <3>7. i \in Nat /\ j \in Nat  BY DEF IInv, Typed
        <3>8. i - 1 = j - 1  BY <3>5, <3>6
        <3>9. i = j  BY <3>7, <3>8
        <3> QED  BY <3>2, <3>3, <3>9
    <2> HIDE DEF Made
    <2>2. CASE Made = {}  BY <2>2, FS_EmptySet DEF Made
    <2>3. CASE Made # {}
        <3>1. PICK t : Made = {t}  BY <2>1, <2>3
        <3>2. Cardinality({t}) = 1  BY FS_Singleton
        <3>3. Cardinality(Made) = 1  BY <3>1, <3>2
        <3> QED  BY <3>3 DEF Made
    <2> QED  BY <2>2, <2>3
<1> QED  BY <1>1, InitHolds, StepHolds, PTL DEF P!Spec

-----------------------------------------------------------------------------
(***************************************************************************)
(* What a broadcast says of a nonce.                                       *)
(***************************************************************************)
\* Nodes see the chain, none more than there is of it; a nonce that was told of as used
\* is that of a transaction in the chain.
UsedInv ==
    /\ seen \in [Nodes -> Nat] /\ \A n \in Nodes : seen[n] <= Len(chain)
    /\ \A t \in Txs : P!Signed(t) => P!Nonce(t) \in Nat
    /\ \A t \in Txs : "used" \in answers[t] => P!Signed(t) /\ P!Nonce(t) < Len(chain)

\* getPendingNonce: there is a first nonce that no transaction of the pool has.
LEMMA PendingNonceIsNatural ==
    ASSUME IsFiniteSet(Txs), IInv, UsedInv, NEW n \in Nodes
    PROVE  P!getPendingNonce(n) \in Nat
<1> DEFINE held == {P!Nonce(t) : t \in pool[n]}
           least == seen[n]
           most == seen[n] + Cardinality(held)
           free == {k \in least..most : k \notin held}
<1>1. pool[n] \subseteq Txs /\ IsFiniteSet(pool[n])
    BY FS_Subset DEF IInv, Typed
<1>2. IsFiniteSet(held)
    <2> DEFINE f == [t \in pool[n] |-> P!Nonce(t)]
    <2>1. f \in Surjection(pool[n], held)  BY DEF Surjection
    <2> HIDE DEF f, held
    <2> QED  BY <1>1, <2>1, FS_Surjection
<1>3. Cardinality(held) \in Nat /\ least \in Nat /\ most \in Nat
    BY <1>2, FS_CardinalityType DEF UsedInv
<1>4. free # {}
    <2>1. SUFFICES ASSUME least..most \subseteq held PROVE FALSE  OBVIOUS
    <2>2. Cardinality(least..most) <= Cardinality(held)  BY <1>2, <2>1, FS_Subset
    <2>3. Cardinality(least..most) = most - least + 1
        <3>1. least <= most /\ least \in Int /\ most \in Int  BY <1>3
        <3> HIDE DEF least, most
        <3> QED  BY <3>1, FS_Interval
    <2> QED  BY <1>3, <2>2, <2>3
<1>5. free \subseteq Nat  BY <1>3
<1>6. PICK m \in free : \A k \in free : m <= k  BY <1>4, <1>5, LeastNatural
<1>7. \A j \in least..(m - 1) : j \in held
    <2> SUFFICES ASSUME NEW j \in least..(m - 1), j \notin held PROVE FALSE  OBVIOUS
    <2>1. m \in least..most  BY <1>6
    <2>2. j \in least..most /\ j < m  BY <1>3, <2>1
    <2> QED  BY <1>3, <1>6, <2>1, <2>2
<1>8. P!getPendingNonce(n) = CHOOSE k \in least..most : k \notin held /\ \A j \in least..(k - 1) : j \in held
    BY CardinalityIs DEF P!getPendingNonce
<1> HIDE DEF held, least, most
<1> QED  BY <1>3, <1>6, <1>7, <1>8

LEMMA UsedInit == P!Init => UsedInv
BY DEF P!Init, UsedInv, P!Signed

LEMMA UsedStep ==
    ASSUME IsFiniteSet(Txs), FailuresShow PROVE IInv /\ UsedInv /\ [P!Next]_P!vars => UsedInv'
<1> SUFFICES ASSUME IInv, UsedInv, [P!Next]_P!vars PROVE UsedInv'
    OBVIOUS
<1>0. Typed /\ Len(chain) \in Nat  BY DEF IInv, Typed
<1>1. CASE UNCHANGED P!vars
    BY <1>1 DEF P!vars, UsedInv, P!Signed, P!Nonce
<1>2. ASSUME NEW t \in Txs, NEW p, NEW nonce \in Nat, P!SignWith(t, p, nonce) PROVE UsedInv'
    <2>1. /\ ~P!Signed(t) /\ UNCHANGED <<chain, seen, answers>>
          /\ tx'[t] = <<[pays |-> p, nonce |-> nonce]>> /\ \A u \in Txs : u # t => tx'[u] = tx[u]
        BY <1>0, <1>2 DEF P!SignWith, Typed
    <2>2. P!Nonce(t)' = nonce  BY <2>1 DEF P!Nonce
    <2>3. \A u \in Txs : u # t => P!Signed(u)' = P!Signed(u) /\ P!Nonce(u)' = P!Nonce(u)
        BY <2>1 DEF P!Signed, P!Nonce
    <2> QED  BY <2>1, <2>2, <2>3 DEF UsedInv
<1>3. ASSUME NEW t \in Txs, NEW p \in Payments, P!Sign(t, p) PROVE UsedInv'
    <2>1. PICK n \in Nodes : P!SignWith(t, p, P!getPendingNonce(n))  BY <1>3 DEF P!Sign
    <2> QED  BY <1>2, <2>1, PendingNonceIsNatural
<1>4. ASSUME NEW t \in Txs, NEW u \in Txs, P!Replace(t, u) PROVE UsedInv'
    <2>1. P!SignWith(t, tx[u][1].pays, P!Nonce(u)) /\ P!Nonce(u) \in Nat  BY <1>4 DEF P!Replace, UsedInv
    <2> QED  BY <1>2, <2>1
<1>5. ASSUME NEW t \in Txs, NEW n \in Nodes, P!broadcast(t, n) PROVE UsedInv'
    <2>1. P!Signed(t) /\ UNCHANGED <<chain, seen, tx>>  BY <1>5 DEF P!broadcast
    <2>2. PICK answer : /\ answers' = [answers EXCEPT ![t] = @ \cup {P!Means(P!classify(answer))}]
                        /\ answer \in P!NodeReplies(t, n) \cup Faults
        BY <1>5 DEF P!broadcast, P!Tell
    <2>3. P!Means(P!classify(answer)) = "used" => P!Nonce(t) < seen[n]
        BY <2>2 DEF P!Means, P!classify, P!NodeReplies, FailuresShow
    <2>4. P!Nonce(t) < seen[n] => P!Nonce(t) < Len(chain)
        BY <1>0, <2>1 DEF UsedInv
    <2>5. \A u \in Txs : "used" \in answers'[u] => "used" \in answers[u] \/ (u = t /\ P!Nonce(t) < Len(chain))
        BY <1>0, <2>2, <2>3, <2>4 DEF Typed
    <2> QED  BY <2>1, <2>5 DEF UsedInv, P!Signed, P!Nonce
<1>6. ASSUME NEW t \in Txs, NEW n \in Nodes, P!Gossip(t, n) \/ P!Evict(t, n) PROVE UsedInv'
    BY <1>6 DEF P!Gossip, P!Evict, UsedInv, P!Signed, P!Nonce
<1>7. ASSUME NEW n \in Nodes, P!SeeBlock(n) PROVE UsedInv'
    <2>1. seen[n] < Len(chain) /\ seen' = [seen EXCEPT ![n] = @ + 1] /\ UNCHANGED <<chain, tx, answers>>
        BY <1>7 DEF P!SeeBlock
    <2>2. seen' \in [Nodes -> Nat] /\ \A m \in Nodes : seen'[m] <= Len(chain)
        BY <1>0, <2>1 DEF UsedInv
    <2> QED  BY <2>1, <2>2 DEF UsedInv, P!Signed, P!Nonce
<1>8. ASSUME NEW t \in Txs, P!Land(t) PROVE UsedInv'
    <2>1. chain' = Append(chain, t) /\ UNCHANGED <<seen, tx, answers>>  BY <1>8 DEF P!Land
    <2>2. Len(chain') = Len(chain) + 1  BY <1>0, <2>1 DEF Typed
    <2> QED  BY <1>0, <2>1, <2>2 DEF UsedInv, P!Signed, P!Nonce
<1> QED  BY <1>1, <1>3, <1>4, <1>5, <1>6, <1>7, <1>8 DEF P!Next

\* What a broadcast says is true: a nonce it calls too low is taken in the chain, and
\* what was only ever refused is in no block and in no pool.
THEOREM AnswersAreTrue ==
    ASSUME IsFiniteSet(Txs), FailuresShow PROVE P!Spec => []AnswersHold
<1>1. IInv /\ UsedInv => AnswersHold
    BY DEF IInv, PlaceInv, HeldInv, UsedInv, AnswersHold, P!AnswersHold, P!Dead, P!Landed
<1> QED  BY <1>1, InitHolds, StepHolds, UsedInit, UsedStep, PTL DEF P!Spec


-----------------------------------------------------------------------------
(* The wait for a depth: for any reorganisation depth, lag and drift, more  *)
(* confirmations than the three together give a status that stays true.    *)

\* What was MaxReorg blocks deep in a chain is in every later one.
DeepStays ==
  \A t \in 1 .. tip :
    hist[t].at > 0 /\ hist[t].at <= t - MaxReorg => hist[tip] = hist[t]

\* The receipt was on a chain that was canonical Lag blocks before it was read
\* or later.
ReceiptInv ==
  step = "tip" =>
    /\ tip <= asked + Drift
    /\ \E t \in 1 .. tip : hist[t] = last /\ asked <= t + Lag

\* A status is returned only once its block was MaxReorg deep.
ReturnInv ==
  Covered /\ step = "returned" =>
    \E t \in 1 .. tip : hist[t] = last /\ last.at <= t - MaxReorg

WaitInv == TypeOK /\ DeepStays /\ ReceiptInv /\ ReturnInv

LEMMA WaitInit == Init => WaitInv
  <1>. SUFFICES ASSUME Init PROVE WaitInv
    OBVIOUS
  <1>1. tip = 1 /\ step = "begin" /\ last = Nowhere /\ asked = 1 /\ late = FALSE /\ aborted = FALSE
    BY DEF Init
  <1>2. Nowhere \in Places /\ Nowhere.at = 0
    BY WaitAssumption DEF Nowhere, Places
  <1>3. hist \in [1 .. 1 -> Places] /\ hist[1].at <= 1
    <2>1. hist \in [{1} -> {p \in Places : p = Nowhere \/ p.at = 1}]
      BY DEF Init
    <2>2. 1 .. 1 = {1}
      OBVIOUS
    <2>. QED BY <2>1, <2>2, <1>2
  <1>4. TypeOK
    <2>1. 1 \in 1 .. MaxTip
      BY WaitAssumption
    <2>2. \A t \in 1 .. 1 : hist[t].at <= t
      BY <1>3
    <2>3. last \in Places /\ last.at <= tip /\ asked \in 1 .. tip
      BY <1>1, <1>2
    <2>. QED BY <1>1, <1>3, <2>1, <2>2, <2>3 DEF TypeOK
  <1>5. DeepStays
    BY <1>1, <1>3, WaitAssumption DEF DeepStays
  <1>6. ReceiptInv /\ ReturnInv
    BY <1>1 DEF ReceiptInv, ReturnInv
  <1>. QED BY <1>4, <1>5, <1>6 DEF WaitInv

-----------------------------------------------------------------------------
(* The chain.                                                              *)

\* A block keeps every earlier chain of the history, and what the new one
\* shares with the last.
LEMMA BlockStep == WaitInv /\ Block => WaitInv'
  <1>. SUFFICES ASSUME WaitInv, Block PROVE WaitInv'
    OBVIOUS
  <1>1. TypeOK /\ DeepStays /\ ReceiptInv /\ ReturnInv
    BY DEF WaitInv
  <1>0. PICK depth \in 0 .. MaxReorg : \E place \in NextPlaces(tip - depth) :
          /\ tip' = tip + 1
          /\ hist' = [t \in 1 .. tip + 1 |-> IF t <= tip THEN hist[t] ELSE place]
    BY DEF Block
  <1>2. PICK place \in NextPlaces(tip - depth) :
          /\ tip' = tip + 1
          /\ hist' = [t \in 1 .. tip + 1 |-> IF t <= tip THEN hist[t] ELSE place]
    BY <1>0
  <1>3. tip < MaxTip /\ UNCHANGED <<step, last, asked, late, aborted>>
        /\ (step = "tip" => tip < asked + Drift)
    BY DEF Block
  <1>4. tip \in Nat /\ 1 <= tip /\ MaxReorg \in Nat /\ MaxTip \in Nat /\ depth \in Nat /\ depth <= MaxReorg
    BY <1>1, WaitAssumption DEF TypeOK
  <1>5. hist[tip] \in Places /\ hist[tip].at <= tip
    BY <1>1, <1>4 DEF TypeOK
  <1>6. place \in Places /\ place.at <= tip + 1
        /\ (hist[tip].at > 0 /\ hist[tip].at <= tip - depth => place = hist[tip])
    <2>1. Nowhere \in Places /\ Nowhere.at = 0
      BY <1>4 DEF Nowhere, Places
    <2>2. CASE hist[tip].at \in 1 .. tip - depth
      BY <2>2, <1>2, <1>4, <1>5 DEF NextPlaces
    <2>3. CASE hist[tip].at \notin 1 .. tip - depth
      <3>1. place = Nowhere \/ (place \in Places /\ place.at \in (tip - depth) + 1 .. tip + 1)
        BY <2>3, <1>2 DEF NextPlaces
      <3>2. hist[tip].at \in Nat
        BY <1>5 DEF Places
      <3>. QED BY <2>1, <2>3, <3>1, <3>2, <1>4
    <2>. QED BY <2>2, <2>3
  <1>7. /\ \A t \in 1 .. tip : t \in 1 .. tip' /\ hist'[t] = hist[t]
        /\ tip' \in 1 .. tip' /\ hist'[tip'] = place
        /\ hist' \in [1 .. tip' -> Places]
        /\ \A t \in 1 .. tip' : t \in 1 .. tip \/ t = tip'
    BY <1>1, <1>2, <1>4, <1>6 DEF TypeOK
  <1>8. TypeOK'
    <2>1. tip' \in 1 .. MaxTip
      BY <1>2, <1>3, <1>4
    <2>2. \A t \in 1 .. tip' : hist'[t].at <= t
      BY <1>1, <1>2, <1>6, <1>7 DEF TypeOK
    <2>3. last' \in Places /\ last'.at <= tip' /\ asked' \in 1 .. tip'
      BY <1>1, <1>2, <1>3, <1>4 DEF TypeOK, Places
    <2>. QED BY <1>1, <1>3, <1>7, <2>1, <2>2, <2>3 DEF TypeOK
  <1>9. DeepStays'
    <2>. SUFFICES ASSUME NEW t \in 1 .. tip', hist'[t].at > 0, hist'[t].at <= t - MaxReorg
                  PROVE  hist'[tip'] = hist'[t]
      BY DEF DeepStays
    <2>1. CASE t = tip'
      BY <2>1
    <2>2. CASE t \in 1 .. tip
      <3>1. hist[tip] = hist[t]
        BY <1>1, <1>7, <2>2 DEF DeepStays
      <3>2. hist[tip].at > 0 /\ hist[tip].at <= tip - depth
        BY <3>1, <2>2, <1>4, <1>5, <1>7 DEF Places
      <3>. QED BY <3>1, <3>2, <2>2, <1>6, <1>7
    <2>. QED BY <2>1, <2>2, <1>7
  <1>10. ReceiptInv'
    <2>. SUFFICES ASSUME step = "tip" PROVE ReceiptInv'
      BY <1>3 DEF ReceiptInv
    <2>1. tip' <= asked' + Drift
      BY <1>1, <1>2, <1>3, <1>4, WaitAssumption DEF TypeOK
    <2>2. PICK t \in 1 .. tip : hist[t] = last /\ asked <= t + Lag
      BY <1>1 DEF ReceiptInv
    <2>. QED BY <2>1, <2>2, <1>3, <1>7 DEF ReceiptInv
  <1>11. ReturnInv'
    <2>. SUFFICES ASSUME Covered, step = "returned" PROVE ReturnInv'
      BY <1>3 DEF ReturnInv, Covered
    <2>1. PICK t \in 1 .. tip : hist[t] = last /\ last.at <= t - MaxReorg
      BY <1>1 DEF ReturnInv
    <2>. QED BY <2>1, <1>3, <1>7 DEF ReturnInv
  <1>. QED BY <1>8, <1>9, <1>10, <1>11 DEF WaitInv

-----------------------------------------------------------------------------
(* The call.                                                               *)

LEMMA ReadStatusStep == WaitInv /\ ReadStatus => WaitInv'
  <1>. SUFFICES ASSUME WaitInv, ReadStatus PROVE WaitInv'
    OBVIOUS
  <1>1. TypeOK /\ DeepStays
    BY DEF WaitInv
  <1>2. step = "read" /\ asked' = tip /\ UNCHANGED <<tip, hist, late, aborted>>
    BY DEF ReadStatus
  <1>3. tip \in Nat /\ 1 <= tip
    BY <1>1, WaitAssumption DEF TypeOK
  <1>4. PICK t \in 1 .. tip : tip - t <= Lag /\ (last' = hist[t] \/ last' = Nowhere)
    BY DEF ReadStatus, StatusOnce, Views
  <1>5. hist[t] \in Places /\ hist[t].at <= t /\ Nowhere \in Places /\ Nowhere.at = 0
    BY <1>1, <1>4, WaitAssumption DEF TypeOK, Nowhere, Places
  <1>6. last' \in Places /\ last'.at <= tip'
    BY <1>2, <1>3, <1>4, <1>5 DEF Places
  <1>7. last'.at > 0 => last' = hist[t]
    BY <1>4, <1>5
  <1>8. \/ step' \in {"sleep", "failed"}
        \/ last'.at > 0 /\ step' = (IF Confirmations <= 1 THEN "returned" ELSE "tip")
    BY DEF ReadStatus, PollOn, Go, Mined
  <1>9. TypeOK'
    <2>1. step' \in {"read", "tip", "sleep", "returned", "failed"}
          /\ (step' \in {"tip", "returned"} => last'.at > 0)
      BY <1>8
    <2>. QED BY <1>1, <1>2, <1>3, <1>6, <2>1 DEF TypeOK
  <1>10. DeepStays'
    BY <1>1, <1>2 DEF DeepStays
  <1>11. ReceiptInv'
    <2>. SUFFICES ASSUME step' = "tip" PROVE ReceiptInv'
      BY DEF ReceiptInv
    <2>1. last' = hist[t]
      BY <1>7, <1>8
    <2>. QED BY <2>1, <1>2, <1>3, <1>4, WaitAssumption DEF ReceiptInv
  <1>12. ReturnInv'
    <2>. SUFFICES ASSUME Covered, step' = "returned" PROVE ReturnInv'
      BY DEF ReturnInv, Covered
    <2>1. Confirmations <= 1 /\ last' = hist[t]
      BY <1>7, <1>8
    <2>2. MaxReorg = 0
      BY <2>1, WaitAssumption DEF Covered
    <2>3. last'.at <= t - MaxReorg
      BY <2>1, <2>2, <1>4, <1>5, <1>3 DEF Places
    <2>. QED BY <2>1, <2>3, <1>2, <1>4 DEF ReturnInv
  <1>. QED BY <1>9, <1>10, <1>11, <1>12 DEF WaitInv

\* The depth a tip gives the receipt's block, less what the chain moved since
\* the receipt's own chain, is a depth it had on that chain.
LEMMA ReadTipStep == WaitInv /\ ReadTip => WaitInv'
  <1>. SUFFICES ASSUME WaitInv, ReadTip PROVE WaitInv'
    OBVIOUS
  <1>1. TypeOK /\ DeepStays /\ ReceiptInv
    BY DEF WaitInv
  <1>2. step = "tip" /\ UNCHANGED <<tip, hist, last, asked, late, aborted>>
    BY DEF ReadTip
  <1>3. PICK height \in 1 .. tip :
          \/ Depth(height) >= Confirmations /\ step' = "returned"
          \/ step' \in {"sleep", "failed"}
    BY DEF ReadTip, Views, PollOn, Go
  <1>4. TypeOK'
    BY <1>1, <1>2, <1>3 DEF TypeOK
  <1>5. DeepStays'
    BY <1>1, <1>2 DEF DeepStays
  <1>6. ReceiptInv'
    BY <1>3 DEF ReceiptInv
  <1>7. ReturnInv'
    <2>. SUFFICES ASSUME Covered, step' = "returned" PROVE ReturnInv'
      BY DEF ReturnInv, Covered
    <2>1. height - last.at + 1 >= Confirmations
      BY <1>3 DEF Depth
    <2>2. PICK t \in 1 .. tip : hist[t] = last /\ asked <= t + Lag
      BY <1>1, <1>2 DEF ReceiptInv
    <2>3. tip <= asked + Drift /\ asked \in Nat /\ tip \in Nat /\ last.at \in Nat
      BY <1>1, <1>2, WaitAssumption DEF ReceiptInv, TypeOK, Places
    <2>4. last.at <= t - MaxReorg
      BY <1>3, <2>1, <2>2, <2>3, WaitAssumption DEF Covered
    <2>. QED BY <2>2, <2>4, <1>2 DEF ReturnInv
  <1>. QED BY <1>4, <1>5, <1>6, <1>7 DEF WaitInv

LEMMA WaitStep == WaitInv /\ [Next]_vars => WaitInv'
  <1>. SUFFICES ASSUME WaitInv, [Next]_vars PROVE WaitInv'
    OBVIOUS
  <1>1. CASE Begin \/ ReadFails \/ Wake
    <2>1. step' \in {"read", "failed"} /\ UNCHANGED <<tip, hist, last, asked, late, aborted>>
      BY <1>1 DEF Begin, ReadFails, Wake, Go
    <2>. QED BY <2>1 DEF WaitInv, TypeOK, DeepStays, ReceiptInv, ReturnInv
  <1>2. CASE DeadlinePasses \/ Abort
    <2>1. late' \in BOOLEAN /\ aborted' \in BOOLEAN /\ UNCHANGED <<tip, hist, step, last, asked>>
      BY <1>2 DEF DeadlinePasses, Abort, WaitInv, TypeOK
    <2>. QED BY <2>1 DEF WaitInv, TypeOK, DeepStays, ReceiptInv, ReturnInv, Covered
  <1>3. CASE UNCHANGED vars
    BY <1>3 DEF vars, WaitInv, TypeOK, DeepStays, ReceiptInv, ReturnInv, Covered
  <1>. QED BY <1>1, <1>2, <1>3, BlockStep, ReadStatusStep, ReadTipStep DEF Next, Call

-----------------------------------------------------------------------------
(* What it says.                                                           *)

THEOREM WaitInvariance == Spec => []WaitInv
  BY WaitInit, WaitStep, PTL DEF Spec

\* With confirmations to cover a reorganisation, the nodes' lag and the blocks
\* between the two reads, a returned status is on the chain and stays there.
THEOREM ReturnedIsFinal == Spec => []SuccessIsFinal
  <1>1. WaitInv => SuccessIsFinal
    <2>. SUFFICES ASSUME WaitInv, Covered, step = "returned" PROVE hist[tip] = last
      BY DEF SuccessIsFinal
    <2>1. PICK t \in 1 .. tip : hist[t] = last /\ last.at <= t - MaxReorg
      BY DEF WaitInv, ReturnInv
    <2>2. last.at > 0
      BY DEF WaitInv, TypeOK
    <2>. QED BY <2>1, <2>2 DEF WaitInv, DeepStays
  <1>. QED BY <1>1, WaitInvariance, PTL
-----------------------------------------------------------------------------
(* What is built: fees that last, and what was asked for.                  *)

\* A base fee that rises for w blocks, by an eighth or by one.
Risen(fee, first, w) ==
    \/ w = 0 /\ fee <= first
    \/ w = 1 /\ 8 * fee <= 9 * first + 8
    \/ w = 2 /\ 64 * fee <= 81 * first + 128
    \/ w = 3 /\ 512 * fee <= 729 * first + 1536
    \/ w = 4 /\ 4096 * fee <= 6561 * first + 16384
    \/ w = 5 /\ 32768 * fee <= 59049 * first + 163840

FeesInv ==
    /\ history \in Histories
    /\ gas.kind \in {"none", "eip1559", "legacy"}
    /\ gas.kind = "eip1559" => gas = B!eip1559Gas
    /\ gas.kind = "legacy" => \E m \in Multipliers : gas = B!legacyGas(m)
    /\ base \in Nat /\ waited \in 0..5 /\ waited <= WaitBlocks
    /\ Risen(base, history.base, waited)

\* The inductive invariant for BuiltToLast: the suggestion is fixed when the base fee
\* begins to rise.
BuildInv == FeesInv /\ B!BuiltAsAsked

\* A block raises the base fee by an eighth, or by one while that is less.
LEMMA RiseOfABlock ==
    ASSUME NEW fee \in Nat
    PROVE  LET more == fee + B!AtLeast(fee \div 8, 1)
           IN  more \in Nat /\ more >= fee /\ (8 * more <= 9 * fee \/ (more = fee + 1 /\ fee < 8))
<1>1. PICK k \in Nat : k = fee \div 8  OBVIOUS
<1>2. 8 * k <= fee /\ (k = 0 => fee < 8)  BY <1>1
<1>3. B!AtLeast(fee \div 8, 1) = IF k < 1 THEN 1 ELSE k  BY <1>1 DEF B!AtLeast
<1> QED  BY <1>2, <1>3

\* Another block raises the base fee by no more than its number allows.
LEMMA RisesOn ==
    ASSUME NEW fee \in Nat, NEW first \in Nat, NEW w \in 0..4, Risen(fee, first, w),
           NEW more \in Nat, more = fee \/ 8 * more <= 9 * fee \/ (more = fee + 1 /\ fee < 8)
    PROVE  Risen(more, first, w + 1)
<1>1. CASE w = 0  BY <1>1 DEF Risen
<1>2. CASE w = 1  BY <1>2 DEF Risen
<1>3. CASE w = 2  BY <1>3 DEF Risen
<1>4. CASE w = 3  BY <1>4 DEF Risen
<1>5. CASE w = 4  BY <1>5 DEF Risen
<1> QED  BY <1>1, <1>2, <1>3, <1>4, <1>5

\* Twice the base fee and a tip that is the floor at least pay for five blocks.
LEMMA RiseIsPaid ==
    ASSUME NEW fee \in Nat, NEW first \in Nat, NEW w \in 0..5, Risen(fee, first, w),
           NEW offer \in Int, w <= offer
    PROVE  fee <= 2 * first + offer
<1>1. CASE w = 0  BY <1>1 DEF Risen
<1>2. CASE w = 1  BY <1>2 DEF Risen
<1>3. CASE w = 2  BY <1>3 DEF Risen
<1>4. CASE w = 3  BY <1>4 DEF Risen
<1>5. CASE w = 4  BY <1>5 DEF Risen
<1>6. CASE w = 5  BY <1>6 DEF Risen
<1> QED  BY <1>1, <1>2, <1>3, <1>4, <1>5, <1>6

LEMMA BuildCardinalityIs == \A S : B!Cardinality(S) = Cardinality(S)
BY DEF B!Cardinality, Cardinality

\* Of the places of a list some hold the greatest of their values.
LEMMA GreatestOf ==
    ASSUME NEW list \in Seq(Int), NEW S \in SUBSET DOMAIN list, S # {}
    PROVE  \E i \in S : \A j \in S : list[j] <= list[i]
<1> DEFINE upTo(i) == {j \in S : list[j] <= list[i]}
           left == {Cardinality(S) - Cardinality(upTo(i)) : i \in S}
<1>1. IsFiniteSet(S) /\ \A i \in S : list[i] \in Int
    <2>1. DOMAIN list = 1..Len(list) /\ Len(list) \in Nat /\ \A i \in DOMAIN list : list[i] \in Int  OBVIOUS
    <2>2. IsFiniteSet(1..Len(list))  BY <2>1, PlacesAreFinite
    <2> QED  BY <2>1, <2>2, FS_Subset
<1>2. \A i \in S : /\ IsFiniteSet(upTo(i)) /\ Cardinality(upTo(i)) \in Nat /\ Cardinality(S) \in Nat
                   /\ Cardinality(upTo(i)) <= Cardinality(S)
    <2>1. \A i \in S : upTo(i) \subseteq S  OBVIOUS
    <2> HIDE DEF upTo
    <2> QED  BY <1>1, <2>1, FS_Subset, FS_CardinalityType
<1>3. left \in SUBSET Nat /\ left # {}
    <2> HIDE DEF upTo
    <2> QED  BY <1>2
<1>4. PICK m \in left : \A k \in left : m <= k
    <2> HIDE DEF left
    <2> QED  BY <1>3, LeastNatural
<1>5. PICK i \in S : m = Cardinality(S) - Cardinality(upTo(i))  OBVIOUS
<1>6. ASSUME NEW j \in S, ~(list[j] <= list[i]) PROVE FALSE
    <2>1. upTo(i) \subseteq upTo(j) /\ j \in upTo(j) /\ j \notin upTo(i)  BY <1>1, <1>6
    <2>2. Cardinality(upTo(i)) < Cardinality(upTo(j))
        <3> HIDE DEF upTo
        <3>1. upTo(i) \in SUBSET upTo(j) /\ upTo(i) # upTo(j) /\ IsFiniteSet(upTo(j))  BY <1>2, <2>1
        <3> QED  BY <3>1, PartIsSmaller
    <2>3. m <= Cardinality(S) - Cardinality(upTo(j))  BY <1>4
    <2> HIDE DEF upTo, left
    <2> QED  BY <1>2, <1>5, <2>2, <2>3
<1> QED  BY <1>6

\* What stands at a place of the sorted list has more values up to it than the place.
LEMMA SortedIs ==
    ASSUME NEW list \in Seq(Int), NEW place \in Nat, place < Len(list)
    PROVE  /\ B!Sorted(list, place) \in Int
           /\ place < Cardinality({i \in DOMAIN list : list[i] <= B!Sorted(list, place)})
<1> DEFINE upTo(v) == {i \in DOMAIN list : list[i] <= v}
           before(v) == {i \in DOMAIN list : list[i] < v}
           values == {list[i] : i \in DOMAIN list}
           enough == {Cardinality(upTo(v)) : v \in {u \in values : place < Cardinality(upTo(u))}}
<1>1. DOMAIN list = 1..Len(list) /\ Len(list) \in Nat /\ values \subseteq Int  OBVIOUS
<1>2. IsFiniteSet(DOMAIN list) /\ Cardinality(DOMAIN list) = Len(list)  BY <1>1, PlacesAreFinite
<1>3. \A v : /\ IsFiniteSet(upTo(v)) /\ Cardinality(upTo(v)) \in Nat
             /\ IsFiniteSet(before(v)) /\ Cardinality(before(v)) \in Nat
    <2>1. \A v : upTo(v) \subseteq DOMAIN list /\ before(v) \subseteq DOMAIN list  OBVIOUS
    <2> HIDE DEF upTo, before
    <2> QED  BY <1>2, <2>1, FS_Subset, FS_CardinalityType
<1>4. enough \in SUBSET Nat /\ enough # {}
    <2>1. 1 \in DOMAIN list
        <3> DEFINE n == Len(list)
        <3>1. n \in Nat /\ place < n /\ DOMAIN list = 1..n  BY <1>1
        <3> HIDE DEF n
        <3> QED  BY <3>1
    <2>2. PICK i \in DOMAIN list : \A j \in DOMAIN list : list[j] <= list[i]
        <3>1. DOMAIN list \in SUBSET DOMAIN list /\ DOMAIN list # {}  BY <2>1
        <3> QED  BY <3>1, GreatestOf
    <2>3. upTo(list[i]) = DOMAIN list  BY <2>2
    <2>4. place < Cardinality(upTo(list[i])) /\ list[i] \in values  BY <1>2, <2>3
    <2> HIDE DEF upTo, values
    <2> QED  BY <1>3, <2>4
<1>5. PICK m \in enough : \A k \in enough : m <= k
    <2> HIDE DEF enough
    <2> QED  BY <1>4, LeastNatural
<1>6. PICK v \in values : place < Cardinality(upTo(v)) /\ m = Cardinality(upTo(v))
    <2> HIDE DEF upTo, values
    <2> QED  OBVIOUS
<1>7. Cardinality(before(v)) <= place
    <2>0. Cardinality(before(v)) \in Nat  BY <1>3
    <2> SUFFICES ASSUME place < Cardinality(before(v)) PROVE FALSE
        <3> HIDE DEF before
        <3> QED  BY <2>0
    <2>1. before(v) # {}
        <3> HIDE DEF before
        <3>1. ASSUME before(v) = {} PROVE FALSE
            <4>1. Cardinality(before(v)) = 0  BY <3>1, FS_EmptySet
            <4> QED  BY <4>1
        <3> QED  BY <3>1
    <2>2. before(v) \in SUBSET DOMAIN list  OBVIOUS
    <2>3. PICK i \in before(v) : \A j \in before(v) : list[j] <= list[i]
        <3> HIDE DEF before
        <3> QED  BY <2>1, <2>2, GreatestOf
    <2>4. upTo(list[i]) = before(v)  BY <1>1, <2>3
    <2>5. list[i] \in values  BY <2>3
    <2>6. Cardinality(before(v)) \in enough
        <3> HIDE DEF upTo, before, values
        <3> QED  BY <2>4, <2>5
    <2>7. PICK k \in DOMAIN list : list[k] = v  OBVIOUS
    <2>8. before(v) \subseteq upTo(v) /\ k \in upTo(v) /\ k \notin before(v)  BY <1>1, <2>7
    <2>9. Cardinality(before(v)) < Cardinality(upTo(v))
        <3> HIDE DEF upTo, before
        <3>1. before(v) \in SUBSET upTo(v) /\ before(v) # upTo(v) /\ IsFiniteSet(upTo(v))  BY <1>3, <2>8
        <3> QED  BY <3>1, PartIsSmaller
    <2> HIDE DEF upTo, before, enough
    <2> QED  BY <1>3, <1>5, <1>6, <2>6, <2>9
<1>8. \E u \in values : Cardinality(before(u)) <= place /\ place < Cardinality(upTo(u))  BY <1>6, <1>7
<1>9. B!Sorted(list, place) = CHOOSE u \in values : Cardinality(before(u)) <= place /\ place < Cardinality(upTo(u))
    BY BuildCardinalityIs DEF B!Sorted
<1>10. B!Sorted(list, place) \in values /\ place < Cardinality(upTo(B!Sorted(list, place)))
    <2> HIDE DEF upTo, before, values
    <2> QED  BY <1>8, <1>9
<1> QED  BY <1>1, <1>10

\* The selected tip is one that nine in ten of the sampled blocks took.
LEMMA TipIsTaken ==
    ASSUME history \in Histories
    PROVE  /\ B!selectedTip \in Int
           /\ 10 * Cardinality({i \in DOMAIN history.tips : history.tips[i] <= B!selectedTip})
                >= 9 * Len(history.tips)
<1> DEFINE tips == history.tips
           n == Len(tips)
           taken(v) == Cardinality({i \in DOMAIN tips : tips[i] <= v})
<1>1. tips \in Seq(Int) /\ n \in Nat /\ FallbackTip \in Int  BY FeesAreAmounts
<1>2. CASE tips = <<>>
    <2>1. n = 0 /\ {i \in DOMAIN tips : tips[i] <= B!selectedTip} = {}  BY <1>2
    <2>2. taken(B!selectedTip) = 0  BY <2>1, FS_EmptySet
    <2> QED  BY <1>1, <1>2, <2>1, <2>2 DEF B!selectedTip
<1>3. CASE tips # <<>>
    <2> DEFINE spot == (n * 90) \div 100
               place == IF spot < n - 1 THEN spot ELSE n - 1
    <2>1. n > 0  BY <1>1, <1>3
    <2>2. place \in Nat /\ place < n /\ 10 * (place + 1) >= 9 * n
        <3> HIDE DEF n
        <3>1. PICK k \in Nat : k = (n * 90) \div 100  BY <1>1
        <3>2. 100 * k <= 90 * n /\ 90 * n < 100 * (k + 1)  BY <1>1, <3>1
        <3> QED  BY <1>1, <2>1, <3>1, <3>2
    <2>3. B!selectedTip = B!Sorted(tips, place)  BY <1>3 DEF B!selectedTip
    <2>4. B!selectedTip \in Int /\ place < taken(B!selectedTip)
        <3> HIDE DEF place, tips
        <3> QED  BY <1>1, <2>2, <2>3, SortedIs DEF n
    <2>5. taken(B!selectedTip) \in Nat
        <3>1. IsFiniteSet(DOMAIN tips)
            <4>1. DOMAIN tips = 1..n  BY <1>1
            <4> HIDE DEF n
            <4> QED  BY <1>1, <4>1, PlacesAreFinite
        <3>2. {i \in DOMAIN tips : tips[i] <= B!selectedTip} \in SUBSET DOMAIN tips  OBVIOUS
        <3> HIDE DEF tips
        <3> QED  BY <3>1, <3>2, FS_Subset, FS_CardinalityType
    <2> HIDE DEF taken, place, n
    <2>6. 10 * taken(B!selectedTip) >= 9 * n  BY <1>1, <2>2, <2>4, <2>5
    <2> QED  BY <2>4, <2>6 DEF taken, n
<1> QED  BY <1>2, <1>3

\* The fees that are suggested last.
LEMMA FeesDo == ASSUME FeesInv PROVE B!FeesLast
<1>1. history.base \in Nat /\ history.gasPrice \in Int /\ Floor \in Nat  BY FeesAreAmounts DEF FeesInv
<1>2. ASSUME gas.kind = "eip1559"
      PROVE  /\ base <= gas.maxFee /\ Floor <= gas.tip /\ gas.tip <= gas.maxFee
             /\ 10 * Cardinality({i \in DOMAIN history.tips : history.tips[i] <= gas.tip}) >= 9 * Len(history.tips)
    <2> DEFINE offer == B!AtLeast(B!selectedTip, Floor)
               taken(v) == {i \in DOMAIN history.tips : history.tips[i] <= v}
    <2>1. gas.tip = offer /\ gas.maxFee = 2 * history.base + offer  BY <1>2 DEF FeesInv, B!eip1559Gas
    <2>2. B!selectedTip \in Int /\ 10 * Cardinality(taken(B!selectedTip)) >= 9 * Len(history.tips)
        BY TipIsTaken DEF FeesInv
    <2>3. offer \in Int /\ Floor <= offer /\ B!selectedTip <= offer  BY <1>1, <2>2 DEF B!AtLeast
    <2>4. base <= 2 * history.base + offer
        <3> HIDE DEF offer
        <3>1. waited <= offer /\ waited \in 0..5 /\ base \in Nat /\ Risen(base, history.base, waited)
            BY <1>1, <2>3, FeesAreAmounts DEF FeesInv
        <3> QED  BY <1>1, <2>3, <3>1, RiseIsPaid
    <2>5. /\ history.tips \in Seq(Int) /\ Len(history.tips) \in Nat
        BY FeesAreAmounts DEF FeesInv
    <2>6. /\ Cardinality(taken(B!selectedTip)) \in Nat /\ Cardinality(taken(offer)) \in Nat
          /\ Cardinality(taken(B!selectedTip)) <= Cardinality(taken(offer))
        <3>1. DOMAIN history.tips = 1..Len(history.tips) /\ \A i \in DOMAIN history.tips : history.tips[i] \in Int
            BY <2>5
        <3>2. IsFiniteSet(DOMAIN history.tips)  BY <2>5, <3>1, PlacesAreFinite
        <3>3. taken(B!selectedTip) \in SUBSET taken(offer)
            <4> HIDE DEF offer
            <4> QED  BY <2>2, <2>3, <3>1
        <3>4. taken(offer) \in SUBSET DOMAIN history.tips  OBVIOUS
        <3> HIDE DEF taken, offer
        <3> QED  BY <3>2, <3>3, <3>4, FS_Subset, FS_CardinalityType
    <2>7. 10 * Cardinality(taken(offer)) >= 9 * Len(history.tips)
        <3> HIDE DEF taken, offer
        <3> QED  BY <2>2, <2>5, <2>6
    <2> HIDE DEF offer
    <2> QED  BY <1>1, <2>1, <2>3, <2>4, <2>7
<1>3. ASSUME gas.kind = "legacy" PROVE gas.gasPrice >= Floor /\ gas.gasPrice >= history.gasPrice
    <2>1. PICK m \in Multipliers : gas = B!legacyGas(m)  BY <1>3 DEF FeesInv
    <2> DEFINE hint == IF history.gasPrice > 0 THEN history.gasPrice ELSE Floor
    <2>2. hint \in Nat /\ history.gasPrice <= hint /\ m \in Nat /\ m >= 100  BY <1>1, FeesAreAmounts
    <2>3. gas.gasPrice = B!AtLeast((hint * m) \div 100, Floor)  BY <2>1 DEF B!legacyGas
    <2>4. (hint * m) \div 100 \in Int /\ hint <= (hint * m) \div 100
        <3> HIDE DEF hint
        <3>1. PICK k \in Nat : m = 100 + k  
            <4>1. m - 100 \in Nat /\ m = 100 + (m - 100)  BY <2>2
            <4> QED  BY <4>1
        <3>2. PICK h \in Nat : h = hint * k  BY <2>2
        <3>3. hint * m = 100 * hint + h  BY <2>2, <3>1, <3>2
        <3> QED  BY <2>2, <3>2, <3>3
    <2> HIDE DEF hint
    <2> QED  BY <1>1, <2>2, <2>3, <2>4 DEF B!AtLeast
<1> QED  BY <1>2, <1>3, BuildCardinalityIs DEF B!FeesLast

\* A transfer that is built moves what was asked for in the decimals of its token.
LEMMA TransferIsAsked ==
    ASSUME NEW req, NEW readable, B!createTransfer(req, readable).kind # "throws"
    PROVE  LET built == B!createTransfer(req, readable)
               exact == B!resolveTransferAmount(req, MCDecimals[built.token])
           IN  built.kind = "transfer" /\ built.token = req.token /\ exact.kind = "exact" /\ built.amount = exact.amountMr
<1> DEFINE decimals == IF req.amountHr = <<>> THEN <<0>> ELSE B!resolveDecimals(req.token, readable)
           amount == B!resolveTransferAmount(req, decimals[1])
           exact == B!resolveTransferAmount(req, MCDecimals[req.token])
           built == B!createTransfer(req, readable)
<1>1. decimals # <<>> /\ ~req.full /\ amount.kind # "refused" /\ built.kind = "transfer" /\ built.token = req.token
         /\ built.amount = amount.amountMr
    BY Zenon DEF B!createTransfer, B!Throws
<1>2. CASE req.amountHr = <<>>
    <2>1. Len(req.amount) + Len(req.amountHr) + 0 = 1
        BY <1>1 DEF B!resolveTransferAmount
    <2>2. req.amount # <<>>  BY <1>2, <2>1
    <2>3. amount = exact  BY <1>2, <2>2, Zenon DEF B!resolveTransferAmount
    <2> QED  BY <1>1, <2>3 DEF B!resolveTransferAmount
<1>3. CASE req.amountHr # <<>>
    <2>1. decimals = <<MCDecimals[req.token]>>  BY <1>1, <1>3, Zenon DEF B!resolveDecimals
    <2>2. amount = exact  BY <2>1
    <2> QED  BY <1>1, <2>2 DEF B!resolveTransferAmount
<1> QED  BY <1>2, <1>3

\* A call that is built has authorizations that hold, and the type they need.
LEMMA CallIsAsked ==
    ASSUME NEW req, B!createUnsigned(req).kind # "throws"
    PROVE  LET built == B!createUnsigned(req)
           IN  /\ built.kind = "call"
               /\ \A a \in built.auths : B!AuthorizationHolds(a)
               /\ built.auths # {} => built.type = 4
               /\ built.type \in {2, 4} \/ built.fees = <<>>
BY DEF B!createUnsigned, B!Throws

LEMMA BuildInit == B!Init => BuildInv
<1> SUFFICES ASSUME B!Init PROVE BuildInv
    OBVIOUS
<1>1. history \in Histories /\ gas.kind = "none" /\ base = history.base /\ waited = 0 /\ unsigned.kind = "none"
    BY DEF B!Init, B!None
<1>2. base \in Nat /\ WaitBlocks \in Nat  BY <1>1, FeesAreAmounts
<1> QED  BY <1>1, <1>2 DEF BuildInv, FeesInv, Risen, B!BuiltAsAsked

LEMMA BuildStep == BuildInv /\ [B!Next]_(B!vars) => BuildInv'
<1> SUFFICES ASSUME BuildInv, [B!Next]_(B!vars) PROVE BuildInv'
    OBVIOUS
<1> USE DEF BuildInv
<1>1. ASSUME UNCHANGED <<network, request, unsigned>> PROVE B!BuiltAsAsked'
    BY <1>1 DEF B!BuiltAsAsked, B!resolveTransferAmount, B!hrDecimalToMinorUnits, B!Truncate, B!PowerOf10
<1>2. CASE B!suggestGas
    <2>1. UNCHANGED <<network, history, base, waited, request, unsigned>>  BY <1>2 DEF B!suggestGas
    <2>2. gas' = B!eip1559Gas \/ \E m \in Multipliers : gas' = B!legacyGas(m)  BY <1>2 DEF B!suggestGas
    <2>3. B!eip1559Gas' = B!eip1559Gas /\ \A m : B!legacyGas(m)' = B!legacyGas(m)
        BY <2>1 DEF B!eip1559Gas, B!legacyGas, B!selectedTip, B!Sorted
    <2>4. B!eip1559Gas.kind = "eip1559" /\ \A m : B!legacyGas(m).kind = "legacy"
        BY DEF B!eip1559Gas, B!legacyGas
    <2>5. FeesInv'  BY <2>1, <2>2, <2>3, <2>4 DEF FeesInv, Risen
    <2> QED  BY <1>1, <2>1, <2>5
<1>3. CASE B!Block
    <2>1. waited < WaitBlocks /\ waited' = waited + 1 /\ UNCHANGED <<network, history, gas, request, unsigned>>
        BY <1>3 DEF B!Block
    <2>2. base' \in {base, base + B!AtLeast(base \div 8, 1)}  BY <1>3 DEF B!Block
    <2>3. /\ history.base \in Nat /\ base \in Nat /\ waited \in 0..4
        BY <2>1, FeesAreAmounts DEF FeesInv
    <2>4. base' \in Nat /\ (base' = base \/ 8 * base' <= 9 * base \/ (base' = base + 1 /\ base < 8))
        BY <2>2, <2>3, RiseOfABlock
    <2>5. Risen(base', history.base, waited + 1)
        BY <2>3, <2>4, RisesOn DEF FeesInv
    <2>6. Risen(base, history.base, waited)'
        BY <2>1, <2>5 DEF Risen
    <2>7. B!eip1559Gas' = B!eip1559Gas /\ \A m : B!legacyGas(m)' = B!legacyGas(m)
        BY <2>1 DEF B!eip1559Gas, B!legacyGas, B!selectedTip, B!Sorted
    <2>8. FeesInv'  BY <2>1, <2>3, <2>4, <2>6, <2>7, FeesAreAmounts DEF FeesInv
    <2> QED  BY <1>1, <2>1, <2>8
<1>4. CASE B!Build
    <2>1. UNCHANGED <<network, history, gas, base, waited, request>>  BY <1>4 DEF B!Build
    <2>2. B!eip1559Gas' = B!eip1559Gas /\ \A m : B!legacyGas(m)' = B!legacyGas(m)
        BY <2>1 DEF B!eip1559Gas, B!legacyGas, B!selectedTip, B!Sorted
    <2>3. FeesInv'  BY <2>1, <2>2 DEF FeesInv, Risen
    <2>4. CASE unsigned'.kind = "throws"
        BY <2>3, <2>4 DEF B!BuiltAsAsked
    <2>5. ASSUME request.by = "call", unsigned'.kind # "throws" PROVE B!BuiltAsAsked'
        <3>1. unsigned' = B!createUnsigned(request.req)  BY <1>4, <2>5 DEF B!Build
        <3>2. /\ unsigned'.kind = "call" /\ \A a \in unsigned'.auths : B!AuthorizationHolds(a)
              /\ unsigned'.auths # {} => unsigned'.type = 4
              /\ unsigned'.type \in {2, 4} \/ unsigned'.fees = <<>>
            BY <2>5, <3>1, CallIsAsked
        <3> QED  BY <2>1, <3>2 DEF B!BuiltAsAsked, B!AuthorizationHolds
    <2>6. ASSUME request.by # "call", unsigned'.kind # "throws" PROVE B!BuiltAsAsked'
        <3>1. PICK readable \in BOOLEAN : unsigned' = B!createTransfer(request.req, readable)
            BY <1>4, <2>6 DEF B!Build
        <3> DEFINE exact == B!resolveTransferAmount(request.req, MCDecimals[unsigned'.token])
        <3>2. /\ unsigned'.kind = "transfer" /\ unsigned'.token = request.req.token
              /\ exact.kind = "exact" /\ unsigned'.amount = exact.amountMr
            BY <2>6, <3>1, TransferIsAsked
        <3> QED  BY <2>1, <3>2 DEF B!BuiltAsAsked
    <2> QED  BY <2>3, <2>4, <2>5, <2>6
<1>5. CASE UNCHANGED B!vars
    <2>1. UNCHANGED <<network, history, gas, base, waited, request, unsigned>>  BY <1>5 DEF B!vars
    <2>2. B!eip1559Gas' = B!eip1559Gas /\ \A m : B!legacyGas(m)' = B!legacyGas(m)
        BY <2>1 DEF B!eip1559Gas, B!legacyGas, B!selectedTip, B!Sorted
    <2>3. FeesInv'  BY <2>1, <2>2 DEF FeesInv, Risen
    <2> QED  BY <1>1, <2>1, <2>3
<1> QED  BY <1>2, <1>3, <1>4, <1>5 DEF B!Next

LEMMA BuildSceneStep == BuildInv /\ [MCNext]_<<scene, vars, paymentVars, changeVars, buildVars>> => BuildInv'
<1>1. [MCNext]_<<scene, vars, paymentVars, changeVars, buildVars>> => [B!Next]_(B!vars)
    BY DEF MCNext, buildVars, B!vars
<1> QED  BY <1>1, BuildStep

\* Twice the base fee and the tip pay for the blocks a caller waits, however full they
\* are; nine in ten of the sampled blocks took the tip; and what is built is what was
\* asked for: for any histories of fees, tiers, chains, tokens and requests.
THEOREM WhatIsBuiltLasts == MCSpec => []BuiltToLast
<1>1. MCInit => BuildInv  BY BuildInit DEF MCInit
<1>2. BuildInv => BuiltToLast  BY FeesDo DEF BuildInv, BuiltToLast, B!BuiltToLast
<1> QED  BY <1>1, <1>2, BuildSceneStep, PTL DEF MCSpec
=============================================================================
