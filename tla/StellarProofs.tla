------------------------- MODULE StellarProofs -------------------------
(***************************************************************************)
(* Theorems about StellarPayment, that of two payments of the same the     *)
(* first was shown as paid before the second was prepared, and that the    *)
(* answers of broadcast and of getTransactionStatus are true, for any      *)
(* number of payments and transactions; about StellarTrust, that a trust   *)
(* line a caller was told of has room until others change it, for any      *)
(* number of callers; about StellarTokens, that its cache forgets failures *)
(* and, of what has not failed, only the oldest entry; and about           *)
(* StellarChanges, that the balance changes which are foreseen are those   *)
(* that are told, for any operations and filters.                          *)
(***************************************************************************)
EXTENDS StellarMC, Sums, SequenceTheorems

Taken(t) == tx[t].step # "idle"

\* What was applied is what the client signed and posted, at its sequence number; what a
\* node holds was signed and posted.
LedgerInv ==
    /\ \A i \in DOMAIN ledger :
           Given(ledger[i].tx) /\ tx[ledger[i].tx].posted /\ tx[ledger[i].tx].seq = i
    /\ \A t \in pool : Given(t) /\ tx[t].posted

\* Nothing is prepared beyond what Horizon knows of.
SeqInv == \A t \in Txs : Taken(t) => tx[t].seq <= ingested + 1

\* What was paid of a payment at the places before a transaction's, was shown when its
\* account was loaded.
ShownInv ==
    \A t \in Txs, i \in DOMAIN ledger :
        /\ Taken(t) /\ i < tx[t].seq
        /\ ledger[i].paid /\ tx[ledger[i].tx].payment = tx[t].payment
        => ledger[i].tx \in tx[t].shown

\* The inductive invariant for PaidAgainOnlyIfShown: all places before a transaction's were
\* taken, and known to Horizon, when its account was loaded; what comes later comes behind.
IInv == TypeOK /\ LedgerInv /\ SeqInv /\ ShownInv

\* A call of broadcast that is under way starts from an answer that is open; a failed
\* status is of a transaction that has taken its place.
AnswersInv ==
    \A t \in Txs :
        /\ tx[t].step \in {"checked", "posted"} => told[t] = "open"
        /\ told[t] = "sent" => t \in Paid
        /\ told[t] = "rejected" => t \notin Paid /\ t \notin pool
        /\ verdict[t] = "Success" => t \in Paid
        /\ verdict[t] = "Failed" => t \in Applied /\ t \notin Paid

USE FeesAreStroops

LEMMA InitHolds == Init => IInv /\ AnswersInv
BY DEF Init, IInv, TypeOK, LedgerInv, SeqInv, ShownInv, AnswersInv, Taken, Given, NoTx,
       Answers, BroadcastRejected, Verdicts

\* What has a step but "idle" is a transaction.
LEMMA TakenIsTransaction ==
    ASSUME TypeOK, NEW t \in Txs, Taken(t)
    PROVE  tx[t] \in Transaction
BY DEF TypeOK, Taken, NoTx

\* The ledger's entries are of transactions.
LEMMA EntriesAreTyped ==
    ASSUME TypeOK
    PROVE  /\ Len(ledger) \in Nat /\ DOMAIN ledger = 1..Len(ledger)
           /\ \A i \in DOMAIN ledger : ledger[i].tx \in Txs /\ ledger[i].paid \in BOOLEAN
<1> DEFINE Entry == [tx : Txs, paid : BOOLEAN]
<1>1. ledger \in Seq(Entry)  BY DEF TypeOK
<1>2. \A e \in Entry : e.tx \in Txs /\ e.paid \in BOOLEAN  OBVIOUS
<1> HIDE DEF Entry
<1>3. Len(ledger) \in Nat /\ DOMAIN ledger = 1..Len(ledger)  BY <1>1
<1>4. \A i \in DOMAIN ledger : ledger[i] \in Entry  BY <1>1, <1>3
<1> QED  BY <1>2, <1>3, <1>4

\* What is paid has a paid entry.
LEMMA PaidIs ==
    ASSUME TypeOK
    PROVE  \A t : t \in Paid <=> \E i \in DOMAIN ledger : ledger[i].tx = t /\ ledger[i].paid
BY EntriesAreTyped DEF Paid, PaidBy

\* A fee is a number of stroops.
LEMMA FeeIsStroops == ASSUME NEW f \in Nat PROVE resolveGasPricing(f) \in Nat
<1>1. f * Multiplier(Pricing) \in Nat  BY DEF Multiplier
<1> DEFINE s == IF Pricing \in {"SLOW", "NORMAL", "FAST"} THEN f * Multiplier(Pricing) ELSE Pricing
<1>2. s \in Nat  BY <1>1
<1>3. resolveGasPricing(f) = IF s > 100 THEN s ELSE 100  BY DEF resolveGasPricing
<1> HIDE DEF s
<1> QED  BY <1>2, <1>3

\* A transaction keeps its number, its payment and what was shown; what was posted stays so.
Keeps(t) ==
    /\ tx'[t].seq = tx[t].seq /\ tx'[t].payment = tx[t].payment /\ tx'[t].shown = tx[t].shown
    /\ tx[t].posted => tx'[t].posted

\* The two reads before the signature give a step and a fee.
LEMMA PrepareIs ==
    ASSUME TypeOK, NEW t \in Txs, GetBaseFee(t) \/ Prepare(t)
    PROVE  /\ tx'[t].step \in {"prepare", "signed"} /\ Keeps(t)
           /\ \A u \in Txs : u # t => tx'[u] = tx[u]
<1>1. tx[t] \in Transaction  BY TakenIsTransaction DEF GetBaseFee, Prepare, Taken
<1>2. ASSUME NEW paid, NEW next \in {"prepare", "signed"},
             tx' = [tx EXCEPT ![t].fee = paid, ![t].step = next]
      PROVE  /\ tx'[t].step \in {"prepare", "signed"} /\ Keeps(t)
             /\ \A u \in Txs : u # t => tx'[u] = tx[u]
    BY <1>1, <1>2 DEF TypeOK, Transaction, Keeps
<1>3. CASE GetBaseFee(t)
    <2>1. PICK f \in Fees : tx' = [tx EXCEPT ![t].fee = resolveGasPricing(f),
                                   ![t].step = IF ClassicPayment(Request[tx[t].payment]) THEN "signed" ELSE "prepare"]
        BY <1>3 DEF GetBaseFee
    <2> DEFINE after == IF ClassicPayment(Request[tx[t].payment]) THEN "signed" ELSE "prepare"
    <2>2. after \in {"prepare", "signed"}  OBVIOUS
    <2>3. tx' = [tx EXCEPT ![t].fee = resolveGasPricing(f), ![t].step = after]  BY <2>1
    <2> HIDE DEF after
    <2> QED  BY <1>2, <2>2, <2>3
<1>4. CASE Prepare(t)
    <2>1. PICK resource \in Fees : tx' = [tx EXCEPT ![t].fee = @ + resource, ![t].step = "signed"]
        BY <1>4 DEF Prepare
    <2>2. tx' = [tx EXCEPT ![t].fee = tx[t].fee + resource, ![t].step = "signed"]  BY <2>1
    <2> QED  BY <1>2, <2>2
<1> QED  BY <1>3, <1>4

\* The steps of broadcast give a step, and remember the post.
LEMMA BroadcastIs ==
    ASSUME TypeOK, NEW t \in Txs, CheckMemoRequired(t) \/ Post(t) \/ Reply(t)
    PROVE  /\ tx[t] \in Transaction /\ Given(t) /\ tx'[t] \in Transaction
           /\ Given(t)' /\ Keeps(t) /\ \A u \in Txs : u # t => tx'[u] = tx[u]
           /\ Post(t) => tx'[t].posted
<1>1. tx[t] \in Transaction /\ Given(t)
    BY TakenIsTransaction DEF CheckMemoRequired, Post, Reply, Taken, Given
<1>2. CASE CheckMemoRequired(t)
    <2>1. tx' = [tx EXCEPT ![t].step = "checked"] \/ tx' = tx  BY <1>2 DEF CheckMemoRequired
    <2>2. ~Post(t)  BY <1>2 DEF CheckMemoRequired, Post
    <2> QED  BY <1>1, <2>1, <2>2 DEF TypeOK, Transaction, Steps, Given, Keeps
<1>3. CASE Post(t)
    <2>1. tx' = [tx EXCEPT ![t].step = "posted", ![t].posted = TRUE]  BY <1>3 DEF Post
    <2>2. [[tx[t] EXCEPT !.step = "posted"] EXCEPT !.posted = TRUE] \in Transaction
        BY <1>1 DEF Transaction, Steps
    <2> QED  BY <1>1, <2>1, <2>2 DEF TypeOK, Transaction, Given, Keeps
<1>4. CASE Reply(t)
    <2>1. tx' = [tx EXCEPT ![t].step = "signed"]  BY <1>4 DEF Reply
    <2>2. ~Post(t)  BY <1>4 DEF Reply, Post
    <2> QED  BY <1>1, <2>1, <2>2 DEF TypeOK, Transaction, Steps, Given, Keeps
<1> QED  BY <1>2, <1>3, <1>4

LEMMA TypeStep == TypeOK /\ [Next]_vars => TypeOK'
<1> SUFFICES ASSUME TypeOK, [Next]_vars PROVE TypeOK'
    OBVIOUS
<1>1. CASE UNCHANGED vars  BY <1>1 DEF vars, TypeOK
<1>2. CASE Ingest  BY <1>2 DEF Ingest, TypeOK
<1>3. ASSUME NEW t \in Txs, NEW p \in Payments, LoadAccount(t, p) PROVE TypeOK'
    <2>0. Others(t, p) \cap PaidBy(ingested) \in SUBSET Txs  BY DEF Others
    <2> DEFINE s == Others(t, p) \cap PaidBy(ingested)
    <2>1. [step |-> "fee", payment |-> p, seq |-> ingested + 1, fee |-> 0, shown |-> s, posted |-> FALSE]
              \in Transaction
        BY <2>0 DEF Transaction, TypeOK, Steps
    <2>2. tx' = [tx EXCEPT ![t] = [step |-> "fee", payment |-> p, seq |-> ingested + 1, fee |-> 0,
                                   shown |-> s, posted |-> FALSE]]
        BY <1>3 DEF LoadAccount, NextSequence
    <2> HIDE DEF s
    <2> QED  BY <1>3, <2>1, <2>2 DEF LoadAccount, TypeOK
<1>4. ASSUME NEW t \in Txs, GetBaseFee(t) PROVE TypeOK'
    <2>1. tx[t] \in Transaction  BY <1>4, TakenIsTransaction DEF GetBaseFee, Taken
    <2>2. PICK f \in Fees : tx' = [tx EXCEPT ![t].fee = resolveGasPricing(f),
                                   ![t].step = IF ClassicPayment(Request[tx[t].payment]) THEN "signed" ELSE "prepare"]
        BY <1>4 DEF GetBaseFee
    <2>3. resolveGasPricing(f) \in Nat  BY FeeIsStroops
    <2>4. tx' \in [Txs -> {NoTx} \cup Transaction]
        BY <2>1, <2>2, <2>3 DEF TypeOK, Transaction, Steps
    <2> QED  BY <1>4, <2>4 DEF GetBaseFee, TypeOK
<1>5. ASSUME NEW t \in Txs, Prepare(t) PROVE TypeOK'
    <2>1. tx[t] \in Transaction  BY <1>5, TakenIsTransaction DEF Prepare, Taken
    <2>2. PICK resource \in Fees : tx' = [tx EXCEPT ![t].fee = @ + resource, ![t].step = "signed"]
        BY <1>5 DEF Prepare
    <2>4. tx[t].fee + resource \in Nat  BY <2>1 DEF Transaction
    <2>5. [[tx[t] EXCEPT !.fee = tx[t].fee + resource] EXCEPT !.step = "signed"] \in Transaction
        BY <2>1, <2>4 DEF Transaction, Steps
    <2>3. tx' \in [Txs -> {NoTx} \cup Transaction]
        BY <2>2, <2>5 DEF TypeOK
    <2> QED  BY <1>5, <2>3 DEF Prepare, TypeOK
<1>6. ASSUME NEW t \in Txs, GiveUp(t) PROVE TypeOK'  BY <1>6 DEF GiveUp, TypeOK
<1>7. ASSUME NEW t \in Txs, CheckMemoRequired(t) \/ Post(t) \/ Reply(t) PROVE TypeOK'
    <2>1. tx'[t] \in Transaction /\ \A u \in Txs : u # t => tx'[u] = tx[u]  BY <1>7, BroadcastIs
    <2>2. \E r : tx' = [tx EXCEPT ![t] = r]
        <3>1. CASE CheckMemoRequired(t)
            <4>1. tx' = [tx EXCEPT ![t].step = "checked"] \/ tx' = [tx EXCEPT ![t] = tx[t]]
                BY <3>1 DEF CheckMemoRequired, TypeOK
            <4> QED  BY <4>1
        <3>2. CASE Post(t)  BY <3>2 DEF Post
        <3>3. CASE Reply(t)  BY <3>3 DEF Reply
        <3> QED  BY <1>7, <3>1, <3>2, <3>3
    <2>3. tx' \in [Txs -> {NoTx} \cup Transaction]  BY <2>1, <2>2 DEF TypeOK
    <2>4. told' \in [Txs -> Answers]
        BY <1>7 DEF CheckMemoRequired, Post, Reply, AnswerTo, TypeOK, Answers, BroadcastRejected
    <2>5. verdict' \in [Txs -> Verdicts]
        BY <1>7 DEF CheckMemoRequired, Post, Reply, TypeOK, Verdicts
    <2>6. pool' \subseteq Txs /\ UNCHANGED <<ledger, ingested, expired>>
        BY <1>7 DEF CheckMemoRequired, Post, Reply, TypeOK
    <2> QED  BY <2>3, <2>4, <2>5, <2>6 DEF TypeOK
<1>10. ASSUME NEW t \in Txs, Apply(t) PROVE TypeOK'
    <2>1. PICK paid \in BOOLEAN : ledger' = Append(ledger, [tx |-> t, paid |-> paid])
        BY <1>10 DEF Apply
    <2>2. ledger' \in Seq([tx : Txs, paid : BOOLEAN]) /\ Len(ledger') = Len(ledger) + 1
        BY <2>1 DEF TypeOK
    <2> QED  BY <1>10, <2>2 DEF Apply, TypeOK
<1>11. ASSUME NEW t \in Txs, Forget(t) \/ Expire(t) \/ GetTransactionStatus(t) PROVE TypeOK'
    BY <1>11 DEF Forget, Expire, GetTransactionStatus, StatusNow, TypeOK, Verdicts
<1> QED
    BY <1>1, <1>2, <1>3, <1>4, <1>5, <1>6, <1>7, <1>10, <1>11 DEF Next

\* A step that applies nothing, and takes up no transaction.
LEMMA QuietStep ==
    ASSUME IInv, TypeOK', ledger' = ledger, ingested <= ingested',
           \A u \in pool' : Given(u)' /\ tx'[u].posted,
           \A u \in Txs : /\ Given(u) => Given(u)'
                          /\ Taken(u)' => Taken(u) /\ Keeps(u)
    PROVE  IInv'
<1>0. TypeOK  BY DEF IInv
<1>1. \A u \in Txs : Given(u) => Keeps(u)  BY DEF Given, Taken
<1>2. \A i \in DOMAIN ledger : ledger[i].tx \in Txs /\ Given(ledger[i].tx)
    BY <1>0, EntriesAreTyped DEF IInv, LedgerInv
<1>3. LedgerInv'
    <2>0. ASSUME NEW u \in Txs, NEW i \in DOMAIN ledger, Given(u), tx[u].posted, tx[u].seq = i
          PROVE  Given(u)' /\ tx'[u].posted /\ tx'[u].seq = i
        BY <1>1, <2>0 DEF Keeps
    <2>1. ASSUME NEW i \in DOMAIN ledger
          PROVE  Given(ledger[i].tx)' /\ tx'[ledger[i].tx].posted /\ tx'[ledger[i].tx].seq = i
        <3>1. Given(ledger[i].tx) /\ tx[ledger[i].tx].posted /\ tx[ledger[i].tx].seq = i
            BY DEF IInv, LedgerInv
        <3> QED  BY <1>2, <2>0, <3>1 DEF Given
    <2> QED  BY <2>1 DEF LedgerInv
<1>4. SeqInv'
    <2>1. \A u \in Txs : Taken(u) => tx[u].seq \in Nat  BY <1>0, TakenIsTransaction DEF Transaction
    <2>2. ingested \in Nat /\ ingested' \in Nat  BY <1>0 DEF TypeOK
    <2>3. \A u \in Txs : Taken(u)' => tx'[u].seq = tx[u].seq /\ Taken(u)  BY DEF Keeps
    <2> QED  BY <2>1, <2>2, <2>3 DEF IInv, SeqInv
<1>5. ShownInv'
    <2> SUFFICES ASSUME NEW u \in Txs, NEW i \in DOMAIN ledger, Taken(u)', i < tx'[u].seq,
                        ledger[i].paid, tx'[ledger[i].tx].payment = tx'[u].payment
                 PROVE  ledger[i].tx \in tx'[u].shown
        BY DEF ShownInv
    <2>1. Taken(u) /\ Keeps(u) /\ Keeps(ledger[i].tx)  BY <1>1, <1>2
    <2> QED  BY <2>1 DEF IInv, ShownInv, Keeps
<1> QED  BY <1>3, <1>4, <1>5 DEF IInv

\* A transaction is loaded for a payment: what Horizon knows is what it is shown.
LEMMA LoadStep ==
    ASSUME IInv, TypeOK', NEW t \in Txs, NEW p \in Payments, LoadAccount(t, p)
    PROVE  IInv'
<1>0. TypeOK  BY DEF IInv
<1>1. ~Taken(t) /\ ~Given(t)  BY DEF LoadAccount, Taken, Given
<1>2. \A u \in Txs : u # t => tx'[u] = tx[u]  BY <1>0 DEF LoadAccount, TypeOK
<1>3. /\ tx'[t].payment = p /\ tx'[t].seq = ingested + 1
      /\ tx'[t].shown = Others(t, p) \cap PaidBy(ingested)
    BY <1>0 DEF LoadAccount, NextSequence, TypeOK
<1>4. \A u \in Txs : u # t => (Given(u)' <=> Given(u)) /\ (Taken(u)' <=> Taken(u))
    BY <1>2 DEF Given, Taken
<1>5. UNCHANGED <<ledger, ingested, pool>>  BY DEF LoadAccount
<1>6. /\ \A i \in DOMAIN ledger : ledger[i].tx \in Txs \ {t} /\ Given(ledger[i].tx)
      /\ \A u \in pool : u \in Txs \ {t}
    BY <1>0, <1>1, EntriesAreTyped DEF IInv, LedgerInv, TypeOK
<1>7. LedgerInv'
    <2>1. ASSUME NEW u \in Txs, u # t, Given(u), tx[u].posted
          PROVE  Given(u)' /\ tx'[u].posted /\ tx'[u].seq = tx[u].seq
        BY <1>2, <1>4, <2>1
    <2>2. \A i \in DOMAIN ledger : /\ Given(ledger[i].tx) /\ tx[ledger[i].tx].posted
                                   /\ tx[ledger[i].tx].seq = i
        BY DEF IInv, LedgerInv
    <2>3. ASSUME NEW i \in DOMAIN ledger
          PROVE  Given(ledger[i].tx)' /\ tx'[ledger[i].tx].posted /\ tx'[ledger[i].tx].seq = i
        BY <1>2, <1>5, <1>6, <2>2 DEF Given
    <2> QED  BY <1>5, <1>6, <2>1, <2>3 DEF IInv, LedgerInv
<1>8. SeqInv'
    <2>1. tx'[t].seq <= ingested + 1  BY <1>0, <1>3 DEF TypeOK
    <2> QED  BY <1>2, <1>4, <1>5, <2>1 DEF IInv, SeqInv
<1>9. ShownInv'
    <2> SUFFICES ASSUME NEW u \in Txs, NEW i \in DOMAIN ledger, Taken(u)', i < tx'[u].seq,
                        ledger[i].paid, tx'[ledger[i].tx].payment = tx'[u].payment
                 PROVE  ledger[i].tx \in tx'[u].shown
        BY <1>5 DEF ShownInv
    <2>1. tx'[ledger[i].tx] = tx[ledger[i].tx]  BY <1>2, <1>6
    <2>2. CASE u # t  BY <1>2, <1>4, <2>1, <2>2 DEF IInv, ShownInv
    <2>3. CASE u = t
        <3>1. ledger[i].tx \in Others(t, p)  BY <1>3, <1>6, <2>1, <2>3 DEF Others, Given
        <3>2. i \in 1..ingested  BY <1>0, <1>3, <2>3, EntriesAreTyped DEF TypeOK
        <3>3. ledger[i].tx \in PaidBy(ingested)  BY <3>2 DEF PaidBy
        <3> QED  BY <1>3, <2>3, <3>1, <3>3
    <2> QED  BY <2>2, <2>3
<1> QED  BY <1>7, <1>8, <1>9 DEF IInv

\* What an application appends.
LEMMA ApplyIs ==
    ASSUME TypeOK, NEW t \in Txs, Apply(t)
    PROVE  /\ Len(ledger') = Len(ledger) + 1 /\ Len(ledger) \in Nat
           /\ DOMAIN ledger = 1..Len(ledger) /\ DOMAIN ledger' = DOMAIN ledger \cup {Len(ledger) + 1}
           /\ ledger'[Len(ledger) + 1].tx = t
           /\ \A i \in DOMAIN ledger : ledger'[i] = ledger[i]
           /\ UNCHANGED <<tx, ingested, told, verdict>>
           /\ t \in pool /\ pool' = pool \ {t} /\ t \notin Applied /\ tx[t].seq = Len(ledger) + 1
<1>1. PICK paid \in BOOLEAN : ledger' = Append(ledger, [tx |-> t, paid |-> paid])  BY DEF Apply
<1>2. ledger \in Seq([tx : Txs, paid : BOOLEAN])  BY DEF TypeOK
<1>3. /\ Len(ledger') = Len(ledger) + 1 /\ Len(ledger) \in Nat
      /\ DOMAIN ledger = 1..Len(ledger) /\ DOMAIN ledger' = DOMAIN ledger \cup {Len(ledger) + 1}
      /\ ledger'[Len(ledger) + 1] = [tx |-> t, paid |-> paid]
      /\ \A i \in DOMAIN ledger : ledger'[i] = ledger[i]
    BY <1>1, <1>2
<1> QED  BY <1>3 DEF Apply, CanApply

\* What is applied takes the place of its sequence number, behind all that was numbered.
LEMMA ApplyStep ==
    ASSUME IInv, TypeOK', NEW t \in Txs, Apply(t)
    PROVE  IInv'
<1>0. TypeOK  BY DEF IInv
<1>2. /\ Len(ledger') = Len(ledger) + 1 /\ Len(ledger) \in Nat
      /\ DOMAIN ledger = 1..Len(ledger) /\ DOMAIN ledger' = DOMAIN ledger \cup {Len(ledger) + 1}
      /\ ledger'[Len(ledger) + 1].tx = t
      /\ \A i \in DOMAIN ledger : ledger'[i] = ledger[i]
      /\ UNCHANGED <<tx, ingested>> /\ t \in pool /\ pool' = pool \ {t} /\ tx[t].seq = Len(ledger) + 1
    BY <1>0, ApplyIs
<1>4. Given(t) /\ tx[t].posted  BY <1>2 DEF IInv, LedgerInv
<1>5. \A u \in Txs : (Given(u)' <=> Given(u)) /\ (Taken(u)' <=> Taken(u))  BY <1>2 DEF Given, Taken
<1>6. LedgerInv'
    <2>1. ASSUME NEW i \in DOMAIN ledger'
          PROVE  (Given(ledger[i].tx) /\ tx[ledger[i].tx].posted /\ tx[ledger[i].tx].seq = i)'
        <3>1. CASE i \in DOMAIN ledger
            <4>1. ledger'[i].tx = ledger[i].tx  BY <1>2, <3>1
            <4>2. Given(ledger[i].tx) /\ tx[ledger[i].tx].posted /\ tx[ledger[i].tx].seq = i
                BY <3>1 DEF IInv, LedgerInv
            <4> QED  BY <1>2, <4>1, <4>2 DEF Given
        <3>2. CASE i = Len(ledger) + 1  BY <1>2, <1>4, <3>2 DEF Given
        <3> QED  BY <1>2, <2>1, <3>1, <3>2
    <2>2. \A u \in pool' : Given(u)' /\ tx'[u].posted
        BY <1>0, <1>2, <1>5 DEF IInv, LedgerInv, TypeOK
    <2> QED  BY <2>1, <2>2 DEF LedgerInv, Given
<1>7. SeqInv'  BY <1>2, <1>5 DEF IInv, SeqInv
<1>8. ShownInv'
    <2> SUFFICES ASSUME NEW u \in Txs, NEW i \in DOMAIN ledger', Taken(u)', i < tx'[u].seq,
                        ledger'[i].paid, tx'[ledger'[i].tx].payment = tx'[u].payment
                 PROVE  ledger'[i].tx \in tx'[u].shown
        BY DEF ShownInv
    <2>1. Taken(u) /\ tx[u].seq \in Nat /\ tx[u].seq <= ingested + 1
        BY <1>0, <1>5, TakenIsTransaction DEF Transaction, IInv, SeqInv
    <2>2. ingested \in Nat /\ ingested <= Len(ledger)  BY <1>0, <1>2 DEF TypeOK
    <2>3. i \in DOMAIN ledger
        <3>1. i \in Nat /\ i < Len(ledger) + 1  BY <1>2, <2>1, <2>2
        <3> QED  BY <1>2, <3>1
    <2>4. ledger'[i] = ledger[i]  BY <1>2, <2>3
    <2> QED  BY <1>2, <2>1, <2>3, <2>4 DEF IInv, ShownInv
<1> QED  BY <1>6, <1>7, <1>8 DEF IInv

LEMMA StepHolds == IInv /\ [Next]_vars => IInv'
<1> SUFFICES ASSUME IInv, [Next]_vars PROVE IInv'
    OBVIOUS
<1>0. TypeOK /\ TypeOK'  BY TypeStep DEF IInv
<1>1. CASE UNCHANGED vars
    <2>1. ingested <= ingested'  BY <1>0, <1>1 DEF vars, TypeOK
    <2> QED  BY <1>0, <1>1, <2>1, QuietStep DEF vars, Given, Taken, Keeps, IInv, LedgerInv
<1>2. CASE Ingest
    <2>1. ingested <= ingested'  BY <1>0, <1>2 DEF Ingest, TypeOK
    <2> QED  BY <1>0, <1>2, <2>1, QuietStep DEF Ingest, Given, Taken, Keeps, IInv, LedgerInv
<1>3. ASSUME NEW t \in Txs, NEW p \in Payments, LoadAccount(t, p) PROVE IInv'
    BY <1>0, <1>3, LoadStep
<1>4. ASSUME NEW t \in Txs, GetBaseFee(t) \/ Prepare(t) PROVE IInv'
    <2>2. /\ tx'[t].step \in {"prepare", "signed"} /\ Keeps(t)
          /\ \A u \in Txs : u # t => tx'[u] = tx[u]
        BY <1>0, <1>4, PrepareIs
    <2>3. ~Given(t) /\ Taken(t) /\ UNCHANGED <<ledger, ingested, pool>>
        BY <1>4 DEF GetBaseFee, Prepare, Given, Taken
    <2>4. \A u \in Txs : u # t => (Given(u)' <=> Given(u)) /\ (Taken(u)' <=> Taken(u)) /\ Keeps(u)
        BY <2>2 DEF Given, Taken, Keeps
    <2>5. \A u \in pool' : Given(u)' /\ tx'[u].posted
        BY <1>0, <2>2, <2>3, <2>4 DEF IInv, LedgerInv, TypeOK
    <2>6. ingested <= ingested'  BY <1>0, <2>3 DEF TypeOK
    <2> QED  BY <1>0, <2>2, <2>3, <2>4, <2>5, <2>6, QuietStep
<1>5. ASSUME NEW t \in Txs, GiveUp(t) PROVE IInv'
    <2>1. ~Given(t) /\ UNCHANGED <<ledger, ingested, pool>>  BY <1>5 DEF GiveUp, Given
    <2>2. tx'[t].step = "idle" /\ \A u \in Txs : u # t => tx'[u] = tx[u]
        BY <1>0, <1>5 DEF GiveUp, NoTx, TypeOK
    <2>4. \A u \in Txs : u # t => (Given(u)' <=> Given(u)) /\ (Taken(u)' <=> Taken(u)) /\ Keeps(u)
        BY <2>2 DEF Given, Taken, Keeps
    <2>5. \A u \in pool' : Given(u)' /\ tx'[u].posted
        BY <1>0, <2>1, <2>2, <2>4 DEF IInv, LedgerInv, TypeOK
    <2>6. ingested <= ingested' /\ ~Taken(t)'  BY <1>0, <2>1, <2>2 DEF TypeOK, Taken
    <2> QED  BY <1>0, <2>1, <2>4, <2>5, <2>6, QuietStep
<1>6. ASSUME NEW t \in Txs, CheckMemoRequired(t) \/ Post(t) \/ Reply(t) PROVE IInv'
    <2>1. /\ Given(t) /\ Given(t)' /\ Keeps(t) /\ \A u \in Txs : u # t => tx'[u] = tx[u]
          /\ Post(t) => tx'[t].posted
        BY <1>0, <1>6, BroadcastIs
    <2>2. UNCHANGED <<ledger, ingested>> /\ ingested <= ingested'
        BY <1>0, <1>6 DEF CheckMemoRequired, Post, Reply, TypeOK
    <2>3. pool' = pool \/ (Post(t) /\ pool' = pool \cup {t})
        BY <1>6 DEF CheckMemoRequired, Post, Reply
    <2>4. \A u \in Txs : u # t => (Given(u)' <=> Given(u)) /\ (Taken(u)' <=> Taken(u)) /\ Keeps(u)
        BY <2>1 DEF Given, Taken, Keeps
    <2>5. \A u \in pool' : Given(u)' /\ tx'[u].posted
        <3>1. ASSUME NEW u \in pool PROVE Given(u)' /\ tx'[u].posted
            <4>1. u \in Txs /\ Given(u) /\ tx[u].posted  BY <1>0 DEF IInv, LedgerInv, TypeOK
            <4> QED  BY <2>1, <2>4, <4>1 DEF Keeps
        <3> QED  BY <2>1, <2>3, <3>1
    <2>6. Taken(t)  BY <2>1 DEF Given, Taken
    <2> QED  BY <1>0, <2>1, <2>2, <2>4, <2>5, <2>6, QuietStep
<1>8. ASSUME NEW t \in Txs, Forget(t) \/ Expire(t) \/ GetTransactionStatus(t) PROVE IInv'
    <2>1. UNCHANGED <<tx, ledger, ingested>> /\ pool' \subseteq pool
        BY <1>8 DEF Forget, Expire, GetTransactionStatus
    <2>2. \A u \in Txs : (Given(u)' <=> Given(u)) /\ (Taken(u)' <=> Taken(u)) /\ Keeps(u)
        BY <2>1 DEF Given, Taken, Keeps
    <2>3. \A u \in pool' : Given(u)' /\ tx'[u].posted
        BY <1>0, <2>1, <2>2 DEF IInv, LedgerInv, TypeOK
    <2>4. ingested <= ingested'  BY <1>0, <2>1 DEF TypeOK
    <2> QED  BY <1>0, <2>1, <2>2, <2>3, <2>4, QuietStep
<1>9. ASSUME NEW t \in Txs, Apply(t) PROVE IInv'  BY <1>0, <1>9, ApplyStep
<1> QED  BY <1>1, <1>2, <1>3, <1>4, <1>5, <1>6, <1>8, <1>9 DEF Next

\* What was told of a transaction stays true when it, what is paid and what is held, and
\* its answers, stay as they are.
LEMMA AnswersStay ==
    ASSUME AnswersInv, NEW S \in SUBSET Txs, ledger' = ledger,
           \A u \in S : /\ tx'[u].step \in {"checked", "posted"} => tx[u].step \in {"checked", "posted"}
                        /\ told'[u] = told[u] /\ verdict'[u] = verdict[u]
                        /\ u \in pool' => u \in pool
    PROVE  \A u \in S :
               /\ tx'[u].step \in {"checked", "posted"} => told'[u] = "open"
               /\ told'[u] = "sent" => u \in Paid'
               /\ told'[u] = "rejected" => u \notin Paid' /\ u \notin pool'
               /\ verdict'[u] = "Success" => u \in Paid'
               /\ verdict'[u] = "Failed" => u \in Applied' /\ u \notin Paid'
<1>1. Paid' = Paid /\ Applied' = Applied  BY DEF Paid, PaidBy, Applied
<1> QED  BY <1>1 DEF AnswersInv

\* The answers stay true.
LEMMA AnswersStep == IInv /\ AnswersInv /\ [Next]_vars => AnswersInv'
<1> SUFFICES ASSUME IInv, AnswersInv, [Next]_vars PROVE AnswersInv'
    OBVIOUS
<1>0. TypeOK /\ TypeOK'  BY TypeStep DEF IInv
<1>1. CASE UNCHANGED vars  BY <1>1, AnswersStay DEF vars, AnswersInv
<1>2. CASE Ingest  BY <1>2, AnswersStay DEF Ingest, AnswersInv
<1>3. ASSUME NEW t \in Txs, NEW p \in Payments, LoadAccount(t, p) PROVE AnswersInv'
    <2>1. tx'[t].step = "fee" /\ \A u \in Txs : u # t => tx'[u] = tx[u]
        BY <1>0, <1>3 DEF LoadAccount, TypeOK
    <2> QED  BY <1>3, <2>1, AnswersStay DEF LoadAccount, AnswersInv
<1>4. ASSUME NEW t \in Txs, GetBaseFee(t) \/ Prepare(t) PROVE AnswersInv'
    <2>2. tx'[t].step \in {"prepare", "signed"} /\ \A u \in Txs : u # t => tx'[u] = tx[u]
        BY <1>0, <1>4, PrepareIs
    <2> QED  BY <1>4, <2>2, AnswersStay DEF GetBaseFee, Prepare, AnswersInv
<1>5. ASSUME NEW t \in Txs, GiveUp(t) PROVE AnswersInv'
    <2>1. tx'[t].step = "idle" /\ \A u \in Txs : u # t => tx'[u] = tx[u]
        BY <1>0, <1>5 DEF GiveUp, NoTx, TypeOK
    <2> QED  BY <1>5, <2>1, AnswersStay DEF GiveUp, AnswersInv
<1>6. ASSUME NEW t \in Txs, CheckMemoRequired(t) PROVE AnswersInv'
    <2>1. /\ \A u \in Txs : u # t => tx'[u] = tx[u] /\ told'[u] = told[u] /\ verdict'[u] = verdict[u]
          /\ UNCHANGED <<ledger, pool>>
        BY <1>0, <1>6 DEF CheckMemoRequired, TypeOK
    <2>2. /\ told'[t] \in {"open", "requires_memo"} /\ verdict'[t] = "none"
          /\ told'[t] = "requires_memo" => tx' = tx
        BY <1>0, <1>6 DEF CheckMemoRequired, TypeOK
    <2>3. tx[t].step = "signed"  BY <1>6 DEF CheckMemoRequired
    <2>4. tx'[t].step \in {"checked", "posted"} => told'[t] = "open"  BY <2>2, <2>3
    <2> QED  BY <2>1, <2>2, <2>4, AnswersStay DEF AnswersInv
<1>7. ASSUME NEW t \in Txs, Post(t) PROVE AnswersInv'
    <2>1. /\ UNCHANGED <<ledger, told, verdict>> /\ pool' \subseteq pool \cup {t} /\ tx[t].step = "checked"
          /\ \A u \in Txs : u # t => tx'[u] = tx[u]
        BY <1>0, <1>7 DEF Post, TypeOK
    <2>2. told[t] = "open" /\ Paid' = Paid /\ Applied' = Applied
        BY <2>1 DEF AnswersInv, Paid, PaidBy, Applied
    <2> QED  BY <2>1, <2>2, AnswersStay DEF AnswersInv
<1>8. ASSUME NEW t \in Txs, Reply(t) PROVE AnswersInv'
    <2>1. tx[t] \in Transaction  BY <1>0, <1>8, TakenIsTransaction DEF Reply, Taken
    <2>2. tx'[t].step = "signed" /\ \A u \in Txs : u # t => tx'[u] = tx[u]
        BY <1>0, <1>8, <2>1 DEF Reply, TypeOK, Transaction
    <2>3. PICK reply \in Replies(t) : told' = [told EXCEPT ![t] = AnswerTo(reply)]
        BY <1>8 DEF Reply
    <2>4. AnswerTo(reply) = "sent" => t \in Paid
        <3> SUFFICES ASSUME AnswerTo(reply) = "sent" PROVE t \in Paid
            OBVIOUS
        <3>1. reply = "200"  BY DEF AnswerTo
        <3>2. \E i \in 1..ingested : ledger[i].tx = t /\ ledger[i].paid  BY <2>3, <3>1 DEF Replies
        <3>3. 1..ingested \subseteq DOMAIN ledger  BY <1>0, EntriesAreTyped DEF TypeOK
        <3> QED  BY <1>0, <3>2, <3>3, PaidIs
    <2>5. AnswerTo(reply) = "rejected" => t \notin Paid /\ t \notin pool
        BY <2>3 DEF AnswerTo, Replies
    <2>6. Paid' = Paid /\ Applied' = Applied /\ pool' = pool /\ verdict' = verdict /\ ledger' = ledger
        BY <1>8 DEF Reply, Paid, PaidBy, Applied
    <2>7. told'[t] = AnswerTo(reply) /\ \A u \in Txs : u # t => told'[u] = told[u]
        BY <1>0, <2>3 DEF TypeOK
    <2> QED  BY <2>2, <2>4, <2>5, <2>6, <2>7, AnswersStay DEF AnswersInv
<1>9. ASSUME NEW t \in Txs, Apply(t) PROVE AnswersInv'
    <2>1. /\ DOMAIN ledger = 1..Len(ledger) /\ DOMAIN ledger' = DOMAIN ledger \cup {Len(ledger) + 1}
          /\ ledger'[Len(ledger) + 1].tx = t
          /\ \A i \in DOMAIN ledger : ledger'[i] = ledger[i]
          /\ t \in pool /\ pool' = pool \ {t} /\ t \notin Applied /\ UNCHANGED <<tx, told, verdict>>
        BY <1>0, <1>9, ApplyIs
    <2>5. \A u : u \in Paid <=> \E i \in DOMAIN ledger : ledger[i].tx = u /\ ledger[i].paid
        BY <1>0, PaidIs
    <2>6. \A u : u \in Paid' <=> \E i \in DOMAIN ledger' : ledger'[i].tx = u /\ ledger'[i].paid
        <3>1. DOMAIN ledger' = 1..Len(ledger')  BY <1>0 DEF TypeOK
        <3> QED  BY <3>1 DEF Paid, PaidBy
    <2>2. \A u : u \in Paid => u \in Paid'  BY <2>1, <2>5, <2>6
    <2>3. \A u : u # t /\ u \in Paid' => u \in Paid  BY <2>1, <2>5, <2>6
    <2>4. \A u : u \in Applied => u # t /\ u \in Applied'  BY <2>1 DEF Applied
    <2> QED  BY <2>1, <2>2, <2>3, <2>4 DEF AnswersInv
<1>10. ASSUME NEW t \in Txs, Forget(t) \/ Expire(t) PROVE AnswersInv'
    BY <1>10, AnswersStay DEF Forget, Expire, AnswersInv
<1>11. ASSUME NEW t \in Txs, GetTransactionStatus(t) PROVE AnswersInv'
    <2>1. /\ UNCHANGED <<tx, ledger, pool, told>> /\ verdict'[t] = StatusNow(t)
          /\ \A u \in Txs : u # t => verdict'[u] = verdict[u]
        BY <1>0, <1>11 DEF GetTransactionStatus, TypeOK
    <2>2. 1..ingested \subseteq DOMAIN ledger  BY <1>0, EntriesAreTyped DEF TypeOK
    <2>3. StatusNow(t) = "Success" => t \in Paid
        <3>1. t \in PaidBy(ingested) => t \in Paid  BY <1>0, <2>2, PaidIs DEF PaidBy
        <3> QED  BY <3>1 DEF StatusNow
    <2>4. StatusNow(t) = "Failed" => t \in Applied /\ t \notin Paid
        <3> SUFFICES ASSUME StatusNow(t) = "Failed" PROVE t \in Applied /\ t \notin Paid
            OBVIOUS
        <3>1. PICK i \in 1..ingested : ledger[i].tx = t  BY DEF StatusNow
        <3>2. t \notin PaidBy(ingested)  BY DEF StatusNow
        <3>3. ~ledger[i].paid /\ i \in DOMAIN ledger  BY <2>2, <3>1, <3>2 DEF PaidBy
        <3>4. \A j \in DOMAIN ledger : ledger[j].tx = t => j = i
            BY <3>1, <3>3 DEF IInv, LedgerInv
        <3> QED  BY <1>0, <3>1, <3>3, <3>4, PaidIs DEF Applied
    <2>5. Paid' = Paid /\ Applied' = Applied  BY <2>1 DEF Paid, PaidBy, Applied
    <2> QED  BY <2>1, <2>3, <2>4, <2>5, AnswersStay DEF AnswersInv
<1> QED  BY <1>1, <1>2, <1>3, <1>4, <1>5, <1>6, <1>7, <1>8, <1>9, <1>10, <1>11 DEF Next

\* Every state is of its types.
THEOREM TypesHold == Spec => []TypeOK
<1>1. Init => TypeOK  BY InitHolds DEF IInv
<1> QED  BY <1>1, TypeStep, PTL DEF Spec

\* However a caller signs anew, and whatever was lost, replaced or applied in between: of two
\* transactions that paid the same, Horizon showed the first as paid when the account was
\* loaded for the second.
THEOREM PaidAgainIsShown == Spec => []PaidAgainOnlyIfShown
<1>1. IInv => PaidAgainOnlyIfShown
    <2> SUFFICES ASSUME IInv, NEW i \in DOMAIN ledger, NEW j \in DOMAIN ledger,
                        i < j, ledger[i].paid, ledger[j].paid,
                        tx[ledger[i].tx].payment = tx[ledger[j].tx].payment
                 PROVE  ledger[i].tx \in tx[ledger[j].tx].shown
        BY DEF PaidAgainOnlyIfShown
    <2>1. ledger[j].tx \in Txs  BY EntriesAreTyped DEF IInv
    <2>2. Taken(ledger[j].tx) /\ tx[ledger[j].tx].seq = j  BY DEF IInv, LedgerInv, Given, Taken
    <2> QED  BY <2>1, <2>2 DEF IInv, ShownInv
<1> QED  BY <1>1, InitHolds, StepHolds, PTL DEF Spec

\* What is told is true, whatever the caller's rule: what broadcast says was sent was paid,
\* what Horizon rejected is neither paid nor under way, nor is what was refused for want of a
\* memo before it was posted, and a final status stays.
THEOREM AnswersAreTrue == Spec => []AnswersHold
<1>1. Init => IInv /\ AnswersInv  BY InitHolds
<1>2. IInv /\ AnswersInv /\ [Next]_vars => (IInv /\ AnswersInv)'  BY StepHolds, AnswersStep
<1>3. IInv /\ AnswersInv => AnswersHold
    <2> SUFFICES ASSUME IInv, AnswersInv, NEW t \in Txs
                 PROVE  /\ ~tx[t].posted => t \notin Paid /\ t \notin pool
                        /\ t \in Applied => ~CanApply(t)
        BY DEF AnswersInv, AnswersHold
    <2>1. t \in Paid => \E i \in DOMAIN ledger : ledger[i].tx = t  BY PaidIs DEF IInv
    <2> QED  BY <2>1 DEF IInv, LedgerInv, CanApply
<1> QED  BY <1>1, <1>2, <1>3, PTL DEF Spec

(***************************************************************************)
(* The trust line.  The scene of StellarMC that plays StellarTrust leaves  *)
(* the other modules' variables alone, and they leave its.                 *)
(***************************************************************************)
LineSteps == {"start", "refused", "sign", "trusting", "trusted", "receive", "receiving", "done"}

LineEntries == [by : Callers, what : L!Whats, ok : BOOLEAN, limit : Nat]

LineTypes ==
    /\ call \in Calls
    /\ step \in [Callers -> LineSteps]
    /\ view \in [Callers -> Nat] /\ loaded \in [Callers -> [L!Whats -> Nat]]
    /\ answer \in [Callers -> {"nothing", "skipped", "sent", "error"}]
    /\ entries \in Seq(LineEntries)
    /\ shown \in 0..Len(entries)
    /\ \A c \in Callers : view[c] <= shown /\ \A what \in L!Whats : loaded[c][what] <= shown
    /\ held \subseteq Callers \X L!Whats

\* Callers that are paid, or swap for the asset.
Receives(c) == L!Kind(c) \in {"swap", "transfer"}

Sent(c, what) ==
    \/ <<c, what>> \in held
    \/ \E i \in DOMAIN entries : entries[i].by = c /\ entries[i].what = what

\* A caller's transactions are sent after what it read: its change of the line lies after
\* what it saw of the ledger, and its receipt is its last step.
OrderInv ==
    \A c \in Callers :
        /\ Sent(c, "changeTrust") => step[c] \in {"trusted", "receive", "receiving", "done", "refused"}
        /\ Sent(c, "receive") => step[c] = "done" /\ Receives(c)
        /\ step[c] \in {"receive", "receiving"} => Receives(c)
        /\ \A i \in DOMAIN entries :
               entries[i].by = c /\ entries[i].what = "changeTrust" =>
                   i > view[c] /\ entries[i].limit = L!NewLimit(c)

\* A caller's transaction is applied once.
OnceInv ==
    \A i, j \in DOMAIN entries :
        /\ <<entries[i].by, entries[i].what>> \notin held
        /\ entries[j].what = entries[i].what /\ entries[j].by = entries[i].by => i = j

\* Who changes the line is the wallet's own, and saw the line too low or closes it.
LowInv ==
    \A c \in Callers :
        Sent(c, "changeTrust") \/ step[c] \in {"sign", "trusting", "trusted"} =>
            L!Own(c) /\ (L!Kind(c) # "close" => L!LimitAt(view[c]) < L!Needs(c))

\* The changes of the line that its caller saw applied.
Raised(c, i) == entries[i].by = c /\ entries[i].what = "changeTrust" /\ entries[i].ok

\* Who needs a line and is past its prerequisite saw the line there, or was told that
\* its change of the line was applied, or was told of an error.
ToldInv ==
    \A c \in Callers :
        /\ answer[c] = "sent" => \E i \in DOMAIN entries : Raised(c, i)
        /\ step[c] \in {"receive", "receiving", "done"} /\ Receives(c) /\ L!Needs(c) # 0 =>
               answer[c] \in {"error", "sent"} \/ L!LimitAt(view[c]) >= L!MaxLimit

\* The inductive invariant for LineHoldsUntilChanged: what a caller may count on from
\* its prerequisite until its transaction is applied.
LineInv == LineTypes /\ OrderInv /\ OnceInv /\ LowInv /\ ToldInv /\ LineHoldsUntilChanged

\* What LineHoldsUntilChanged says of an entry: a receipt finds room, a change a low line.
RoomAt(i) ==
    LET c == entries[i].by
    IN  entries[i].what = "receive" /\ ~entries[i].ok =>
            \/ answer[c] = "error"
            \/ L!ChangedByOthers(c, IF L!Own(c) THEN loaded[c]["receive"] ELSE i - 1)
LowAt(i) ==
    LET c == entries[i].by
    IN  entries[i].what = "changeTrust" /\ L!Kind(c) # "close" /\ L!LimitAt(i - 1) >= L!Needs(c) =>
            L!ChangedByOthers(c, loaded[c]["changeTrust"])

LEMMA HoldsByEntry == LineHoldsUntilChanged <=> \A i \in DOMAIN entries : RoomAt(i) /\ LowAt(i)
BY DEF LineHoldsUntilChanged, L!LineHoldsUntilChanged, RoomAt, LowAt

LEMMA HoldsByEntryNext ==
    LineHoldsUntilChanged' <=> \A i \in DOMAIN entries' : RoomAt(i)' /\ LowAt(i)'
BY DEF LineHoldsUntilChanged, L!LineHoldsUntilChanged, RoomAt, LowAt

LEMMA CardinalityIs == \A S : L!Cardinality(S) = Cardinality(S)
BY DEF L!Cardinality, Cardinality

\* Among numbers up to n there is a greatest.
LEMMA GreatestIsMax ==
    ASSUME NEW n \in Nat, NEW S \in SUBSET (1..n), S # {}
    PROVE  L!Max(S) \in S /\ \A k \in S : k <= L!Max(S)
<1> DEFINE D == {d \in Nat : n - d \in S}
<1>1. PICK s \in S : TRUE  OBVIOUS
<1>2. n - s \in D
    <2>1. s \in 1..n  BY <1>1
    <2>2. n - s \in Nat /\ n - (n - s) = s  BY <2>1
    <2> QED  BY <1>1, <2>2
<1>3. PICK d \in D : \A k \in D : d <= k  BY <1>2, LeastNatural
<1>4. n - d \in S /\ \A k \in S : n - k \in D /\ k <= n - d
    <2>1. ASSUME NEW k \in S PROVE n - k \in D /\ k <= n - d
        <3>1. n - k \in Nat /\ n - (n - k) = k  OBVIOUS
        <3>2. n - k \in D  BY <3>1
        <3>3. d <= n - k  BY <1>3, <3>2
        <3> QED  BY <3>2, <3>3
    <2> QED  BY <2>1
<1>5. \E x \in S : \A y \in S : x >= y  BY <1>4
<1>6. L!Max(S) \in S /\ \A y \in S : L!Max(S) >= y  BY <1>5, Zenon DEF L!Max
<1> QED  BY <1>6

\* What a call needs, and what its change of the line asks for.
LEMMA NeedsAreAmounts ==
    ASSUME call \in Calls, NEW c \in Callers
    PROVE  /\ L!Needs(c) \in Nat /\ L!NewLimit(c) \in Nat
           /\ Receives(c) => L!NewLimit(c) = L!Needs(c) /\ L!Needs(c) \in {0, L!MaxLimit}
BY LimitsAreAmounts DEF L!Needs, L!NewLimit, L!Kind, L!Prerequisite, L!MaxLimit, Receives

LEMMA LineEntriesAreTyped ==
    ASSUME LineTypes
    PROVE  /\ Len(entries) \in Nat /\ DOMAIN entries = 1..Len(entries)
           /\ \A i \in 1..Len(entries) :
                  /\ entries[i] \in LineEntries
                  /\ entries[i].by \in Callers /\ entries[i].limit \in Nat
<1>1. Len(entries) \in Nat /\ DOMAIN entries = 1..Len(entries)
      /\ \A i \in 1..Len(entries) : entries[i] \in LineEntries
    BY DEF LineTypes
<1> QED  BY <1>1 DEF LineEntries

\* The limit at a point of the ledger is the one of the last change before it.
LEMMA LatestChange ==
    ASSUME LineTypes, NEW n \in 0..Len(entries)
    PROVE  /\ L!LimitAt(n) \in Nat
           /\ \/ L!Changes(n) = {} /\ L!LimitAt(n) = FirstLimit
              \/ \E m \in L!Changes(n) :
                     L!LimitAt(n) = entries[m].limit /\ \A i \in L!Changes(n) : i <= m
<1>1. L!Changes(n) \subseteq 1..n  BY DEF L!Changes
<1>2. n \in Nat /\ n <= Len(entries) /\ \A i \in 1..n : entries[i].limit \in Nat
    BY LineEntriesAreTyped
<1>3. CASE L!Changes(n) = {}  BY <1>3, LimitsAreAmounts DEF L!LimitAt
<1>4. CASE L!Changes(n) # {}
    <2>1. L!Max(L!Changes(n)) \in L!Changes(n) /\ \A i \in L!Changes(n) : i <= L!Max(L!Changes(n))
        BY <1>1, <1>2, <1>4, GreatestIsMax
    <2> QED  BY <1>1, <1>2, <1>4, <2>1 DEF L!LimitAt
<1> QED  BY <1>3, <1>4

\* What follows in the ledger changes no limit before it.
LEMMA LimitStays ==
    ASSUME LineTypes, NEW e, entries' = Append(entries, e), NEW n \in 0..Len(entries)
    PROVE  L!LimitAt(n)' = L!LimitAt(n)
<1>1. n \in Nat /\ \A i \in 1..n : entries'[i] = entries[i]  BY LineEntriesAreTyped DEF LineTypes
<1>2. L!Changes(n)' = L!Changes(n)  BY <1>1 DEF L!Changes
<1>3. CASE L!Changes(n) = {}  BY <1>2, <1>3 DEF L!LimitAt
<1>4. CASE L!Changes(n) # {}
    <2> HIDE DEF L!Changes
    <2>0. L!Changes(n) \subseteq 1..n  BY DEF L!Changes
    <2>1. L!Max(L!Changes(n)) \in 1..n  BY <1>1, <1>4, <2>0, GreatestIsMax
    <2> QED  BY <1>1, <1>2, <1>4, <2>1 DEF L!LimitAt
<1> QED  BY <1>3, <1>4

\* Where the line was seen high enough, or the caller's change of it was applied, it is
\* high enough until somebody else changes it.
LEMMA LimitHolds ==
    ASSUME LineTypes, OrderInv, NEW c \in Callers, Receives(c), L!Needs(c) # 0,
           L!LimitAt(view[c]) >= L!MaxLimit \/ \E i \in DOMAIN entries : Raised(c, i),
           \A j \in view[c] + 1..Len(entries) : entries[j].what = "changeTrust" => entries[j].by = c
    PROVE  L!LimitAt(Len(entries)) >= L!MaxLimit
<1> DEFINE n == Len(entries)
           v == view[c]
<1>1. v \in 0..n /\ n \in 0..n /\ n \in Nat /\ DOMAIN entries = 1..n  BY DEF LineTypes
<1>2. ASSUME NEW i \in L!Changes(n), i > v PROVE entries[i].limit = L!MaxLimit
    <2>1. i \in 1..n /\ entries[i].what = "changeTrust"  BY DEF L!Changes
    <2>2. entries[i].by = c  BY <1>1, <1>2, <2>1
    <2>3. entries[i].limit = L!NewLimit(c)  BY <1>1, <2>1, <2>2 DEF OrderInv
    <2> QED  BY <2>3, NeedsAreAmounts DEF LineTypes
<1>3. L!Changes(v) = {i \in L!Changes(n) : i <= v}  BY <1>1 DEF L!Changes
<1>4. L!Changes(n) \subseteq 1..n  BY DEF L!Changes
<1>5. CASE L!Changes(n) = L!Changes(v)
    <2>1. ASSUME NEW i \in DOMAIN entries, Raised(c, i) PROVE FALSE
        <3>1. i > v  BY <2>1 DEF OrderInv, Raised
        <3>2. i \in L!Changes(n)  BY <1>1, <2>1 DEF Raised, L!Changes
        <3> QED  BY <1>1, <1>3, <1>5, <3>1, <3>2
    <2>2. L!LimitAt(n) = L!LimitAt(v)  BY <1>5 DEF L!LimitAt
    <2> QED  BY <2>1, <2>2
<1>6. CASE L!Changes(n) # L!Changes(v)
    <2>1. PICK i \in L!Changes(n) : i > v  BY <1>1, <1>3, <1>4, <1>6
    <2>2. PICK m \in L!Changes(n) :
              L!LimitAt(n) = entries[m].limit /\ \A k \in L!Changes(n) : k <= m
        BY <1>1, <2>1, LatestChange
    <2>3. m > v  BY <1>1, <1>4, <2>1, <2>2
    <2> QED  BY <1>2, <2>2, <2>3 DEF L!MaxLimit
<1> QED  BY <1>5, <1>6

\* Where no change lies between, the limit is the same.
LEMMA LimitUnchanged ==
    ASSUME LineTypes, NEW v \in 0..Len(entries),
           \A j \in v + 1..Len(entries) : entries[j].what # "changeTrust"
    PROVE  L!LimitAt(Len(entries)) = L!LimitAt(v)
<1>1. v \in Nat /\ Len(entries) \in Nat  BY LineEntriesAreTyped
<1>2. L!Changes(Len(entries)) = L!Changes(v)  BY <1>1 DEF L!Changes
<1> QED  BY <1>2 DEF L!LimitAt

\* A sequence number that is still the next one was loaded behind the wallet's own.
LEMMA NoOwnSince ==
    ASSUME LineTypes, NEW l \in 0..Len(entries), L!NextSequence(l) = L!NextSequence(Len(entries))
    PROVE  \A i \in l + 1..Len(entries) : ~L!Own(entries[i].by)
<1> DEFINE S(m) == {i \in 1..m : L!Own(entries[i].by)}
           n == Len(entries)
<1>1. l \in Nat /\ n \in Nat /\ l <= n  BY LineEntriesAreTyped
<1>2. S(l) \in SUBSET S(n)  BY <1>1
<1>3. IsFiniteSet(S(n))
    <2>0. 1 \in Int /\ n \in Int  BY <1>1
    <2>1. IsFiniteSet(1..n)  BY <2>0, FS_Interval
    <2>2. S(n) \in SUBSET (1..n)  OBVIOUS
    <2> QED  BY <2>1, <2>2, FS_Subset
<1>4. Cardinality(S(n)) \in Nat /\ Cardinality(S(l)) \in Nat
    BY <1>2, <1>3, FS_Subset, FS_CardinalityType
<1>5. L!NextSequence(n) = Cardinality(S(n)) + 1 /\ L!NextSequence(l) = Cardinality(S(l)) + 1
    BY CardinalityIs DEF L!NextSequence
<1>6. Cardinality(S(n)) = Cardinality(S(l))  BY <1>4, <1>5
<1> HIDE DEF S
<1>7. S(n) = S(l)  BY <1>2, <1>3, <1>6, FS_Subset
<1> QED  BY <1>1, <1>7 DEF S

\* Since an account was loaded whose number is still the next one, nobody changed the line.
LEMMA NoChangeSince ==
    ASSUME LineInv, NEW l \in 0..Len(entries), L!NextSequence(l) = L!NextSequence(Len(entries))
    PROVE  \A i \in l + 1..Len(entries) : entries[i].what # "changeTrust"
<1> SUFFICES ASSUME NEW i \in l + 1..Len(entries), entries[i].what = "changeTrust" PROVE FALSE
    OBVIOUS
<1>1. i \in DOMAIN entries /\ entries[i].by \in Callers  BY LineEntriesAreTyped DEF LineInv
<1>2. Sent(entries[i].by, "changeTrust")  BY <1>1 DEF Sent
<1> QED  BY <1>1, <1>2, NoOwnSince DEF LineInv, LowInv

\* Of the callers, one whose receipt is still to be applied has added nothing to the
\* balance, and the others one unit each at most.
LEMMA RoomIsLeft ==
    ASSUME LineTypes, OnceInv, NEW c \in Callers, <<c, "receive">> \in held
    PROVE  /\ L!BalanceAt(Len(entries)) \in Nat
           /\ L!BalanceAt(Len(entries)) < L!MaxLimit
<1> DEFINE S == {i \in 1..Len(entries) : entries[i].ok /\ entries[i].what = "receive"}
           by == [i \in S |-> entries[i].by]
<1>1. DOMAIN entries = 1..Len(entries) /\ S \subseteq DOMAIN entries  BY DEF LineTypes
<1>2. \A i \in S : entries[i].by \in Callers  BY LineEntriesAreTyped
<1>3. \A i \in S : entries[i].by # c  BY <1>1 DEF OnceInv
<1>4. ASSUME NEW i \in S, NEW j \in S, entries[i].by = entries[j].by PROVE i = j
    <2>1. i \in DOMAIN entries /\ j \in DOMAIN entries  BY <1>1
    <2>2. entries[i].what = "receive" /\ entries[j].what = "receive"  OBVIOUS
    <2> QED  BY <1>4, <2>1, <2>2 DEF OnceInv
<1>5. by \in Injection(S, Callers \ {c})
    <2>1. by \in [S -> Callers \ {c}]  BY <1>2, <1>3
    <2>2. \A i, j \in S : by[i] = by[j] => i = j  BY <1>4
    <2> HIDE DEF S, by
    <2> QED  BY <2>1, <2>2 DEF Injection, IsInjective
<1>6. IsFiniteSet(Callers \ {c}) /\ Cardinality(Callers \ {c}) = Cardinality(Callers) - 1
    BY LimitIsFar, FS_RemoveElement
<1>7. IsFiniteSet(S) /\ Cardinality(S) <= Cardinality(Callers) - 1  BY <1>5, <1>6, FS_Injection
<1>8. Cardinality(S) \in Nat /\ Cardinality(Callers) \in Nat  BY <1>7, LimitIsFar, FS_CardinalityType
<1>9. L!BalanceAt(Len(entries)) = Cardinality(S)  BY CardinalityIs DEF L!BalanceAt
<1>10. Cardinality(Callers) <= L!MaxLimit  BY LimitIsFar
<1> QED  BY <1>7, <1>8, <1>9, <1>10 DEF L!MaxLimit

LEMMA LineInitHolds == L!Init => LineInv
BY LimitsAreAmounts DEF L!Init, LineInv, LineTypes, LineSteps, OrderInv, OnceInv, LowInv, ToldInv,
       LineHoldsUntilChanged, L!LineHoldsUntilChanged, Sent, Receives

\* What was so of an entry stays so, as long as its caller keeps what it saw, loaded and
\* was told.
LEMMA EntryKept ==
    ASSUME LineInv, NEW e, entries' = entries \/ entries' = Append(entries, e), UNCHANGED call,
           NEW i \in 1..Len(entries), NEW c \in Callers, c = entries[i].by, view'[c] = view[c],
           loaded'[c][entries[i].what] = loaded[c][entries[i].what],
           entries[i].what = "receive" => answer'[c] = answer[c]
    PROVE  RoomAt(i)' /\ LowAt(i)'
<1>1. /\ Len(entries) \in Nat /\ DOMAIN entries = 1..Len(entries)
      /\ \A j \in 1..Len(entries) : entries'[j] = entries[j]
      /\ entries[i].what \in L!Whats
    <2>1. Len(entries) \in Nat /\ DOMAIN entries = 1..Len(entries) /\ entries[i] \in LineEntries
        BY LineEntriesAreTyped DEF LineInv
    <2>2. entries \in Seq(LineEntries)  BY DEF LineInv, LineTypes
    <2>3. \A j \in 1..Len(entries) : entries'[j] = entries[j]  BY <2>1, <2>2
    <2>4. entries[i].what \in L!Whats  BY <2>1 DEF LineEntries
    <2> QED  BY <2>1, <2>3, <2>4
<1>2. \A d : (L!Own(d)' <=> L!Own(d)) /\ L!Kind(d)' = L!Kind(d) /\ L!Needs(d)' = L!Needs(d)
    BY DEF L!Own, L!Kind, L!Needs, L!ByContract
<1>3. L!LimitAt(i - 1)' = L!LimitAt(i - 1)
    <2>1. i - 1 \in 0..Len(entries)  BY <1>1
    <2>2. CASE entries' = entries  BY <2>2 DEF L!LimitAt, L!Changes
    <2> QED  BY <2>1, <2>2, LimitStays DEF LineInv
<1>4. view[c] \in Nat /\ \A what \in L!Whats : loaded[c][what] \in Nat /\ loaded[c][what] <= Len(entries)
    BY <1>1 DEF LineInv, LineTypes
<1>5. ASSUME NEW till \in Nat, till <= Len(entries), L!ChangedByOthers(c, till)
      PROVE  \E j \in view'[c] + 1..till : entries'[j].what = "changeTrust" /\ entries'[j].by # c
    <2>1. PICK j \in view[c] + 1..till : entries[j].what = "changeTrust" /\ entries[j].by # c
        BY <1>5 DEF L!ChangedByOthers
    <2>2. j \in 1..Len(entries)  BY <1>1, <1>4, <1>5, <2>1
    <2> QED  BY <1>1, <2>1, <2>2
<1>6. RoomAt(i) /\ LowAt(i)  BY <1>1, HoldsByEntry DEF LineInv
<1>7. RoomAt(i)'
    <2> SUFFICES ASSUME entries[i].what = "receive", ~entries[i].ok, answer[c] # "error"
                 PROVE  \E j \in view'[c] + 1..(IF L!Own(c) THEN loaded[c]["receive"] ELSE i - 1) :
                            entries'[j].what = "changeTrust" /\ entries'[j].by # c
        BY <1>1, <1>2 DEF RoomAt, L!ChangedByOthers
    <2> DEFINE till == IF L!Own(c) THEN loaded[c]["receive"] ELSE i - 1
    <2>1. till \in Nat /\ till <= Len(entries)  BY <1>1, <1>4
    <2>2. L!ChangedByOthers(c, till)  BY <1>6 DEF RoomAt
    <2> HIDE DEF till
    <2>3. \E j \in view'[c] + 1..till : entries'[j].what = "changeTrust" /\ entries'[j].by # c
        BY <1>5, <2>1, <2>2
    <2> QED  BY <2>3 DEF till
<1>8. LowAt(i)'
    <2> SUFFICES ASSUME entries[i].what = "changeTrust", L!Kind(c) # "close", L!LimitAt(i - 1) >= L!Needs(c)
                 PROVE  \E j \in view'[c] + 1..loaded[c]["changeTrust"] :
                            entries'[j].what = "changeTrust" /\ entries'[j].by # c
        BY <1>1, <1>2, <1>3 DEF LowAt, L!ChangedByOthers
    <2>1. loaded[c]["changeTrust"] \in Nat /\ loaded[c]["changeTrust"] <= Len(entries)  BY <1>1, <1>4
    <2>2. L!ChangedByOthers(c, loaded[c]["changeTrust"])  BY <1>6 DEF LowAt
    <2> QED  BY <1>5, <2>1, <2>2
<1> QED  BY <1>7, <1>8

\* A step that leaves the ledger and what is held alone, in which one caller moves on.
LEMMA CallerMoves ==
    ASSUME LineInv, NEW c \in Callers, UNCHANGED <<call, entries, shown, held>>,
           NEW to \in LineSteps, step' = [step EXCEPT ![c] = to],
           view' \in [Callers -> Nat], answer' \in [Callers -> {"nothing", "skipped", "sent", "error"}],
           loaded' \in [Callers -> [L!Whats -> Nat]],
           \A d \in Callers : d # c => view'[d] = view[d] /\ answer'[d] = answer[d] /\ loaded'[d] = loaded[d],
           \A what \in L!Whats : \/ loaded'[c][what] = loaded[c][what]
                                 \/ ~Sent(c, what) /\ loaded'[c][what] = shown,
           to \in {"sign", "trusting", "trusted"} =>
               \/ step[c] \in {"sign", "trusting", "trusted"} /\ view'[c] = view[c]
               \/ L!Own(c) /\ (L!Kind(c) # "close" => L!LimitAt(view'[c]) < L!Needs(c)),
           view'[c] = view[c] \/ (step[c] = "start" /\ view'[c] = shown),
           answer'[c] = answer[c] \/ step[c] \in {"start", "trusted"},
           answer'[c] = "sent" /\ answer[c] # "sent" => \E i \in DOMAIN entries : Raised(c, i),
           step[c] # "done",
           Sent(c, "changeTrust") => to \in {"trusted", "receive", "receiving", "done", "refused"},
           to \in {"receive", "receiving"} => Receives(c),
           to \in {"receive", "receiving", "done"} /\ Receives(c) /\ L!Needs(c) # 0 =>
               \/ step[c] \in {"receive", "receiving"} /\ view'[c] = view[c] /\ answer'[c] = answer[c]
               \/ answer'[c] \in {"error", "sent"}
               \/ L!LimitAt(view'[c]) >= L!MaxLimit
    PROVE  LineInv'
<1>1. step'[c] = to /\ \A d \in Callers : d # c => step'[d] = step[d]
    BY DEF LineInv, LineTypes
<1>2. \A d : L!Kind(d)' = L!Kind(d) /\ L!Needs(d)' = L!Needs(d) /\ L!NewLimit(d)' = L!NewLimit(d)
             /\ (Receives(d)' <=> Receives(d))
    BY DEF L!Kind, L!Needs, L!NewLimit, L!ByContract, Receives
<1>3. \A d, what : Sent(d, what)' <=> Sent(d, what)  BY DEF Sent
<1>4. \A n : L!LimitAt(n)' = L!LimitAt(n)  BY DEF L!LimitAt, L!Changes
<1>5. ~Sent(c, "receive")  BY DEF LineInv, OrderInv
<1>6. step[c] = "start" => ~Sent(c, "changeTrust")  BY DEF LineInv, OrderInv
<1>7. LineTypes'
    <2>1. step' \in [Callers -> LineSteps] /\ shown \in Nat  BY LineEntriesAreTyped DEF LineInv, LineTypes
    <2>2. \A d \in Callers : view[d] <= shown /\ \A what \in L!Whats : loaded[d][what] <= shown
        BY DEF LineInv, LineTypes
    <2>3. \A d \in Callers : view'[d] <= shown  BY <2>1, <2>2
    <2>4. ASSUME NEW d \in Callers, NEW what \in L!Whats PROVE loaded'[d][what] <= shown
        <3>1. loaded'[d][what] = loaded[d][what] \/ loaded'[d][what] = shown  OBVIOUS
        <3> QED  BY <2>1, <2>2, <3>1
    <2> QED  BY <2>1, <2>3, <2>4 DEF LineInv, LineTypes
<1>8. OrderInv'
    <2> SUFFICES ASSUME NEW d \in Callers
                 PROVE  /\ Sent(d, "changeTrust") => step'[d] \in {"trusted", "receive", "receiving", "done", "refused"}
                        /\ Sent(d, "receive") => step'[d] = "done" /\ Receives(d)
                        /\ step'[d] \in {"receive", "receiving"} => Receives(d)
                        /\ \A i \in DOMAIN entries :
                               entries[i].by = d /\ entries[i].what = "changeTrust" =>
                                   i > view'[d] /\ entries[i].limit = L!NewLimit(d)
        BY <1>2, <1>3 DEF OrderInv
    <2>1. CASE d # c  BY <1>1, <2>1 DEF LineInv, OrderInv
    <2>2. CASE d = c
        <3>1. view'[c] # view[c] =>
                  \A i \in DOMAIN entries : ~(entries[i].by = c /\ entries[i].what = "changeTrust")
            BY <1>6 DEF Sent
        <3> QED  BY <1>1, <1>5, <2>2, <3>1 DEF LineInv, OrderInv
    <2> QED  BY <2>1, <2>2
<1>9. ToldInv'
    <2> SUFFICES ASSUME NEW d \in Callers
                 PROVE  /\ answer'[d] = "sent" => \E i \in DOMAIN entries : Raised(d, i)
                        /\ step'[d] \in {"receive", "receiving", "done"} /\ Receives(d) /\ L!Needs(d) # 0 =>
                               answer'[d] \in {"error", "sent"} \/ L!LimitAt(view'[d]) >= L!MaxLimit
        BY <1>2, <1>4 DEF ToldInv, Raised
    <2>1. CASE d # c  BY <1>1, <2>1 DEF LineInv, ToldInv
    <2>2. CASE d = c  BY <1>1, <2>2 DEF LineInv, ToldInv
    <2> QED  BY <2>1, <2>2
<1>10. LineHoldsUntilChanged'
    <2> SUFFICES ASSUME NEW i \in 1..Len(entries) PROVE RoomAt(i)' /\ LowAt(i)'
        BY HoldsByEntryNext, LineEntriesAreTyped DEF LineInv
    <2> DEFINE d == entries[i].by
    <2>1. d \in Callers /\ entries[i].what \in L!Whats /\ i \in DOMAIN entries
        BY LineEntriesAreTyped DEF LineInv, LineEntries
    <2>2. Sent(d, entries[i].what)  BY <2>1 DEF Sent
    <2>3. d = c => entries[i].what = "changeTrust" /\ step[c] # "start"
        BY <1>5, <1>6, <2>1, <2>2 DEF L!Whats
    <2>4. view'[d] = view[d] /\ loaded'[d][entries[i].what] = loaded[d][entries[i].what]
          /\ (entries[i].what = "receive" => answer'[d] = answer[d])
        BY <2>1, <2>2, <2>3
    <2> HIDE DEF d
    <2> QED  BY <2>1, <2>4, EntryKept DEF d
<1>11. OnceInv'  BY DEF LineInv, OnceInv
<1>12. LowInv'
    <2> SUFFICES ASSUME NEW d \in Callers,
                        Sent(d, "changeTrust") \/ step'[d] \in {"sign", "trusting", "trusted"}
                 PROVE  L!Own(d) /\ (L!Kind(d) # "close" => L!LimitAt(view'[d]) < L!Needs(d))
        BY <1>2, <1>3, <1>4 DEF LowInv, L!Own
    <2>1. CASE d # c  BY <1>1, <2>1 DEF LineInv, LowInv
    <2>2. CASE d = c /\ Sent(c, "changeTrust")  BY <1>6, <2>2 DEF LineInv, LowInv
    <2>3. CASE d = c /\ ~Sent(c, "changeTrust")  BY <1>1, <2>3 DEF LineInv, LowInv
    <2> QED  BY <2>1, <2>2, <2>3
<1> QED  BY <1>7, <1>8, <1>9, <1>10, <1>11, <1>12 DEF LineInv

\* Nothing that LineHoldsUntilChanged is about changes.
LEMMA LineKept ==
    ASSUME LineHoldsUntilChanged, UNCHANGED <<call, loaded, view, answer, entries>>
    PROVE  LineHoldsUntilChanged'
<1>1. \A m : L!LimitAt(m)' = L!LimitAt(m)  BY DEF L!LimitAt, L!Changes
<1>2. \A d : /\ (L!Own(d)' <=> L!Own(d)) /\ L!Kind(d)' = L!Kind(d) /\ L!Needs(d)' = L!Needs(d)
             /\ \A till : L!ChangedByOthers(d, till)' <=> L!ChangedByOthers(d, till)
    BY DEF L!Own, L!Kind, L!Needs, L!ByContract, L!ChangedByOthers
<1>3. \A i \in DOMAIN entries : RoomAt(i) /\ LowAt(i)  BY HoldsByEntry
<1>4. ASSUME NEW i \in DOMAIN entries PROVE RoomAt(i)'
    <2>1. RoomAt(i)  BY <1>3
    <2> QED  BY <1>2, <2>1 DEF RoomAt
<1>5. ASSUME NEW i \in DOMAIN entries PROVE LowAt(i)'
    <2>1. LowAt(i)  BY <1>3
    <2> QED  BY <1>1, <1>2, <2>1 DEF LowAt
<1> QED  BY <1>4, <1>5, HoldsByEntryNext

\* A node takes what the caller posts, or does not.
LEMMA LinePostStep ==
    ASSUME LineInv, NEW c \in Callers, L!Post(c)
    PROVE  LineInv'
<1> DEFINE what == L!What(c)
<1>1. /\ step[c] \in {"trusting", "receiving"} /\ UNCHANGED <<call, loaded, view, answer, entries, shown>>
      /\ step' = [step EXCEPT ![c] = IF step[c] = "trusting" THEN "trusted" ELSE "done"]
      /\ held \subseteq held' /\ held' \subseteq held \cup {<<c, what>>}
    BY DEF L!Post, L!Move
<1>2. what = IF step[c] = "trusting" THEN "changeTrust" ELSE "receive"  BY <1>1 DEF L!What
<1>3. /\ step'[c] = (IF step[c] = "trusting" THEN "trusted" ELSE "done")
      /\ \A d \in Callers : d # c => step'[d] = step[d]
    BY <1>1 DEF LineInv, LineTypes
<1> HIDE DEF what
<1>4. \A d : L!Kind(d)' = L!Kind(d) /\ L!Needs(d)' = L!Needs(d) /\ L!NewLimit(d)' = L!NewLimit(d)
             /\ (Receives(d)' <=> Receives(d))
    BY <1>1 DEF L!Kind, L!Needs, L!NewLimit, L!ByContract, Receives
<1>5. \A d, x : Sent(d, x)' => Sent(d, x) \/ (d = c /\ x = what)  BY <1>1 DEF Sent
<1>6. ~Sent(c, what)
    <2>1. step[c] = "trusting" => ~Sent(c, "changeTrust")  BY DEF LineInv, OrderInv
    <2>2. step[c] = "receiving" => ~Sent(c, "receive")  BY DEF LineInv, OrderInv
    <2> QED  BY <1>1, <1>2, <2>1, <2>2
<1>7. LineTypes'
    <2>1. step' \in [Callers -> LineSteps]  BY <1>1, <1>3 DEF LineInv, LineTypes, LineSteps
    <2>2. held' \subseteq Callers \X L!Whats  BY <1>1, <1>2 DEF LineInv, LineTypes, L!Whats
    <2> QED  BY <1>1, <2>1, <2>2 DEF LineInv, LineTypes
<1>8. OrderInv'
    <2> SUFFICES ASSUME NEW d \in Callers
                 PROVE  /\ Sent(d, "changeTrust")' => step'[d] \in {"trusted", "receive", "receiving", "done", "refused"}
                        /\ Sent(d, "receive")' => step'[d] = "done" /\ Receives(d)
                        /\ step'[d] \in {"receive", "receiving"} => Receives(d)
        BY <1>1, <1>4 DEF LineInv, OrderInv
    <2>1. CASE d # c  BY <1>3, <1>5, <2>1 DEF LineInv, OrderInv
    <2>2. CASE d = c /\ step[c] = "trusting"  BY <1>2, <1>3, <1>5, <2>2 DEF LineInv, OrderInv
    <2>3. CASE d = c /\ step[c] = "receiving"  BY <1>2, <1>3, <1>5, <2>3 DEF LineInv, OrderInv
    <2> QED  BY <1>1, <2>1, <2>2, <2>3
<1>9. OnceInv'
    <2>1. \A i \in DOMAIN entries : ~(entries[i].by = c /\ entries[i].what = what)  BY <1>6 DEF Sent
    <2> QED  BY <1>1, <2>1 DEF LineInv, OnceInv
<1>10. ToldInv'
    <2>1. \A n : L!LimitAt(n)' = L!LimitAt(n)  BY <1>1 DEF L!LimitAt, L!Changes
    <2>2. \A d \in Callers : step'[d] \in {"receive", "receiving", "done"} => step[d] \in {"receive", "receiving", "done"}
        BY <1>1, <1>3
    <2> QED  BY <1>1, <1>4, <2>1, <2>2 DEF LineInv, ToldInv, Raised
<1>11. LineHoldsUntilChanged'  BY <1>1, LineKept DEF LineInv
<1>12. LowInv'
    <2>1. \A m : L!LimitAt(m)' = L!LimitAt(m)  BY <1>1 DEF L!LimitAt, L!Changes
    <2>2. \A d \in Callers : step'[d] \in {"sign", "trusting", "trusted"} => step[d] \in {"sign", "trusting", "trusted"}
        BY <1>1, <1>3
    <2>3. \A d \in Callers : Sent(d, "changeTrust")' =>
              Sent(d, "changeTrust") \/ step[d] \in {"sign", "trusting", "trusted"}
        BY <1>1, <1>2, <1>5
    <2> QED  BY <1>1, <1>4, <2>1, <2>2, <2>3 DEF LineInv, LowInv, L!Own
<1> QED  BY <1>7, <1>8, <1>9, <1>10, <1>11, <1>12 DEF LineInv

\* What is applied was posted, and a receipt finds room unless its caller was told of an
\* error or somebody else changed the line since it looked.
LEMMA LineApplyStep ==
    ASSUME LineInv, NEW c \in Callers, NEW what \in L!Whats, L!Apply(c, what)
    PROVE  LineInv'
<1> DEFINE n == Len(entries)
           e == [by |-> c, what |-> what, ok |-> L!Succeeds(c, what),
                 limit |-> IF what = "changeTrust" THEN L!NewLimit(c) ELSE 0]
<1>1. /\ <<c, what>> \in held /\ held' = held \ {<<c, what>>}
      /\ UNCHANGED <<call, step, loaded, view, answer, shown>>
      /\ \/ entries' = entries
         \/ /\ entries' = Append(entries, e)
            /\ L!Own(c) => L!NextSequence(loaded[c][what]) = L!NextSequence(n)
    BY DEF L!Apply
<1>2. \A d : L!Kind(d)' = L!Kind(d) /\ L!Needs(d)' = L!Needs(d) /\ L!NewLimit(d)' = L!NewLimit(d)
             /\ (Receives(d)' <=> Receives(d))
    BY <1>1 DEF L!Kind, L!Needs, L!NewLimit, L!ByContract, Receives
<1>3. CASE entries' = entries
    <2>1. \A d, x : Sent(d, x)' => Sent(d, x)  BY <1>1, <1>3 DEF Sent
    <2>2. \A m : L!LimitAt(m)' = L!LimitAt(m)  BY <1>3 DEF L!LimitAt, L!Changes
    <2>3. LineTypes'  BY <1>1, <1>3 DEF LineInv, LineTypes
    <2>4. OrderInv'  BY <1>1, <1>2, <1>3, <2>1 DEF LineInv, OrderInv
    <2>5. OnceInv'  BY <1>1, <1>3 DEF LineInv, OnceInv
    <2>6. ToldInv'  BY <1>1, <1>2, <1>3, <2>2 DEF LineInv, ToldInv, Raised
    <2>7. LineHoldsUntilChanged'  BY <1>1, <1>3, LineKept DEF LineInv
    <2>8. LowInv'  BY <1>1, <1>2, <1>3, <2>1, <2>2 DEF LineInv, LowInv, L!Own
    <2> QED  BY <2>3, <2>4, <2>5, <2>6, <2>7, <2>8 DEF LineInv
<1>4. CASE /\ entries' = Append(entries, e)
           /\ L!Own(c) => L!NextSequence(loaded[c][what]) = L!NextSequence(n)
    <2>1. e \in LineEntries /\ e.by = c /\ e.what = what /\ e.ok = L!Succeeds(c, what)
          /\ (what = "changeTrust" => e.limit = L!NewLimit(c))
        <3>1. L!NewLimit(c) \in Nat  BY NeedsAreAmounts DEF LineInv, LineTypes
        <3>2. L!Succeeds(c, what) \in BOOLEAN
            <4>1. (L!NewLimit(c) >= L!BalanceAt(n)) \in BOOLEAN  OBVIOUS
            <4>2. CASE what = "changeTrust"  BY <4>1, <4>2, Zenon DEF L!Succeeds
            <4>3. CASE what # "changeTrust"  BY <4>3, Zenon DEF L!Succeeds
            <4> QED  BY <4>2, <4>3
        <3> QED  BY <3>1, <3>2 DEF LineEntries
    <2> HIDE DEF e
    <2>2. n \in Nat /\ DOMAIN entries = 1..n  BY LineEntriesAreTyped DEF LineInv
    <2>3. /\ Len(entries') = n + 1 /\ DOMAIN entries' = 1..(n + 1) /\ entries'[n + 1] = e
          /\ \A i \in 1..n : entries'[i] = entries[i]
        BY <1>4, <2>1, <2>2 DEF LineInv, LineTypes
    <2>4. \A d, x : Sent(d, x)' => Sent(d, x)  BY <1>1, <2>1, <2>2, <2>3 DEF Sent
    <2>5. \A d \in Callers : view[d] \in 0..n /\ view[d] <= shown /\ shown \in 0..n
        BY <2>2 DEF LineInv, LineTypes
    <2>6. LineTypes'
        <3>1. entries' \in Seq(LineEntries)  BY <1>4, <2>1 DEF LineInv, LineTypes
        <3>2. shown \in 0..(n + 1)  BY <2>2 DEF LineInv, LineTypes
        <3> QED  BY <1>1, <2>3, <3>1, <3>2 DEF LineInv, LineTypes
    <2>7. OrderInv'
        <3> SUFFICES ASSUME NEW d \in Callers, NEW i \in 1..(n + 1), entries'[i].by = d, entries'[i].what = "changeTrust"
                     PROVE  i > view[d] /\ entries'[i].limit = L!NewLimit(d)
            BY <1>1, <1>2, <2>3, <2>4 DEF LineInv, OrderInv
        <3>1. CASE i \in 1..n  BY <2>2, <2>3, <3>1 DEF LineInv, OrderInv
        <3>2. CASE i = n + 1  BY <2>1, <2>2, <2>3, <2>5, <3>2
        <3> QED  BY <2>2, <3>1, <3>2
    <2>8. OnceInv'
        <3>1. \A i \in 1..n : ~(entries[i].by = c /\ entries[i].what = what)
            BY <1>1, <2>2 DEF LineInv, OnceInv
        <3> SUFFICES ASSUME NEW i \in 1..(n + 1), NEW j \in 1..(n + 1)
                     PROVE  /\ <<entries'[i].by, entries'[i].what>> \notin held'
                            /\ entries'[j].what = entries'[i].what /\ entries'[j].by = entries'[i].by => i = j
            BY <2>3 DEF OnceInv
        <3>2. CASE i \in 1..n /\ j \in 1..n  BY <1>1, <2>2, <2>3, <3>2 DEF LineInv, OnceInv
        <3>3. CASE i \in 1..n /\ j = n + 1  BY <1>1, <2>1, <2>2, <2>3, <3>1, <3>3 DEF LineInv, OnceInv
        <3>4. CASE i = n + 1  BY <1>1, <2>1, <2>2, <2>3, <3>1, <3>4
        <3> QED  BY <2>2, <3>2, <3>3, <3>4
    <2>9. ToldInv'
        <3>1. \A d \in Callers : L!LimitAt(view[d])' = L!LimitAt(view[d])
            BY <1>1, <1>4, <2>5, LimitStays DEF LineInv
        <3>2. \A d \in Callers, i \in DOMAIN entries : Raised(d, i) => i \in DOMAIN entries' /\ Raised(d, i)'
            BY <2>2, <2>3 DEF Raised
        <3> QED  BY <1>1, <1>2, <3>1, <3>2 DEF LineInv, ToldInv
    <2>10. LowInv'
        <3>1. \A d \in Callers : L!LimitAt(view[d])' = L!LimitAt(view[d])
            BY <1>1, <1>4, <2>5, LimitStays DEF LineInv
        <3> QED  BY <1>1, <1>2, <2>4, <3>1 DEF LineInv, LowInv, L!Own
    <2>11. \A x \in L!Whats : loaded[c][x] \in 0..n  BY <2>2 DEF LineInv, LineTypes
    <2>12. L!Own(c) => \A j \in loaded[c][what] + 1..n : entries[j].what # "changeTrust"
        BY <1>4, <2>11, NoChangeSince
    <2>18. PICK m \in Nat : m = n  BY <2>2
    <2>13. L!LimitAt(m)' = L!LimitAt(m)  BY <1>4, <2>2, <2>18, LimitStays DEF LineInv
    <2>14. \A d, till : till \in 0..n /\ view[d] \in Nat =>
               (L!ChangedByOthers(d, till)' <=> L!ChangedByOthers(d, till))
        <3> SUFFICES ASSUME NEW d, NEW till \in 0..n, view[d] \in Nat
                     PROVE  L!ChangedByOthers(d, till)' <=> L!ChangedByOthers(d, till)
            OBVIOUS
        <3>1. \A j \in view[d] + 1..till : entries'[j] = entries[j]  BY <2>2, <2>3
        <3> QED  BY <1>1, <3>1 DEF L!ChangedByOthers
    <2>15. RoomAt(m + 1)'
        <3> DEFINE till == IF L!Own(c) THEN loaded[c]["receive"] ELSE n
        <3>1. till \in 0..n  BY <2>2, <2>11 DEF L!Whats
        <3> SUFFICES ASSUME what = "receive", ~L!Succeeds(c, "receive"), answer[c] # "error",
                            ~L!ChangedByOthers(c, till)
                     PROVE  FALSE
            BY <1>1, <1>2, <2>1, <2>2, <2>3, <2>5, <2>14, <2>18, <3>1 DEF RoomAt, L!Own
        <3>2. L!Needs(c) # 0 /\ ~(L!LimitAt(n) > L!BalanceAt(n))  BY DEF L!Succeeds
        <3>3. step[c] = "done" /\ Receives(c)  BY <1>1 DEF LineInv, OrderInv, Sent
        <3>4. L!LimitAt(view[c]) >= L!MaxLimit \/ \E k \in DOMAIN entries : Raised(c, k)
            BY <3>2, <3>3 DEF LineInv, ToldInv
        <3>5. \A j \in till + 1..n : entries[j].what # "changeTrust"  BY <2>2, <2>12
        <3>6. \A j \in view[c] + 1..n : entries[j].what = "changeTrust" => entries[j].by = c
            <4> SUFFICES ASSUME NEW j \in view[c] + 1..n, entries[j].what = "changeTrust"
                         PROVE  entries[j].by = c
                OBVIOUS
            <4>1. j \in view[c] + 1..till  BY <2>2, <2>5, <3>1, <3>5
            <4> QED  BY <4>1 DEF L!ChangedByOthers
        <3>7. L!LimitAt(n) >= L!MaxLimit  BY <3>2, <3>3, <3>4, <3>6, LimitHolds DEF LineInv
        <3>8. L!BalanceAt(n) \in Nat /\ L!BalanceAt(n) < L!MaxLimit  BY <1>1, RoomIsLeft DEF LineInv
        <3>9. L!LimitAt(n) \in Nat  BY <2>2, LatestChange DEF LineInv
        <3> QED  BY <3>2, <3>7, <3>8, <3>9 DEF L!MaxLimit
    <2>16. LowAt(m + 1)'
        <3> SUFFICES ASSUME what = "changeTrust", L!Kind(c) # "close", L!LimitAt(n) >= L!Needs(c),
                            ~L!ChangedByOthers(c, loaded[c]["changeTrust"])
                     PROVE  FALSE
            BY <1>1, <1>2, <2>1, <2>2, <2>3, <2>5, <2>11, <2>13, <2>14, <2>18 DEF LowAt, L!Whats
        <3>1. L!Own(c) /\ L!LimitAt(view[c]) < L!Needs(c)  BY <1>1 DEF LineInv, LowInv, Sent
        <3>2. \A j \in loaded[c]["changeTrust"] + 1..n : entries[j].what # "changeTrust"
            BY <2>12, <3>1
        <3>3. \A j \in view[c] + 1..n : entries[j].what # "changeTrust"
            <4> SUFFICES ASSUME NEW j \in view[c] + 1..n, entries[j].what = "changeTrust" PROVE FALSE
                OBVIOUS
            <4>1. j \in view[c] + 1..loaded[c]["changeTrust"]  BY <2>2, <2>5, <2>11, <3>2 DEF L!Whats
            <4>2. entries[j].by = c  BY <4>1 DEF L!ChangedByOthers
            <4>3. j \in DOMAIN entries  BY <2>2, <2>5
            <4> QED  BY <1>1, <4>2, <4>3 DEF LineInv, OnceInv
        <3>4. L!LimitAt(n) = L!LimitAt(view[c])  BY <2>5, <3>3, LimitUnchanged DEF LineInv
        <3>5. L!LimitAt(n) \in Nat /\ L!Needs(c) \in Nat
            BY <2>2, LatestChange, NeedsAreAmounts DEF LineInv, LineTypes
        <3> QED  BY <3>1, <3>4, <3>5
    <2>17. LineHoldsUntilChanged'
        <3>1. ASSUME NEW i \in 1..n PROVE RoomAt(i)' /\ LowAt(i)'
            <4>1. entries[i].by \in Callers  BY LineEntriesAreTyped DEF LineInv
            <4> DEFINE d == entries[i].by
            <4>2. d \in Callers /\ view'[d] = view[d] /\ answer'[d] = answer[d]
                  /\ loaded'[d][entries[i].what] = loaded[d][entries[i].what] /\ call' = call
                BY <1>1, <4>1
            <4> HIDE DEF d
            <4> QED  BY <1>4, <4>2, EntryKept DEF d
        <3>2. \A i \in 1..(n + 1) : RoomAt(i)' /\ LowAt(i)'  BY <2>2, <2>15, <2>16, <2>18, <3>1
        <3> QED  BY <2>3, <3>2, HoldsByEntryNext
    <2> QED  BY <2>6, <2>7, <2>8, <2>9, <2>10, <2>17 DEF LineInv
<1> QED  BY <1>1, <1>3, <1>4

\* What Horizon shows is no part of what a caller counts on.
LEMMA LineStays ==
    ASSUME LineInv, LineTypes', UNCHANGED <<call, step, loaded, view, answer, entries, held>>
    PROVE  LineInv'
<1>1. \A n : L!LimitAt(n)' = L!LimitAt(n)  BY DEF L!LimitAt, L!Changes
<1>2. \A d : L!Kind(d)' = L!Kind(d) /\ L!Needs(d)' = L!Needs(d) /\ L!NewLimit(d)' = L!NewLimit(d)
             /\ (Receives(d)' <=> Receives(d)) /\ \A x : Sent(d, x)' <=> Sent(d, x)
    BY DEF L!Kind, L!Needs, L!NewLimit, L!ByContract, Receives, Sent
<1>3. OrderInv'  BY <1>2 DEF LineInv, OrderInv
<1>4. OnceInv'  BY DEF LineInv, OnceInv
<1>5. ToldInv'  BY <1>1, <1>2 DEF LineInv, ToldInv, Raised
<1>6. LineHoldsUntilChanged'  BY LineKept DEF LineInv
<1>7. LowInv'  BY <1>1, <1>2 DEF LineInv, LowInv, L!Own
<1> QED  BY <1>3, <1>4, <1>5, <1>6, <1>7 DEF LineInv

LEMMA LineStep == LineInv /\ [L!Next]_(L!vars) => LineInv'
<1> SUFFICES ASSUME LineInv, [L!Next]_(L!vars) PROVE LineInv'
    OBVIOUS
<1>1. CASE UNCHANGED L!vars
    <2>1. LineTypes'  BY <1>1 DEF L!vars, LineInv, LineTypes
    <2> QED  BY <1>1, <2>1, LineStays DEF L!vars
<1>2. CASE L!Ingest
    <2>3. LineTypes'
        <3>1. shown \in Nat /\ shown' = shown + 1 /\ shown < Len(entries) /\ Len(entries) \in Nat
            BY <1>2, LineEntriesAreTyped DEF L!Ingest, LineInv, LineTypes
        <3>2. \A d \in Callers : /\ view[d] \in Nat /\ view[d] <= shown
                                 /\ \A x \in L!Whats : loaded[d][x] \in Nat /\ loaded[d][x] <= shown
            BY DEF LineInv, LineTypes
        <3>3. /\ shown' \in 0..Len(entries)
              /\ \A d \in Callers : view[d] <= shown' /\ \A x \in L!Whats : loaded[d][x] <= shown'
            BY <3>1, <3>2
        <3> QED  BY <1>2, <3>3 DEF L!Ingest, LineInv, LineTypes
    <2> QED  BY <1>2, <2>3, LineStays DEF L!Ingest
<1>3. ASSUME NEW c \in Callers, L!Refuse(c) \/ L!Skip(c) \/ L!ReadForeign(c) \/ L!ReadFails(c) PROVE LineInv'
    <2> DEFINE to == IF L!Skip(c) THEN "receive" ELSE "refused"
    <2>1. /\ step[c] \in {"start", "sign", "receive"} /\ UNCHANGED <<call, loaded, view, answer, entries, shown, held>>
          /\ step' = [step EXCEPT ![c] = to]
        BY <1>3 DEF L!Refuse, L!Skip, L!ReadForeign, L!ReadFails, L!Move
    <2>2. to = "receive" => step[c] = "start" /\ Receives(c) /\ L!Needs(c) = 0  BY DEF L!Skip, Receives
    <2>3. to \in {"receive", "refused"}  OBVIOUS
    <2> HIDE DEF to
    <2>4. to \in LineSteps  BY <2>3 DEF LineSteps
    <2>5. /\ view \in [Callers -> Nat] /\ loaded \in [Callers -> [L!Whats -> Nat]]
          /\ answer \in [Callers -> {"nothing", "skipped", "sent", "error"}]
        BY DEF LineInv, LineTypes
    <2> QED  BY <2>1, <2>2, <2>3, <2>4, <2>5, CallerMoves
<1>4. ASSUME NEW c \in Callers, L!ReadLine(c) PROVE LineInv'
    <2>1. /\ step[c] = "start" /\ UNCHANGED <<call, loaded, entries, shown, held>>
          /\ view' = [view EXCEPT ![c] = shown]
        BY <1>4 DEF L!ReadLine
    <2>2. PICK to \in {"sign", "refused", "receive", "done"} :
              /\ step' = [step EXCEPT ![c] = to]
              /\ answer' = answer \/ answer' = [answer EXCEPT ![c] = "skipped"]
              /\ to = "receive" => Receives(c)
              /\ to \in {"receive", "done"} /\ Receives(c) => L!High(L!LimitAt(shown), c)
              /\ to = "sign" => L!Own(c) /\ (L!Kind(c) # "close" => ~L!High(L!LimitAt(shown), c))
        BY <1>4 DEF L!ReadLine, L!Move, Receives, L!Own
    <2>3. to \in LineSteps  BY DEF LineSteps
    <2>4. /\ view' \in [Callers -> Nat] /\ view'[c] = shown
          /\ \A d \in Callers : d # c => view'[d] = view[d]
        BY <2>1 DEF LineInv, LineTypes
    <2>5. /\ answer' \in [Callers -> {"nothing", "skipped", "sent", "error"}]
          /\ \A d \in Callers : d # c => answer'[d] = answer[d]
          /\ answer'[c] = answer[c] \/ answer'[c] = "skipped"
        BY <2>2 DEF LineInv, LineTypes
    <2>6. ~Sent(c, "changeTrust")  BY <2>1 DEF LineInv, OrderInv
    <2>7. Receives(c) /\ L!Needs(c) # 0 /\ to \in {"receive", "done"} => L!LimitAt(shown) >= L!MaxLimit
        BY <2>2, NeedsAreAmounts DEF LineInv, LineTypes, L!High
    <2>8. to = "sign" => L!Own(c) /\ (L!Kind(c) # "close" => L!LimitAt(shown) < L!Needs(c))
        <3>1. L!LimitAt(shown) \in Nat /\ L!Needs(c) \in Nat
            BY LatestChange, NeedsAreAmounts DEF LineInv, LineTypes
        <3> QED  BY <2>2, <3>1 DEF L!High
    <2>9. loaded \in [Callers -> [L!Whats -> Nat]]  BY DEF LineInv, LineTypes
    <2> QED  BY <2>1, <2>2, <2>3, <2>4, <2>5, <2>6, <2>7, <2>8, <2>9, CallerMoves
<1>5. ASSUME NEW c \in Callers, L!Sign(c) PROVE LineInv'
    <2> DEFINE to == IF step[c] = "sign" THEN "trusting" ELSE "receiving"
    <2>1. /\ step[c] \in {"sign", "receive"} /\ UNCHANGED <<call, view, answer, entries, shown, held>>
          /\ step' = [step EXCEPT ![c] = to] /\ loaded' = [loaded EXCEPT ![c][L!What(c)] = shown]
        BY <1>5 DEF L!Sign, L!Move
    <2>2. step[c] = "sign" => ~Sent(c, "changeTrust")  BY DEF LineInv, OrderInv
    <2>7. L!What(c) = (IF step[c] = "sign" THEN "changeTrust" ELSE "receive")  BY <2>1 DEF L!What
    <2>8. ~Sent(c, L!What(c)) /\ L!What(c) \in L!Whats  BY <2>1, <2>2, <2>7 DEF LineInv, OrderInv, L!Whats
    <2>9. /\ loaded' \in [Callers -> [L!Whats -> Nat]]
          /\ \A d \in Callers : d # c => loaded'[d] = loaded[d]
          /\ \A x \in L!Whats : loaded'[c][x] = IF x = L!What(c) THEN shown ELSE loaded[c][x]
        <3>1. shown \in Nat /\ loaded \in [Callers -> [L!Whats -> Nat]]
            BY LineEntriesAreTyped DEF LineInv, LineTypes
        <3> QED  BY <2>1, <2>8, <3>1
    <2>10. ASSUME NEW x \in L!Whats
           PROVE  loaded'[c][x] = loaded[c][x] \/ (~Sent(c, x) /\ loaded'[c][x] = shown)
        <3>1. CASE x = L!What(c)
            <4>1. ~Sent(c, x)  BY <2>8, <3>1
            <4> QED  BY <2>9, <3>1, <4>1
        <3>2. CASE x # L!What(c)  BY <2>9, <3>2
        <3> QED  BY <3>1, <3>2
    <2>3. step[c] = "receive" => Receives(c)  BY DEF LineInv, OrderInv
    <2>4. to = (IF step[c] = "sign" THEN "trusting" ELSE "receiving")  OBVIOUS
    <2> HIDE DEF to
    <2>5. to \in LineSteps  BY <2>4 DEF LineSteps
    <2>6. view \in [Callers -> Nat] /\ answer \in [Callers -> {"nothing", "skipped", "sent", "error"}]
        BY DEF LineInv, LineTypes
    <2> QED  BY <2>1, <2>2, <2>3, <2>4, <2>5, <2>6, <2>9, <2>10, CallerMoves
<1>6. ASSUME NEW c \in Callers, L!Post(c) PROVE LineInv'  BY <1>6, LinePostStep
<1>7. ASSUME NEW c \in Callers, L!Answered(c) PROVE LineInv'
    <2> DEFINE to == IF L!Kind(c) = "swap" THEN "receive" ELSE "done"
    <2>1. /\ step[c] = "trusted" /\ UNCHANGED <<call, loaded, view, entries, shown, held>>
          /\ step' = [step EXCEPT ![c] = to]
        BY <1>7 DEF L!Answered, L!Move
    <2>2. PICK a \in {"error", "sent"} :
              answer' = [answer EXCEPT ![c] = a] /\ (a = "sent" => L!SeenApplied(c))
        BY <1>7 DEF L!Answered
    <2>3. to = (IF L!Kind(c) = "swap" THEN "receive" ELSE "done")  OBVIOUS
    <2> HIDE DEF to
    <2>4. to \in LineSteps  BY <2>3 DEF LineSteps
    <2>5. /\ answer' \in [Callers -> {"nothing", "skipped", "sent", "error"}] /\ answer'[c] = a
          /\ \A d \in Callers : d # c => answer'[d] = answer[d]
        BY <2>2 DEF LineInv, LineTypes
    <2>6. a = "sent" => \E i \in DOMAIN entries : Raised(c, i)
        BY <2>2, LineEntriesAreTyped DEF L!SeenApplied, Raised, LineInv, LineTypes
    <2>7. to = "receive" => Receives(c)  BY <2>3 DEF Receives
    <2>8. view \in [Callers -> Nat] /\ loaded \in [Callers -> [L!Whats -> Nat]]  BY DEF LineInv, LineTypes
    <2> QED  BY <2>1, <2>3, <2>4, <2>5, <2>6, <2>7, <2>8, CallerMoves
<1>8. ASSUME NEW c \in Callers, NEW what \in L!Whats, L!Apply(c, what) PROVE LineInv'
    BY <1>8, LineApplyStep
<1> QED  BY <1>1, <1>2, <1>3, <1>4, <1>5, <1>6, <1>7, <1>8 DEF L!Next

LEMMA SceneStep == LineInv /\ [MCNext]_<<scene, vars, tokenVars, changeVars, trustVars>> => LineInv'
<1>1. [MCNext]_<<scene, vars, tokenVars, changeVars, trustVars>> => [L!Next]_(L!vars)
    BY DEF MCNext, trustVars, L!vars
<1> QED  BY <1>1, LineStep

\* A swap or a payment that finds no room on the receiver's line was not told that the
\* line is there, or somebody else changed the line between its look and its signature, or,
\* of a payment from another wallet, its application; and so with a limit that is set on a
\* line that was high enough: for any number of callers that the limit covers, and any calls.
THEOREM LineCountedOn == MCSpec => []LineHoldsUntilChanged
<1>1. MCInit => LineInv  BY LineInitHolds DEF MCInit
<1>2. LineInv => LineHoldsUntilChanged  BY DEF LineInv
<1> QED  BY <1>1, <1>2, SceneStep, PTL DEF MCSpec
-----------------------------------------------------------------------------
(* The cache of tokens.                                                    *)

Entries == [contract : Contracts, promise : Nat]
TokenSteps == {"decimals", "symbol", "resolved", "rejected", "handled"}

\* Each entry is of a promise of its contract whose failure, if it failed, was not handled
\* yet, and no contract has two.
CacheInv ==
    /\ promise \in Seq([step : TokenSteps, contract : Contracts])
    /\ cache \in Seq(Entries) /\ Len(cache) <= CacheSize
    /\ \A i \in DOMAIN cache :
          /\ cache[i].promise \in DOMAIN promise
          /\ promise[cache[i].promise].contract = cache[i].contract
          /\ promise[cache[i].promise].step # "handled"
    /\ \A i, j \in DOMAIN cache : cache[i].contract = cache[j].contract => i = j

\* What no step may do to the cache.
KeepsTokens ==
    \A p \in DOMAIN promise :
        K!InCache(p) /\ ~K!InCache(p)' /\ promise[p].step # "rejected"
            => Len(cache) = CacheSize /\ cache[1].promise = p

LEMMA EntryRemoved ==
    ASSUME NEW S, NEW s \in Seq(S), NEW k \in DOMAIN s
    PROVE  /\ K!RemoveAt(s, k) \in Seq(S) /\ Len(K!RemoveAt(s, k)) = Len(s) - 1
           /\ \A i \in 1..(Len(s) - 1) : K!RemoveAt(s, k)[i] = s[IF i < k THEN i ELSE i + 1]
<1> DEFINE u == SubSeq(s, 1, k - 1)
           v == SubSeq(s, k + 1, Len(s))
<1> DEFINE n == Len(s)
<1>1. n \in Nat /\ k \in 1..n /\ \A i \in 1..n : s[i] \in S  OBVIOUS
<1>2. u \in Seq(S) /\ Len(u) = k - 1 /\ \A i \in 1..(k - 1) : u[i] = s[i]
    <2>1. 1 \in Int /\ k - 1 \in Int /\ \A i \in 1..(k - 1) : s[i] \in S  BY <1>1
    <2> HIDE DEF n
    <2>2. /\ u \in Seq(S) /\ Len(u) = IF 1 <= k - 1 THEN (k - 1) - 1 + 1 ELSE 0
          /\ \A i \in 1..((k - 1) - 1 + 1) : u[i] = s[1 + i - 1]
        BY <2>1, SubSeqProperties
    <2> HIDE DEF u
    <2> QED  BY <1>1, <2>2
<1>3. v \in Seq(S) /\ Len(v) = n - k /\ \A i \in 1..(n - k) : v[i] = s[k + i]
    <2>1. k + 1 \in Int /\ n \in Int /\ \A i \in (k + 1)..n : s[i] \in S  BY <1>1
    <2>2. v = SubSeq(s, k + 1, n)  OBVIOUS
    <2> HIDE DEF n, v
    <2>3. /\ v \in Seq(S) /\ Len(v) = IF k + 1 <= n THEN n - (k + 1) + 1 ELSE 0
          /\ \A i \in 1..(n - (k + 1) + 1) : v[i] = s[(k + 1) + i - 1]
        BY <2>1, <2>2, SubSeqProperties
    <2>4. n - (k + 1) + 1 = n - k /\ \A i \in Int : (k + 1) + i - 1 = k + i  BY <1>1
    <2>5. Len(v) = n - k
        <3>1. CASE k + 1 <= n
            <4>1. Len(v) = n - (k + 1) + 1  BY <2>3, <3>1
            <4> QED  BY <2>4, <4>1
        <3>2. CASE ~(k + 1 <= n)
            <4>1. Len(v) = 0  BY <2>3, <3>2
            <4>2. n - k = 0  BY <1>1, <3>2
            <4> QED  BY <4>1, <4>2
        <3> QED  BY <3>1, <3>2
    <2>6. ASSUME NEW i \in 1..(n - k) PROVE v[i] = s[k + i]
        <3>1. i \in 1..(n - (k + 1) + 1)  BY <2>4
        <3>2. v[i] = s[(k + 1) + i - 1]  BY <2>3, <3>1
        <3>3. (k + 1) + i - 1 = k + i  BY <2>4
        <3> QED  BY <3>2, <3>3
    <2> QED  BY <2>3, <2>5, <2>6
<1>4. K!RemoveAt(s, k) = u \o v  BY DEF K!RemoveAt
<1> HIDE DEF u, v
<1>5. /\ u \o v \in Seq(S) /\ Len(u \o v) = Len(u) + Len(v)
      /\ \A i \in 1..(Len(u) + Len(v)) : (u \o v)[i] = IF i <= Len(u) THEN u[i] ELSE v[i - Len(u)]
    BY <1>2, <1>3, ConcatProperties
<1> HIDE DEF n
<1>6. Len(u) + Len(v) = n - 1  BY <1>1, <1>2, <1>3
<1>7. ASSUME NEW i \in 1..(n - 1) PROVE (u \o v)[i] = s[IF i < k THEN i ELSE i + 1]
    <2>1. (u \o v)[i] = IF i <= k - 1 THEN u[i] ELSE v[i - (k - 1)]  BY <1>2, <1>5, <1>6
    <2>2. CASE i < k  BY <1>1, <1>2, <2>1, <2>2
    <2>3. CASE ~(i < k)
        <3>1. i - (k - 1) \in 1..(n - k) /\ k + (i - (k - 1)) = i + 1 /\ ~(i <= k - 1)  BY <1>1, <2>3
        <3> QED  BY <1>3, <2>1, <2>3, <3>1
    <2> QED  BY <2>2, <2>3
<1> QED  BY <1>4, <1>5, <1>6, <1>7 DEF n

\* What WithoutEntry leaves of a contract that has an entry.
LEMMA EntryTakenOut ==
    ASSUME CacheInv, NEW k \in DOMAIN cache
    PROVE  LET left == K!WithoutEntry(cache[k].contract)
           IN  /\ left \in Seq(Entries) /\ Len(left) = Len(cache) - 1
               /\ \A i \in 1..(Len(cache) - 1) : left[i] = cache[IF i < k THEN i ELSE i + 1]
<1>1. K!Places(cache[k].contract) = {k}  BY DEF K!Places, CacheInv
<1>2. K!WithoutEntry(cache[k].contract) = K!RemoveAt(cache, k)  BY <1>1 DEF K!WithoutEntry
<1>3. cache \in Seq(Entries)  BY DEF CacheInv
<1> HIDE DEF Entries
<1> QED  BY <1>2, <1>3, EntryRemoved

LEMMA CacheInit == K!Init => CacheInv
<1> SUFFICES ASSUME K!Init PROVE CacheInv  OBVIOUS
<1>1. cache = <<>> /\ promise = <<>>  BY DEF K!Init
<1>2. \A S : <<>> \in Seq(S)  OBVIOUS
<1> QED  BY <1>1, <1>2, CacheHasRoom DEF CacheInv

\* A cache that is made of entries that were in it, once each.
LEMMA CacheIsOld ==
    ASSUME CacheInv, promise' = promise, cache' \in Seq(Entries), Len(cache') <= CacheSize,
           NEW place, \A i \in DOMAIN cache' : place[i] \in DOMAIN cache /\ cache'[i] = cache[place[i]],
           \A i, j \in DOMAIN cache' : place[i] = place[j] => i = j
    PROVE  CacheInv'
<1>1. ASSUME NEW i \in DOMAIN cache', NEW j \in DOMAIN cache', cache'[i].contract = cache'[j].contract PROVE i = j
    <2>1. cache'[i] = cache[place[i]] /\ cache'[j] = cache[place[j]]  OBVIOUS
    <2>2. place[i] \in DOMAIN cache /\ place[j] \in DOMAIN cache  OBVIOUS
    <2>3. place[i] = place[j]  BY <1>1, <2>1, <2>2 DEF CacheInv
    <2> QED  BY <2>3
<1>2. ASSUME NEW i \in DOMAIN cache'
      PROVE  /\ cache'[i].promise \in DOMAIN promise'
             /\ promise'[cache'[i].promise].contract = cache'[i].contract
             /\ promise'[cache'[i].promise].step # "handled"
    <2>1. cache'[i] = cache[place[i]] /\ place[i] \in DOMAIN cache  OBVIOUS
    <2> QED  BY <2>1 DEF CacheInv
<1>3. promise' \in Seq([step : TokenSteps, contract : Contracts])  BY DEF CacheInv
<1> QED  BY <1>1, <1>2, <1>3 DEF CacheInv, Entries, TokenSteps

LEMMA HitHolds == ASSUME CacheInv, NEW c \in Contracts, K!Hit(c) PROVE CacheInv' /\ KeepsTokens
<1>1. PICK k \in DOMAIN cache : cache[k].contract = c /\ cache' = Append(K!WithoutEntry(c), cache[k])
    BY DEF K!Hit, K!Places
<1>2. promise' = promise  BY DEF K!Hit
<1> DEFINE left == K!WithoutEntry(c)
           n == Len(cache)
           place == [i \in 1..n |-> IF i = n THEN k ELSE IF i < k THEN i ELSE i + 1]
<1>3. left \in Seq(Entries) /\ Len(left) = n - 1 /\ \A i \in 1..(n - 1) : left[i] = cache[IF i < k THEN i ELSE i + 1]
    BY <1>1, EntryTakenOut
<1>4. cache \in Seq(Entries) /\ n \in Nat /\ n <= CacheSize /\ k \in 1..n /\ DOMAIN cache = 1..n /\ cache[k] \in Entries
    <2>1. cache \in Seq(Entries) /\ n <= CacheSize  BY DEF CacheInv
    <2> HIDE DEF Entries
    <2>2. Len(cache) \in Nat /\ DOMAIN cache = 1..Len(cache)  BY <2>1
    <2>3. cache[k] \in Entries  BY <2>1
    <2> QED  BY <2>1, <2>2, <2>3
<1> HIDE DEF left, n
<1>5. cache' \in Seq(Entries) /\ Len(cache') = n /\ \A i \in 1..n : cache'[i] = IF i = n THEN cache[k] ELSE left[i]
    <2>1. cache' = Append(left, cache[k])  BY <1>1 DEF left
    <2> HIDE DEF Entries
    <2> QED  BY <1>3, <1>4, <2>1
<1>6. DOMAIN cache' = 1..n  BY <1>5
<1>7. \A i \in 1..n : place[i] \in DOMAIN cache /\ cache'[i] = cache[place[i]]
    <2> SUFFICES ASSUME NEW i \in 1..n PROVE place[i] \in DOMAIN cache /\ cache'[i] = cache[place[i]]
        OBVIOUS
    <2>1. CASE i = n  BY <1>4, <1>5, <2>1
    <2>2. CASE i # n
        <3>1. i \in 1..(n - 1)  BY <1>4, <2>2
        <3> QED  BY <1>3, <1>4, <1>5, <2>2, <3>1
    <2> QED  BY <2>1, <2>2
<1>8. \A i, j \in 1..n : place[i] = place[j] => i = j
    BY <1>4
<1>9. \A j \in 1..n : \E i \in 1..n : place[i] = j
    <2> TAKE j \in 1..n
    <2>1. CASE j = k  BY <1>4, <2>1
    <2>2. CASE j < k  BY <1>4, <2>2
    <2>3. CASE j > k
        <3>1. j - 1 \in 1..n /\ place[j - 1] = j  BY <1>4, <2>3
        <3> QED  BY <3>1
    <2> QED  BY <1>4, <2>1, <2>2, <2>3
<1> HIDE DEF place
<1>10. CacheInv'
    <2>1. cache' \in Seq(Entries) /\ Len(cache') <= CacheSize  BY <1>4, <1>5
    <2>2. \A i \in DOMAIN cache' : place[i] \in DOMAIN cache /\ cache'[i] = cache[place[i]]  BY <1>6, <1>7
    <2>3. \A i, j \in DOMAIN cache' : place[i] = place[j] => i = j  BY <1>6, <1>8
    <2> HIDE DEF Entries
    <2> QED  BY <1>2, <2>1, <2>2, <2>3, CacheIsOld
<1>11. \A p : K!InCache(p) => K!InCache(p)'
    <2> SUFFICES ASSUME NEW p, K!InCache(p) PROVE K!InCache(p)'  OBVIOUS
    <2>1. PICK j \in 1..n : cache[j].promise = p  BY <1>4 DEF K!InCache
    <2>2. PICK i \in 1..n : place[i] = j  BY <1>9
    <2> QED  BY <1>6, <1>7, <2>1, <2>2 DEF K!InCache
<1> QED  BY <1>10, <1>11 DEF KeepsTokens

LEMMA MissHolds == ASSUME CacheInv, NEW c \in Contracts, K!Miss(c) PROVE CacheInv' /\ KeepsTokens
<1> DEFINE n == Len(cache)
           p0 == Len(promise) + 1
           new == [contract |-> c, promise |-> p0]
           longer == Append(cache, new)
           fresh == [step |-> "decimals", contract |-> c]
           Promises == [step : TokenSteps, contract : Contracts]
<1>1. /\ \A i \in DOMAIN cache : cache[i].contract # c
      /\ promise' = Append(promise, fresh)
      /\ cache' = IF Len(longer) > CacheSize THEN Tail(longer) ELSE longer
    BY DEF K!Miss, K!Places
<1>2. promise \in Seq(Promises) /\ cache \in Seq(Entries) /\ n <= CacheSize
    BY DEF CacheInv
<1>3. fresh \in Promises /\ p0 \in Nat /\ new \in Entries /\ new.contract = c /\ new.promise = p0
    BY <1>2 DEF Entries, TokenSteps
<1>4. n \in Nat /\ DOMAIN cache = 1..n /\ CacheSize \in Nat \ {0}
    BY <1>2, CacheHasRoom
<1>5. /\ promise' \in Seq(Promises) /\ Len(promise') = p0 /\ promise'[p0] = fresh
      /\ \A p \in DOMAIN promise : p \in DOMAIN promise' /\ promise'[p] = promise[p]
      /\ p0 \in DOMAIN promise' /\ p0 \notin DOMAIN promise
    <2> HIDE DEF Promises, fresh
    <2> QED  BY <1>1, <1>2, <1>3
<1>6. /\ longer \in Seq(Entries) /\ Len(longer) = n + 1 /\ longer[n + 1] = new
      /\ \A i \in 1..n : longer[i] = cache[i]
    <2> HIDE DEF Entries, new
    <2> QED  BY <1>2, <1>3, <1>4
<1>7. ASSUME NEW i \in 1..(n + 1)
      PROVE  /\ longer[i].promise \in DOMAIN promise'
             /\ promise'[longer[i].promise].contract = longer[i].contract
             /\ promise'[longer[i].promise].step # "handled"
    <2>1. CASE i = n + 1  BY <1>3, <1>5, <1>6, <2>1
    <2>2. CASE i # n + 1
        <3>1. i \in 1..n  BY <1>4, <2>2
        <3>2. longer[i] = cache[i] /\ cache[i].promise \in DOMAIN promise
            BY <1>4, <1>6, <3>1 DEF CacheInv
        <3>3. promise'[cache[i].promise] = promise[cache[i].promise] /\ cache[i].promise \in DOMAIN promise'
            BY <1>5, <3>2
        <3> QED  BY <1>4, <3>1, <3>2, <3>3 DEF CacheInv
    <2> QED  BY <2>1, <2>2
<1>8. \A i, j \in 1..(n + 1) : longer[i].contract = longer[j].contract => i = j
    <2> SUFFICES ASSUME NEW i \in 1..(n + 1), NEW j \in 1..(n + 1), longer[i].contract = longer[j].contract PROVE i = j
        OBVIOUS
    <2>1. i = n + 1 \/ i \in 1..n  BY <1>4
    <2>2. j = n + 1 \/ j \in 1..n  BY <1>4
    <2>3. \A k \in 1..n : longer[k].contract = cache[k].contract /\ cache[k].contract # c  BY <1>1, <1>4, <1>6
    <2>4. longer[n + 1].contract = c  BY <1>3, <1>6
    <2>5. \A k, l \in 1..n : cache[k].contract = cache[l].contract => k = l  BY <1>4 DEF CacheInv
    <2> QED  BY <2>1, <2>2, <2>3, <2>4, <2>5
<1> HIDE DEF longer, new, fresh, p0
<1>9. CASE Len(longer) <= CacheSize
    <2>1. cache' = longer  BY <1>1, <1>4, <1>6, <1>9
    <2>2. DOMAIN cache' = 1..(n + 1)  BY <1>6, <2>1
    <2>3. CacheInv'
        <3> HIDE DEF n
        <3> QED BY <1>5, <1>6, <1>7, <1>8, <1>9, <2>1, <2>2 DEF CacheInv, Entries, TokenSteps
    <2>4. \A p : K!InCache(p) => K!InCache(p)'
        <3> SUFFICES ASSUME NEW p, K!InCache(p) PROVE K!InCache(p)'  OBVIOUS
        <3>1. PICK j \in 1..n : cache[j].promise = p  BY <1>4 DEF K!InCache
        <3>2. j \in DOMAIN cache' /\ cache'[j].promise = p  BY <1>4, <1>6, <2>1, <2>2, <3>1
        <3> QED  BY <3>2 DEF K!InCache
    <2> QED  BY <2>3, <2>4 DEF KeepsTokens
<1>10. CASE Len(longer) > CacheSize
    <2>0. n = CacheSize
        <3>1. n + 1 > CacheSize /\ n <= CacheSize  BY <1>2, <1>6, <1>10
        <3> HIDE DEF n
        <3> QED  BY <1>4, <3>1
    <2>1. cache' = Tail(longer) /\ n = CacheSize  BY <1>1, <1>10, <2>0
    <2>2. cache' \in Seq(Entries) /\ Len(cache') = n /\ \A i \in 1..n : cache'[i] = longer[i + 1]
        <3> HIDE DEF Entries, n
        <3> QED  BY <1>4, <1>6, <2>1
    <2>3. DOMAIN cache' = 1..n  BY <1>4, <2>2
    <2>4. \A i \in 1..n : i + 1 \in 1..(n + 1)  BY <1>4
    <2>5. \A i \in 1..n : /\ cache'[i].promise \in DOMAIN promise'
                          /\ promise'[cache'[i].promise].contract = cache'[i].contract
                          /\ promise'[cache'[i].promise].step # "handled"
        BY <1>7, <2>2, <2>4
    <2>6. \A i, j \in 1..n : cache'[i].contract = cache'[j].contract => i = j
        <3> TAKE i \in 1..n, j \in 1..n
        <3>1. cache'[i] = longer[i + 1] /\ cache'[j] = longer[j + 1]  BY <2>2
        <3>2. cache'[i].contract = cache'[j].contract => i + 1 = j + 1  BY <1>8, <2>4, <3>1
        <3> QED  BY <1>4, <3>2
    <2>7. CacheInv'
        <3> HIDE DEF n
        <3> QED  BY <1>2, <1>5, <2>1, <2>2, <2>3, <2>5, <2>6 DEF CacheInv, Entries, TokenSteps
    <2>8. ASSUME NEW p, K!InCache(p), ~K!InCache(p)' PROVE cache[1].promise = p
        <3>1. PICK j \in 1..n : cache[j].promise = p  BY <1>4, <2>8 DEF K!InCache
        <3>2. CASE j = 1  BY <3>1, <3>2
        <3>3. CASE j # 1
            <4>1. j - 1 \in 1..n /\ (j - 1) + 1 = j  BY <1>4, <3>3
            <4>2. cache'[j - 1] = cache[j]  BY <1>6, <2>2, <4>1
            <4> QED  BY <2>3, <2>8, <3>1, <4>1, <4>2 DEF K!InCache
        <3> QED  BY <3>2, <3>3
    <2> QED  BY <2>1, <2>7, <2>8 DEF KeepsTokens
<1> QED  BY <1>4, <1>6, <1>9, <1>10

\* A promise goes on, or is forgotten by its handler.
LEMMA PromiseGoesOn ==
    ASSUME CacheInv, NEW p \in DOMAIN promise, NEW to \in TokenSteps,
           promise' = [promise EXCEPT ![p].step = to]
    PROVE  /\ promise' \in Seq([step : TokenSteps, contract : Contracts]) /\ DOMAIN promise' = DOMAIN promise
           /\ \A q \in DOMAIN promise : promise'[q].contract = promise[q].contract
           /\ \A q \in DOMAIN promise : promise'[q].step = IF q = p THEN to ELSE promise[q].step
<1> DEFINE Promises == [step : TokenSteps, contract : Contracts]
           now == [promise[p] EXCEPT !.step = to]
<1>1. promise \in Seq(Promises)  BY DEF CacheInv
<1>2. promise[p] \in Promises /\ now \in Promises /\ now.step = to /\ now.contract = promise[p].contract
    <2>1. \A f \in Promises : LET g == [f EXCEPT !.step = to]
                             IN  g \in Promises /\ g.step = to /\ g.contract = f.contract
        OBVIOUS
    <2>2. promise[p] \in Promises
        <3> HIDE DEF Promises
        <3> QED  BY <1>1
    <2> QED  BY <2>1, <2>2
<1>3. promise' = [promise EXCEPT ![p] = now]  OBVIOUS
<1> HIDE DEF Promises, now
<1>4. promise' \in Seq(Promises)
    <2>1. Len(promise) \in Nat /\ DOMAIN promise = 1..Len(promise)  BY <1>1
    <2>2. [promise EXCEPT ![p] = now] \in Seq(Promises)  BY <1>1, <1>2, ExceptSeq
    <2> QED  BY <1>3, <2>2
<1>5. DOMAIN promise' = DOMAIN promise /\ \A q \in DOMAIN promise : promise'[q] = IF q = p THEN now ELSE promise[q]
    BY <1>3
<1>6. \A q \in DOMAIN promise : promise'[q].contract = promise[q].contract
    BY <1>2, <1>5
<1>7. \A q \in DOMAIN promise : promise'[q].step = IF q = p THEN to ELSE promise[q].step
    BY <1>2, <1>5
<1> QED  BY <1>4, <1>5, <1>6, <1>7 DEF Promises

LEMMA CallHolds == ASSUME CacheInv, NEW p \in DOMAIN promise, K!Call(p) PROVE CacheInv' /\ KeepsTokens
<1>1. cache' = cache  BY DEF K!Call
<1>2. PICK to \in {"symbol", "resolved", "rejected"} : promise' = [promise EXCEPT ![p].step = to]
    BY DEF K!Call
<1>3. to \in TokenSteps /\ to # "handled"  BY DEF TokenSteps
<1>4. CacheInv'
    <2> DEFINE Promises == [step : TokenSteps, contract : Contracts]
    <2>1. /\ promise' \in Seq(Promises) /\ DOMAIN promise' = DOMAIN promise
          /\ \A q \in DOMAIN promise : promise'[q].contract = promise[q].contract
          /\ \A q \in DOMAIN promise : promise'[q].step = IF q = p THEN to ELSE promise[q].step
        BY <1>2, <1>3, PromiseGoesOn
    <2> QED  BY <1>1, <1>3, <2>1 DEF CacheInv, Entries, TokenSteps
<1>5. \A q : K!InCache(q)' <=> K!InCache(q)  BY <1>1 DEF K!InCache
<1> QED  BY <1>4, <1>5 DEF KeepsTokens

LEMMA HandleHolds == ASSUME CacheInv, NEW p \in DOMAIN promise, K!Handle(p) PROVE CacheInv' /\ KeepsTokens
<1> DEFINE c == promise[p].contract
           n == Len(cache)
           Promises == [step : TokenSteps, contract : Contracts]
<1>1. /\ promise[p].step = "rejected" /\ promise' = [promise EXCEPT ![p].step = "handled"]
      /\ cache' = IF \E i \in K!Places(c) : cache[i].promise = p THEN K!WithoutEntry(c) ELSE cache
    BY DEF K!Handle
<1>2. /\ promise' \in Seq(Promises) /\ DOMAIN promise' = DOMAIN promise
      /\ \A q \in DOMAIN promise : promise'[q].contract = promise[q].contract
      /\ \A q \in DOMAIN promise : promise'[q].step = IF q = p THEN "handled" ELSE promise[q].step
    BY <1>1, PromiseGoesOn DEF TokenSteps
<1>3. cache \in Seq(Entries) /\ n \in Nat /\ DOMAIN cache = 1..n /\ n <= CacheSize  BY DEF CacheInv
<1>4. CASE \A k \in DOMAIN cache : cache[k].promise # p
    <2>1. cache' = cache  BY <1>1, <1>4 DEF K!Places
    <2>2. CacheInv'  BY <1>2, <1>4, <2>1 DEF CacheInv, Entries, TokenSteps
    <2>3. \A q : K!InCache(q)' <=> K!InCache(q)  BY <2>1 DEF K!InCache
    <2> QED  BY <2>2, <2>3 DEF KeepsTokens
<1>5. CASE \E k \in DOMAIN cache : cache[k].promise = p
    <2>1. PICK k \in DOMAIN cache : cache[k].promise = p  BY <1>5
    <2>2. cache[k].contract = c  BY <2>1 DEF CacheInv
    <2>3. cache' = K!WithoutEntry(c)  BY <1>1, <2>1, <2>2 DEF K!Places
    <2>4. cache' \in Seq(Entries) /\ Len(cache') = n - 1 /\ \A i \in 1..(n - 1) : cache'[i] = cache[IF i < k THEN i ELSE i + 1]
        BY <2>2, <2>3, EntryTakenOut
    <2>5. k \in 1..n /\ DOMAIN cache' = 1..(n - 1)  BY <1>3, <2>4
    <2>6. ASSUME NEW i \in 1..(n - 1)
          PROVE \E j \in 1..n : j # k /\ j = (IF i < k THEN i ELSE i + 1) /\ cache'[i] = cache[j]
        <3>1. CASE i < k  BY <1>3, <2>4, <2>5, <3>1
        <3>2. CASE ~(i < k)  BY <1>3, <2>4, <2>5, <3>2
        <3> QED  BY <3>1, <3>2
    <2>7. \A j \in 1..n : j # k => cache[j].promise # p  BY <1>3, <2>1, <2>2 DEF CacheInv
    <2>8. ASSUME NEW i \in 1..(n - 1)
          PROVE  /\ cache'[i].promise \in DOMAIN promise'
                 /\ promise'[cache'[i].promise].contract = cache'[i].contract
                 /\ promise'[cache'[i].promise].step # "handled"
        <3>1. PICK j \in 1..n : j # k /\ cache'[i] = cache[j]  BY <2>6
        <3> DEFINE q == cache[j].promise
        <3>2. q # p  BY <2>7, <3>1
        <3>3. q \in DOMAIN promise /\ promise[q].contract = cache[j].contract /\ promise[q].step # "handled"
            BY <1>3, <3>1 DEF CacheInv
        <3>4. promise'[q].contract = cache[j].contract /\ promise'[q].step = promise[q].step /\ q \in DOMAIN promise'
            BY <1>2, <3>2, <3>3
        <3> QED  BY <3>1, <3>3, <3>4
    <2>9. ASSUME NEW i \in 1..(n - 1), NEW j \in 1..(n - 1), cache'[i].contract = cache'[j].contract PROVE i = j
        <3>1. PICK a \in 1..n : a = (IF i < k THEN i ELSE i + 1) /\ cache'[i] = cache[a]  BY <2>6
        <3>2. PICK b \in 1..n : b = (IF j < k THEN j ELSE j + 1) /\ cache'[j] = cache[b]  BY <2>6
        <3>3. a = b  BY <1>3, <2>9, <3>1, <3>2 DEF CacheInv
        <3> QED  BY <1>3, <2>5, <3>1, <3>2, <3>3
    <2>10. CacheInv'
        <3>1. n - 1 <= CacheSize /\ CacheSize \in Nat  BY <1>3, CacheHasRoom
        <3> HIDE DEF n
        <3> QED  BY <1>2, <2>4, <2>5, <2>8, <2>9, <3>1 DEF CacheInv, Entries, TokenSteps
    <2>11. ASSUME NEW q, K!InCache(q), ~K!InCache(q)' PROVE q = p
        <3>1. PICK j \in 1..n : cache[j].promise = q  BY <1>3, <2>11 DEF K!InCache
        <3>2. CASE j = k  BY <2>1, <3>1, <3>2
        <3>3. CASE j < k
            <4>1. j \in 1..(n - 1) /\ cache'[j] = cache[j]  BY <1>3, <2>4, <2>5, <3>3
            <4> QED  BY <2>5, <2>11, <3>1, <4>1 DEF K!InCache
        <3>4. CASE j > k
            <4>1. j - 1 \in 1..(n - 1) /\ ~(j - 1 < k) /\ (j - 1) + 1 = j  BY <1>3, <2>5, <3>4
            <4>2. cache'[j - 1] = cache[j]  BY <2>4, <4>1
            <4> QED  BY <2>5, <2>11, <3>1, <4>1, <4>2 DEF K!InCache
        <3> QED  BY <1>3, <2>5, <3>2, <3>3, <3>4
    <2> QED  BY <1>1, <2>10, <2>11 DEF KeepsTokens
<1> QED  BY <1>4, <1>5

LEMMA CacheStep == CacheInv /\ [K!Next]_(K!vars) => CacheInv' /\ [KeepsTokens]_(K!vars)
<1> SUFFICES ASSUME CacheInv, [K!Next]_(K!vars) PROVE CacheInv' /\ [KeepsTokens]_(K!vars)  OBVIOUS
<1>1. CASE UNCHANGED K!vars
    <2>1. cache' = cache /\ promise' = promise  BY <1>1 DEF K!vars
    <2> QED  BY <1>1, <2>1 DEF CacheInv, Entries, TokenSteps
<1> QED  BY <1>1, HitHolds, MissHolds, CallHolds, HandleHolds DEF K!Next

\* A failure is forgotten once its handler ran, and nothing else is but the oldest entry
\* of a cache that is full: for any contracts, any size, and any order of calls, failures
\* and handlers.
THEOREM CacheIsKept == MCSpec => CacheHolds
<1>1. MCInit => CacheInv  BY CacheInit DEF MCInit
<1>2. [MCNext]_<<scene, vars, tokenVars, changeVars, trustVars>> => [K!Next]_(K!vars)
    BY DEF MCNext, tokenVars, K!vars
<1>3. CacheInv => K!CacheForgetsFailures
    <2> SUFFICES ASSUME CacheInv, NEW p \in DOMAIN promise, promise[p].step = "handled" PROVE ~K!InCache(p)
        BY DEF K!CacheForgetsFailures, CacheInv
    <2> QED  BY DEF CacheInv, K!InCache
<1>4. MCSpec => []CacheInv /\ [][KeepsTokens]_(K!vars)
    BY <1>1, <1>2, CacheStep, PTL DEF MCSpec
<1>5. MCSpec => []K!CacheForgetsFailures  BY <1>3, <1>4, PTL
<1>6. MCSpec => K!CacheKeepsTokens  BY <1>4 DEF K!CacheKeepsTokens, KeepsTokens
<1> QED  BY <1>5, <1>6, PTL DEF CacheHolds, K!CacheHolds
-----------------------------------------------------------------------------
(* Balance changes (StellarChanges).                                       *)

\* The operators of BalanceChanges, as the instance has them.
LEMMA SameUpsert == \A had, w, a, n : C!upsert(had, w, a, n) = upsert(had, w, a, n)
BY DEF C!upsert, upsert, C!Gained, C!RowOf, C!NoChanges, C!Has, Gained, RowOf, NoChanges, Has,
       C!With, C!Without, With, Without

LEMMA SameGained == \A had, w, a : C!Gained(had, w, a) = Gained(had, w, a)
BY DEF C!Gained, C!RowOf, C!NoChanges, C!Has, Gained, RowOf, NoChanges, Has

LEMMA SameNormal == \A had : C!Normal(had) <=> Normal(had)
BY DEF C!Normal, Normal

\* The rows of deltas that pass a filter.
DeltaRows(deltas, by) ==
    [p \in DOMAIN deltas |-> [wallet |-> deltas[p].wallet, asset |-> deltas[p].asset,
                              amount |-> deltas[p].amount, skip |-> ~C!Passes(deltas[p], by)]]

LEMMA FilteredIsGathered ==
    ASSUME NEW deltas, NEW by
    PROVE  C!Filtered(deltas, by) = Gathered(NoChanges, DeltaRows(deltas, by), DOMAIN deltas)
<1> DEFINE S == DOMAIN deltas
           One(p, had) ==
               IF C!Passes(deltas[p], by)
               THEN C!upsert(had, deltas[p].wallet, deltas[p].asset, deltas[p].amount) ELSE had
           E(g) == [s \in SUBSET S |-> IF s = {} THEN C!NoChanges ELSE One(Pick(s), g[s \ {Pick(s)}])]
           F(g) == Gather(NoChanges, DeltaRows(deltas, by), SUBSET S, g)
<1>1. C!Filtered(deltas, by) = (CHOOSE g : g = E(g))[S]
    BY DEF C!Filtered, C!FoldSet, C!MapThenFoldSet, Pick
<1>2. \A g : E(g) = F(g)
    <2> SUFFICES ASSUME NEW g, NEW s \in SUBSET S, s # {}
                 PROVE  One(Pick(s), g[s \ {Pick(s)}]) = Add(DeltaRows(deltas, by)[Pick(s)], g[s \ {Pick(s)}])
        BY DEF Gather, C!NoChanges, NoChanges
    <2>1. Pick(s) \in S  BY PickIsIn
    <2>2. \A had : \A p \in S : One(p, had) = Add(DeltaRows(deltas, by)[p], had)
        BY SameUpsert DEF Add, DeltaRows
    <2> QED  BY <2>1, <2>2
<1>3. (CHOOSE g : g = E(g)) = (CHOOSE g : g = F(g))
    <2> HIDE DEF E, F
    <2> QED  BY <1>2
<1> QED  BY <1>1, <1>3 DEF Gathered

\* What each delta counts for in an asset of a wallet.
CountsFor(deltas, by, w, a) ==
    [p \in DOMAIN deltas |->
       IF w \in by.wallets /\ a \in by.assets /\ deltas[p].wallet = w /\ deltas[p].asset = a
       THEN deltas[p].amount ELSE 0]

\* Filtered, deltas come to the sum of those that count.
LEMMA FilteredGains ==
    ASSUME NEW deltas, NEW by, IsFiniteSet(DOMAIN deltas), \A p \in DOMAIN deltas : deltas[p].amount \in Int
    PROVE  /\ Normal(C!Filtered(deltas, by)) /\ Shaped(C!Filtered(deltas, by))
           /\ \A w, a : /\ Gained(C!Filtered(deltas, by), w, a) = Sum(CountsFor(deltas, by, w, a), DOMAIN deltas)
                        /\ Sum(CountsFor(deltas, by, w, a), DOMAIN deltas) \in Int
<1> DEFINE S == DOMAIN deltas
           rows == DeltaRows(deltas, by)
           all == Gathered(NoChanges, rows, S)
<1>1. \A p \in S : rows[p].amount \in Int  BY DEF DeltaRows
<1>2. /\ Normal(all) /\ Shaped(all)
      /\ \A w, a : Gained(all, w, a) = Gained(NoChanges, w, a) + Sum([p \in S |-> Counted(rows[p], w, a)], S)
    <2> HIDE DEF rows
    <2> QED  BY <1>1, NoChangesAreShaped, GatheredGains, GatheredIsShaped
<1>3. \A w, a : Gained(NoChanges, w, a) = 0  BY DEF Gained, RowOf, Has, NoChanges
<1>4. ASSUME NEW w, NEW a
      PROVE  /\ Sum([p \in S |-> Counted(rows[p], w, a)], S) = Sum(CountsFor(deltas, by, w, a), S)
             /\ Sum(CountsFor(deltas, by, w, a), S) \in Int
    <2> DEFINE f == [p \in S |-> Counted(rows[p], w, a)]
               g == CountsFor(deltas, by, w, a)
    <2>1. ASSUME NEW p \in S PROVE f[p] = g[p] /\ g[p] \in Int
        <3> DEFINE d == deltas[p]
        <3>1. rows[p].wallet = d.wallet /\ rows[p].asset = d.asset /\ rows[p].amount = d.amount
              /\ (rows[p].skip <=> ~C!Passes(d, by))
            BY DEF DeltaRows
        <3>2. C!Passes(d, by) <=> d.wallet \in by.wallets /\ d.asset \in by.assets  BY DEF C!Passes
        <3>3. f[p] = Counted(rows[p], w, a)  OBVIOUS
        <3>4. g[p] = IF w \in by.wallets /\ a \in by.assets /\ d.wallet = w /\ d.asset = a THEN d.amount ELSE 0
            BY DEF CountsFor
        <3>5. d.amount \in Int  OBVIOUS
        <3> HIDE DEF d, rows, f, g
        <3> QED  BY <3>1, <3>2, <3>3, <3>4, <3>5 DEF Counted
    <2> HIDE DEF f, g
    <2> QED  BY <2>1, SumsAgree, SumIsInteger DEF f, g
<1>5. C!Filtered(deltas, by) = all  BY FilteredIsGathered
<1> HIDE DEF all, rows
<1>6. ASSUME NEW w, NEW a
      PROVE  Gained(all, w, a) = Sum(CountsFor(deltas, by, w, a), S)
    <2>1. Gained(all, w, a) = 0 + Sum(CountsFor(deltas, by, w, a), S)  BY <1>2, <1>3, <1>4
    <2>2. Sum(CountsFor(deltas, by, w, a), S) \in Int  BY <1>4
    <2> QED  BY <2>1, <2>2
<1> QED  BY <1>2, <1>4, <1>5, <1>6

\* The fee that is taken.
LEMMA FeeTaken ==
    ASSUME NEW changes, Normal(changes), Shaped(changes), NEW s \in Int
    PROVE  /\ Normal(C!upsertFee(changes, s)) /\ Shaped(C!upsertFee(changes, s))
           /\ \A w, a : Gained(C!upsertFee(changes, s), w, a)
                        = Gained(changes, w, a) + (IF w = Source /\ a = "native" THEN -s ELSE 0)
<1>1. C!upsertFee(changes, s) = upsert(changes, Source, "native", -s)  BY SameUpsert DEF C!upsertFee
<1> QED  BY <1>1, UpsertAdds, UpsertIsShaped

\* The place of the other side of a transfer.
Flip(p) == <<p[1], 3 - p[2]>>
Pairs(n) == (1..n) \X (1..2)

LEMMA PairsAre ==
    ASSUME NEW n \in Nat
    PROVE  /\ IsFiniteSet(Pairs(n)) /\ Cardinality(Pairs(n)) = 2 * n
           /\ \A p \in Pairs(n) : Flip(p) \in Pairs(n) /\ Flip(Flip(p)) = p
           /\ \A p \in Pairs(n) : \E i \in 1..n : \E k \in 1..2 : p = <<i, k>> /\ p[1] = i /\ p[2] = k
<1>1. IsFiniteSet(1..n) /\ Cardinality(1..n) = n /\ IsFiniteSet(1..2) /\ Cardinality(1..2) = 2
    BY PlacesAreFinite
<1>2. IsFiniteSet(Pairs(n)) /\ Cardinality(Pairs(n)) = n * 2
    <2> DEFINE A == 1..n
               B == 1..2
    <2>1. IsFiniteSet(A) /\ Cardinality(A) = n /\ IsFiniteSet(B) /\ Cardinality(B) = 2  BY <1>1
    <2> HIDE DEF A, B
    <2>2. IsFiniteSet(A \X B) /\ Cardinality(A \X B) = Cardinality(A) * Cardinality(B)  BY <2>1, FS_Product
    <2> QED  BY <2>1, <2>2 DEF A, B, Pairs
<1>3. \A p \in Pairs(n) : \E i \in 1..n : \E k \in 1..2 : p = <<i, k>> /\ p[1] = i /\ p[2] = k
    BY DEF Pairs
<1>4. \A i \in 1..n, k \in 1..2 : <<i, 3 - k>> \in Pairs(n) /\ 3 - (3 - k) = k  BY DEF Pairs
<1> QED  BY <1>2, <1>3, <1>4 DEF Flip

\* Where the deltas of effects are no less than those of operations, so is what they come to.
LEMMA EffectsGainMore ==
    ASSUME NEW n \in Nat, NEW d, NEW e, DOMAIN d = Pairs(n), DOMAIN e = Pairs(n),
           \A p \in Pairs(n) : /\ d[p].amount \in Int /\ e[p].amount \in Int
                               /\ e[Flip(p)].wallet = d[p].wallet /\ e[Flip(p)].asset = d[p].asset
                               /\ e[Flip(p)].amount >= d[p].amount,
           NEW by, NEW w, NEW a
    PROVE  /\ Gained(C!Filtered(e, by), w, a) >= Gained(C!Filtered(d, by), w, a)
           /\ (\A p \in Pairs(n) : e[Flip(p)].amount = d[p].amount)
              => Gained(C!Filtered(e, by), w, a) = Gained(C!Filtered(d, by), w, a)
<1> DEFINE D == Pairs(n)
           f == CountsFor(d, by, w, a)
           g == CountsFor(e, by, w, a)
           b == [p \in D |-> Flip(p)]
           h == [p \in D |-> g[Flip(p)]]
<1>1. IsFiniteSet(D) /\ \A p \in D : Flip(p) \in D /\ Flip(Flip(p)) = p  BY PairsAre
<1>2. /\ \A p \in D : f[p] \in Int /\ g[p] \in Int /\ h[p] \in Int /\ h[p] >= f[p]
      /\ (\A p \in D : e[Flip(p)].amount = d[p].amount) => \A p \in D : h[p] = f[p]
    BY <1>1 DEF CountsFor
<1>3. Gained(C!Filtered(e, by), w, a) = Sum(g, D) /\ Gained(C!Filtered(d, by), w, a) = Sum(f, D)
    BY <1>1, FilteredGains
<1>4. Sum(h, D) = Sum(g, D)
    <2>1. \A p \in D : b[p] \in D /\ g[b[p]] = h[p] /\ h[p] \in Int  BY <1>1, <1>2
    <2>2. (\A p, q \in D : b[p] = b[q] => p = q) /\ \A q \in D : \E p \in D : b[p] = q  BY <1>1
    <2> HIDE DEF D, g, h, b
    <2> QED  BY <1>1, <2>1, <2>2, SumReindexed
<1>5. Sum(h, D) >= Sum(f, D) /\ ((\A p \in D : h[p] = f[p]) => Sum(h, D) = Sum(f, D))
    <2> HIDE DEF D, f, h
    <2> QED  BY <1>1, <1>2, SumIsMore, SumsAgree
<1> HIDE DEF f, g, h
<1> QED  BY <1>2, <1>3, <1>4, <1>5

\* Transfers, whose two sides cancel, add up to the fee that is taken beside them.
LEMMA TransfersAddUp ==
    ASSUME NEW d, IsFiniteSet(DOMAIN d), NEW by, "native" \in by.assets, NEW s \in Int,
           \A p \in DOMAIN d : /\ Flip(p) \in DOMAIN d /\ Flip(Flip(p)) = p /\ d[p].wallet \in by.wallets
                               /\ d[Flip(p)].asset = d[p].asset
                               /\ d[p].amount \in Int /\ d[Flip(p)].amount = -d[p].amount
    PROVE  LET told1 == C!upsertFee(C!Filtered(d, by), s)
           IN  Normal(told1) /\ Sum([w \in DOMAIN told1 |-> Gained(told1, w, "native")], DOMAIN told1) = -s
<1> DEFINE D == DOMAIN d
           before == C!Filtered(d, by)
           after == C!upsertFee(before, s)
           wallet == [p \in D |-> d[p].wallet]
           Ws == {wallet[p] : p \in D} \cup {Source}
           v == [p \in D |-> IF d[p].asset = "native" THEN d[p].amount ELSE 0]
           g == [w \in Ws |-> Sum(v, {p \in D : wallet[p] = w})]
           f == [w \in Ws |-> Gained(after, w, "native")]
           t == [w \in DOMAIN after |-> Gained(after, w, "native")]
<1>1. /\ Normal(before) /\ Shaped(before)
      /\ \A w, a : /\ Gained(before, w, a) = Sum(CountsFor(d, by, w, a), D)
                   /\ Sum(CountsFor(d, by, w, a), D) \in Int
    BY FilteredGains
<1>2. /\ Normal(after) /\ Shaped(after)
      /\ \A w, a : Gained(after, w, a) = Gained(before, w, a) + (IF w = Source /\ a = "native" THEN -s ELSE 0)
    <2> HIDE DEF before
    <2> QED  BY <1>1, FeeTaken
<1>3. IsFiniteSet(Ws) /\ Source \in Ws /\ \A p \in D : wallet[p] \in Ws
    <2>1. IsFiniteSet({wallet[p] : p \in D})
        <3> HIDE DEF wallet
        <3> QED  BY ImageIsFinite
    <2> QED  BY <2>1, FS_AddElement
<1>4. \A p \in D : v[p] \in Int  OBVIOUS
<1>5. ASSUME NEW w PROVE Gained(before, w, "native") = Sum(v, {p \in D : wallet[p] = w})
    <2> DEFINE S == {p \in D : wallet[p] = w}
               c == CountsFor(d, by, w, "native")
    <2>1. IsFiniteSet(S) /\ S \in SUBSET D  BY FS_Subset
    <2>2. (\A p \in D : c[p] \in Int) /\ (\A p \in D \ S : c[p] = 0) /\ (\A p \in S : c[p] = v[p])
        BY DEF CountsFor
    <2> HIDE DEF S, c, v
    <2>3. Sum(c, S) = Sum(c, D)  BY <2>1, <2>2, SumWithoutZeros
    <2>4. Sum(c, S) = Sum(v, S)  BY <2>2, SumsAgree
    <2> QED  BY <1>1, <2>3, <2>4 DEF S, c
<1>6. Sum(v, D) = 0
    <2> DEFINE b == [p \in D |-> Flip(p)]
    <2>1. \A p \in D : v[p] \in Int /\ b[p] \in D /\ b[b[p]] = p /\ v[b[p]] = -v[p]  OBVIOUS
    <2> HIDE DEF b, v
    <2> QED  BY <2>1, SumCancels
<1>7. Sum(g, Ws) = Sum(v, D)
    <2> HIDE DEF v, wallet, Ws
    <2> QED  BY <1>3, <1>4, SumByClass
<1>8. \A w \in Ws : g[w] \in Int /\ g[w] = Gained(before, w, "native")
    <2> SUFFICES ASSUME NEW w \in Ws PROVE g[w] \in Int /\ g[w] = Gained(before, w, "native")
        OBVIOUS
    <2>1. g[w] = Sum(v, {p \in D : wallet[p] = w})  OBVIOUS
    <2>2. Gained(before, w, "native") \in Int  BY <1>1
    <2> HIDE DEF g, v, wallet, before
    <2> QED  BY <1>5, <2>1, <2>2
<1>9. \A w \in Ws : f[w] \in Int /\ f[w] = g[w] + (IF w = Source THEN -s ELSE 0)
    <2> SUFFICES ASSUME NEW w \in Ws PROVE f[w] \in Int /\ f[w] = g[w] + (IF w = Source THEN -s ELSE 0)
        OBVIOUS
    <2>1. f[w] = Gained(after, w, "native")  OBVIOUS
    <2> HIDE DEF f, g, Ws, after, before
    <2> QED  BY <1>2, <1>8, <2>1
<1>10. Sum(f, Ws) = -s
    <2> HIDE DEF f, g, Ws, v
    <2>1. \A w \in Ws : g[w] \in Int /\ f[w] \in Int  BY <1>8, <1>9
    <2>2. \A w \in Ws \ {Source} : g[w] = f[w]  BY <1>9, <2>1
    <2>3. Sum(f, Ws) = (Sum(g, Ws) - g[Source]) + f[Source]  BY <1>3, <2>1, <2>2, SumChanges
    <2> QED  BY <1>3, <1>6, <1>7, <1>9, <2>1, <2>3
<1>11. ASSUME NEW w \in DOMAIN after PROVE w \in Ws
    <2>1. PICK a \in DOMAIN after[w] : after[w][a] # 0
        <3> HIDE DEF after
        <3> QED  BY <1>2 DEF Normal
    <2>2. Gained(after, w, a) # 0
        <3> HIDE DEF after
        <3> QED  BY <2>1 DEF Gained, RowOf, Has
    <2>3. SUFFICES ASSUME w \notin Ws PROVE FALSE  OBVIOUS
    <2>4. Sum(CountsFor(d, by, w, a), D) = 0
        <3> DEFINE c == CountsFor(d, by, w, a)
        <3>1. \A p \in D : c[p] = 0  BY <2>3 DEF CountsFor
        <3>2. (\A p \in D : c[p] \in Int) /\ {} \in SUBSET D /\ \A p \in D \ {} : c[p] = 0  BY <3>1
        <3> HIDE DEF c
        <3>3. Sum(c, {}) = Sum(c, D)  BY <3>2, SumWithoutZeros
        <3> QED  BY <3>3, SumOfNothing DEF c
    <2>5. Gained(before, w, a) = 0  BY <1>1, <2>4
    <2>6. w # Source  BY <2>3
    <2> HIDE DEF after, before
    <2> QED  BY <1>2, <2>2, <2>5, <2>6
<1>12. \A w \in Ws \ DOMAIN after : f[w] = 0
    <2> HIDE DEF after
    <2> QED  BY DEF Gained, RowOf, Has, NoChanges
<1>13. Sum(f, DOMAIN after) = Sum(f, Ws)
    <2> DEFINE A == DOMAIN after
    <2>1. A \in SUBSET Ws /\ (\A w \in Ws : f[w] \in Int) /\ \A w \in Ws \ A : f[w] = 0  BY <1>9, <1>11, <1>12
    <2> HIDE DEF f, A, Ws
    <2>2. Sum(f, A) = Sum(f, Ws)  BY <1>3, <2>1, SumWithoutZeros
    <2> QED  BY <2>2 DEF A
<1>14. Sum(f, DOMAIN after) = Sum(t, DOMAIN after)
    <2>1. \A w \in DOMAIN after : f[w] = t[w]  BY <1>11
    <2> HIDE DEF f, t, after
    <2> QED  BY <2>1, SumsAgree
<1> QED  BY <1>2, <1>10, <1>13, <1>14

\* The deltas and effects of operations, at their places.
Opened(o) == C!Flat([i \in DOMAIN o |-> C!deltasOfOperation(o[i])])
ListOf(o) == C!Flat([i \in DOMAIN o |-> C!EffectsOf(o[i])])
Counting(o) == C!deltasOfPage(C!FirstPage(ListOf(o)))
Moved(o) == C!Flat([i \in DOMAIN o[1].events |-> C!deltasOfEvent(o[1].events[i])])

IsOps(o) == o \in Seq(Operations) /\ Len(o) \in 1..MaxOperations

LEMMA FlatIs ==
    ASSUME NEW lists
    PROVE  /\ \A p : p \in DOMAIN C!Flat(lists) <=> \E i \in DOMAIN lists : \E k \in DOMAIN lists[i] : p = <<i, k>>
           /\ \A i \in DOMAIN lists : \A k \in DOMAIN lists[i] :
                 <<i, k>> \in DOMAIN C!Flat(lists) /\ C!Flat(lists)[<<i, k>>] = lists[i][k]
BY DEF C!Flat

LEMMA FlatIsFunction == \A lists : C!Flat(lists) = [p \in DOMAIN C!Flat(lists) |-> C!Flat(lists)[p]]
BY DEF C!Flat

\* What fits on a page is on it.
LEMMA FirstPageIsAll ==
    ASSUME NEW n \in Nat, NEW list, list = [p \in DOMAIN list |-> list[p]],
           DOMAIN list \subseteq (1..n) \X (1..3), Cardinality(DOMAIN list) <= PageLimit
    PROVE  C!FirstPage(list) = list
<1> DEFINE D == DOMAIN list
           Ahead(q) == {r \in D : C!Before(r, q)}
<1>1. IsFiniteSet(D)
    <2>1. IsFiniteSet(1..n) /\ IsFiniteSet(1..3)  BY PlacesAreFinite
    <2>2. IsFiniteSet((1..n) \X (1..3))  BY <2>1, FS_Product
    <2> QED  BY <2>2, FS_Subset
<1>2. ASSUME NEW q \in D PROVE Cardinality(Ahead(q)) < PageLimit
    <2>1. q[1] \in Int /\ q[2] \in Int  OBVIOUS
    <2>2. ~C!Before(q, q)  BY <2>1 DEF C!Before
    <2>3. Ahead(q) \in SUBSET D /\ Ahead(q) # D  BY <2>2
    <2> HIDE DEF Ahead, D
    <2>4. Cardinality(Ahead(q)) \in Nat /\ Cardinality(D) \in Nat /\ Cardinality(Ahead(q)) < Cardinality(D)
        BY <1>1, <2>3, PartIsSmaller
    <2>5. Cardinality(D) <= PageLimit  BY DEF D
    <2> QED  BY <2>4, <2>5, PageHoldsPayments
<1>3. \A S : C!Cardinality(S) = Cardinality(S)  BY DEF C!Cardinality, Cardinality
<1>4. {q \in DOMAIN list : C!Cardinality({r \in DOMAIN list : C!Before(r, q)}) < PageLimit} = DOMAIN list
    BY <1>2, <1>3
<1> QED  BY <1>4 DEF C!FirstPage

\* What each kind of operation moves, and what is listed of it.
LEMMA OperationMoves ==
    ASSUME NEW op \in Operations,
           op.type \in {"payment", "pathPaymentStrictSend", "pathPaymentStrictReceive"}
    PROVE  LET d == C!deltasOfOperation(op)
               e == C!EffectsOf(op)
           IN  /\ DOMAIN d = 1..2 /\ 1..2 \subseteq DOMAIN e /\ DOMAIN e \subseteq 1..3
               /\ op.type = "payment" => DOMAIN e = 1..2
               /\ e[1].type = "account_credited" /\ e[2].type = "account_debited"
               /\ 3 \in DOMAIN e => e[3].type = "trade"
               /\ \A k \in 1..2 :
                     LET s == C!deltaOfEffect(e[3 - k])
                     IN  /\ s.wallet = d[k].wallet /\ s.asset = d[k].asset
                         /\ s.amount \in Int /\ d[k].amount \in Int /\ s.amount >= d[k].amount
                         /\ op.type = "payment" => s.amount = d[k].amount
<1>0. C!Debits = {"account_debited", "contract_debited"}  BY DEF C!Debits
<1>1. CASE op.type = "payment"
    <2>1. C!deltasOfOperation(op) = <<[wallet |-> C!SourceOf(op), asset |-> op.asset, amount |-> -op.amount],
                                      [wallet |-> op.destination, asset |-> op.asset, amount |-> op.amount]>>
        BY <1>1 DEF C!deltasOfOperation, C!Delta
    <2>2. C!EffectsOf(op) =
            <<[type |-> "account_credited", account |-> op.destination, asset |-> op.asset, amount |-> op.amount],
              [type |-> "account_debited", account |-> C!SourceOf(op), asset |-> op.asset, amount |-> op.amount]>>
        BY <1>1 DEF C!EffectsOf, C!Effect, C!Debited, C!SourceOf
    <2>3. op.amount \in Int  BY <1>1, OperationsAreFormed
    <2> DEFINE d == C!deltasOfOperation(op)
               e == C!EffectsOf(op)
    <2>4. DOMAIN d = 1..2 /\ DOMAIN e = 1..2 /\ e[1].type = "account_credited" /\ e[2].type = "account_debited"
        BY <2>1, <2>2
    <2>5. /\ C!deltaOfEffect(e[1]) = [wallet |-> op.destination, asset |-> op.asset, amount |-> op.amount]
          /\ C!deltaOfEffect(e[2]) = [wallet |-> C!SourceOf(op), asset |-> op.asset, amount |-> -op.amount]
        BY <1>0, <2>2 DEF C!deltaOfEffect, C!Delta
    <2>6. d[1] = C!deltaOfEffect(e[2]) /\ d[2] = C!deltaOfEffect(e[1])
          /\ d[1].amount \in Int /\ d[2].amount \in Int
        BY <2>1, <2>3, <2>5
    <2> HIDE DEF d, e
    <2>7. \A k \in 1..2 : (k = 1 /\ 3 - k = 2) \/ (k = 2 /\ 3 - k = 1)  OBVIOUS
    <2>8. \A k \in 1..2 : C!deltaOfEffect(e[3 - k]) = d[k] /\ d[k].amount \in Int  BY <2>6, <2>7
    <2> QED  BY <2>4, <2>8 DEF d, e
<1>2. CASE op.type \in {"pathPaymentStrictSend", "pathPaymentStrictReceive"}
    <2> DEFINE gives == IF op.type = "pathPaymentStrictSend" THEN op.amount ELSE op.sendMax
               gets == IF op.type = "pathPaymentStrictSend" THEN op.destMin ELSE op.amount
               d == C!deltasOfOperation(op)
               e == C!EffectsOf(op)
    <2>1. d = <<[wallet |-> C!SourceOf(op), asset |-> op.asset, amount |-> -gives],
                [wallet |-> op.destination, asset |-> op.destAsset, amount |-> gets]>>
        BY <1>2 DEF C!deltasOfOperation, C!Delta
    <2>2. e = <<[type |-> "account_credited", account |-> op.destination, asset |-> op.destAsset, amount |-> op.got],
                [type |-> "account_debited", account |-> C!SourceOf(op), asset |-> op.asset, amount |-> op.gave],
                [type |-> "trade", account |-> C!SourceOf(op), asset |-> op.asset, amount |-> op.gave]>>
        BY <1>2 DEF C!EffectsOf, C!Effect, C!Debited, C!SourceOf
    <2>3. gives \in Int /\ gets \in Int /\ op.gave \in Int /\ op.got \in Int /\ op.gave <= gives /\ op.got >= gets
        <3>1. CASE op.type = "pathPaymentStrictSend"
            <4>1. {op.amount, op.destMin, op.gave, op.got} \subseteq Int /\ op.gave = op.amount /\ op.got >= op.destMin
                BY <3>1, OperationsAreFormed
            <4> QED  BY <3>1, <4>1
        <3>2. CASE op.type = "pathPaymentStrictReceive"
            <4>1. {op.amount, op.sendMax, op.gave, op.got} \subseteq Int /\ op.gave <= op.sendMax /\ op.got = op.amount
                BY <3>2, OperationsAreFormed
            <4> QED  BY <3>2, <4>1
        <3> QED  BY <1>2, <3>1, <3>2
    <2> HIDE DEF gives, gets, d, e
    <2>4. DOMAIN d = 1..2 /\ DOMAIN e = 1..3 /\ e[1].type = "account_credited" /\ e[2].type = "account_debited"
          /\ e[3].type = "trade"
        BY <2>1, <2>2
    <2>5. /\ C!deltaOfEffect(e[1]) = [wallet |-> op.destination, asset |-> op.destAsset, amount |-> op.got]
          /\ C!deltaOfEffect(e[2]) = [wallet |-> C!SourceOf(op), asset |-> op.asset, amount |-> -op.gave]
        BY <1>0, <2>2 DEF C!deltaOfEffect, C!Delta
    <2> DEFINE Bounds(s, k) == /\ s.wallet = d[k].wallet /\ s.asset = d[k].asset
                               /\ s.amount \in Int /\ d[k].amount \in Int /\ s.amount >= d[k].amount
    <2>6. Bounds(C!deltaOfEffect(e[2]), 1) /\ Bounds(C!deltaOfEffect(e[1]), 2)
        BY <2>1, <2>3, <2>5
    <2> HIDE DEF Bounds
    <2>7. \A k \in 1..2 : (k = 1 /\ 3 - k = 2) \/ (k = 2 /\ 3 - k = 1)  OBVIOUS
    <2>8. \A k \in 1..2 : Bounds(C!deltaOfEffect(e[3 - k]), k)  BY <2>6, <2>7
    <2>9. op.type # "payment"  BY <1>2
    <2> QED  BY <2>4, <2>8, <2>9 DEF d, e, Bounds
<1> QED  BY <1>1, <1>2

\* Of payments, also on paths, operation and effects are two sides each.
LEMMA TransferPlaces ==
    ASSUME NEW o, IsOps(o),
           \A i \in DOMAIN o : o[i].type \in {"payment", "pathPaymentStrictSend", "pathPaymentStrictReceive"},
           (\A i \in DOMAIN o : o[i].type = "payment") \/ Cardinality(DOMAIN ListOf(o)) <= PageLimit
    PROVE  LET n == Len(o)
               d == Opened(o)
               e == Counting(o)
           IN  /\ DOMAIN d = Pairs(n) /\ DOMAIN e = Pairs(n)
               /\ \A p \in Pairs(n) : /\ d[p].amount \in Int /\ e[p].amount \in Int
                                      /\ e[Flip(p)].wallet = d[p].wallet /\ e[Flip(p)].asset = d[p].asset
                                      /\ e[Flip(p)].amount >= d[p].amount
               /\ (\A i \in DOMAIN o : o[i].type = "payment") =>
                     \A p \in Pairs(n) : e[Flip(p)].amount = d[p].amount
<1> DEFINE n == Len(o)
           D(i) == C!deltasOfOperation(o[i])
           E(i) == C!EffectsOf(o[i])
           ds == [i \in DOMAIN o |-> D(i)]
           es == [i \in DOMAIN o |-> E(i)]
           d == Opened(o)
           e == Counting(o)
           l == ListOf(o)
<1>1. n \in Nat /\ n <= MaxOperations /\ DOMAIN o = 1..n /\ \A i \in 1..n : o[i] \in Operations
    BY PageHoldsPayments DEF IsOps
<1>2. ASSUME NEW i \in 1..n
      PROVE  /\ DOMAIN D(i) = 1..2 /\ 1..2 \subseteq DOMAIN E(i) /\ DOMAIN E(i) \subseteq 1..3
             /\ o[i].type = "payment" => DOMAIN E(i) = 1..2
             /\ E(i)[1].type = "account_credited" /\ E(i)[2].type = "account_debited"
             /\ 3 \in DOMAIN E(i) => E(i)[3].type = "trade"
             /\ \A k \in 1..2 :
                   LET s == C!deltaOfEffect(E(i)[3 - k])
                   IN  /\ s.wallet = D(i)[k].wallet /\ s.asset = D(i)[k].asset
                       /\ s.amount \in Int /\ D(i)[k].amount \in Int /\ s.amount >= D(i)[k].amount
                       /\ o[i].type = "payment" => s.amount = D(i)[k].amount
    <2>1. o[i] \in Operations  BY <1>1
    <2> QED  BY <1>1, <2>1, OperationMoves
<1> HIDE DEF D, E
<1>3. DOMAIN ds = 1..n /\ DOMAIN es = 1..n /\ \A i \in 1..n : ds[i] = D(i) /\ es[i] = E(i)
    BY <1>1
<1>4. d = C!Flat(ds) /\ l = C!Flat(es)  BY DEF Opened, ListOf, D, E
<1> HIDE DEF ds, es, n
<1>5. /\ DOMAIN d = Pairs(n)
      /\ \A i \in 1..n, k \in 1..2 : d[<<i, k>>] = D(i)[k]
    <2> HIDE DEF d, D
    <2>0. /\ \A p : p \in DOMAIN d <=> \E i \in DOMAIN ds : \E k \in DOMAIN ds[i] : p = <<i, k>>
          /\ \A i \in DOMAIN ds : \A k \in DOMAIN ds[i] : d[<<i, k>>] = ds[i][k]
        BY <1>4, FlatIs
    <2>1. \A p : p \in DOMAIN d <=> \E i \in 1..n : \E k \in DOMAIN D(i) : p = <<i, k>>  BY <1>3, <2>0
    <2>2. ASSUME NEW i \in 1..n, NEW k \in DOMAIN D(i) PROVE d[<<i, k>>] = D(i)[k]
        <3>1. i \in DOMAIN ds /\ ds[i] = D(i)  BY <1>3
        <3>2. d[<<i, k>>] = ds[i][k]  BY <2>0, <3>1
        <3> QED  BY <3>1, <3>2
    <2>3. \A i \in 1..n : DOMAIN D(i) = 1..2  BY <1>2
    <2>4. \A p : p \in DOMAIN d <=> \E i \in 1..n : \E k \in 1..2 : p = <<i, k>>  BY <2>1, <2>3
    <2>5. \A p : p \in Pairs(n) <=> \E i \in 1..n : \E k \in 1..2 : p = <<i, k>>  BY DEF Pairs
    <2>6. DOMAIN d = Pairs(n)  BY <2>4, <2>5
    <2> QED  BY <2>2, <2>3, <2>6
<1>6. /\ Pairs(n) \subseteq DOMAIN l /\ DOMAIN l \subseteq (1..n) \X (1..3)
      /\ (\A i \in 1..n : o[i].type = "payment") => DOMAIN l = Pairs(n)
      /\ \A i \in 1..n : \A k \in DOMAIN E(i) : <<i, k>> \in DOMAIN l /\ l[<<i, k>>] = E(i)[k]
      /\ \A p \in DOMAIN l : \E i \in 1..n : \E k \in DOMAIN E(i) : p = <<i, k>>
      /\ l = [p \in DOMAIN l |-> l[p]]
    <2> HIDE DEF l, E
    <2>0. /\ \A p : p \in DOMAIN l <=> \E i \in DOMAIN es : \E k \in DOMAIN es[i] : p = <<i, k>>
          /\ \A i \in DOMAIN es : \A k \in DOMAIN es[i] : <<i, k>> \in DOMAIN l /\ l[<<i, k>>] = es[i][k]
        BY <1>4, FlatIs
    <2>1. \A p : p \in DOMAIN l <=> \E i \in 1..n : \E k \in DOMAIN E(i) : p = <<i, k>>  BY <1>3, <2>0
    <2>2. ASSUME NEW i \in 1..n, NEW k \in DOMAIN E(i) PROVE <<i, k>> \in DOMAIN l /\ l[<<i, k>>] = E(i)[k]
        <3>1. i \in DOMAIN es /\ es[i] = E(i)  BY <1>3
        <3>2. <<i, k>> \in DOMAIN l /\ l[<<i, k>>] = es[i][k]  BY <2>0, <3>1
        <3> QED  BY <3>1, <3>2
    <2>3. l = [p \in DOMAIN l |-> l[p]]  BY <1>4, FlatIsFunction
    <2>4. \A p \in DOMAIN l : \E i \in 1..n : \E k \in DOMAIN E(i) : p = <<i, k>>  BY <2>1
    <2>5. Pairs(n) \subseteq DOMAIN l  BY <1>2, <2>1 DEF Pairs
    <2>6. DOMAIN l \subseteq (1..n) \X (1..3)  BY <1>2, <2>4
    <2>7. ASSUME \A i \in 1..n : o[i].type = "payment" PROVE DOMAIN l = Pairs(n)
        <3>1. \A i \in 1..n : DOMAIN E(i) = 1..2  BY <1>2, <2>7
        <3>2. \A p \in DOMAIN l : \E i \in 1..n : \E k \in 1..2 : p = <<i, k>>  BY <2>4, <3>1
        <3>3. DOMAIN l \subseteq Pairs(n)  BY <3>2 DEF Pairs
        <3> QED  BY <2>5, <3>3
    <2> QED  BY <2>2, <2>3, <2>4, <2>5, <2>6, <2>7
<1>7. Cardinality(DOMAIN l) <= PageLimit
    <2>1. CASE \A i \in 1..n : o[i].type = "payment"
        <3>1. DOMAIN l = Pairs(n)  BY <1>6, <2>1
        <3>2. Cardinality(Pairs(n)) = 2 * n  BY <1>1, PairsAre
        <3> HIDE DEF l
        <3> QED  BY <1>1, <3>1, <3>2, PageHoldsPayments
    <2> QED  BY <1>1, <2>1
<1>8. C!FirstPage(l) = l
    <2> HIDE DEF l
    <2> QED  BY <1>1, <1>6, <1>7, FirstPageIsAll
<1>9. e = C!deltasOfPage(l)  BY <1>8 DEF Counting
<1> HIDE DEF l
<1>10. ASSUME NEW i \in 1..n, NEW k \in DOMAIN E(i) PROVE C!Counts(l, <<i, k>>) <=> k \in 1..2
    <2>1. l[<<i, k>>] = E(i)[k] /\ k \in 1..3  BY <1>2, <1>6
    <2>2. E(i)[1].type = "account_credited" /\ E(i)[2].type = "account_debited" /\ (k = 3 => E(i)[3].type = "trade")
        BY <1>2
    <2> QED  BY <2>1, <2>2 DEF C!Counts, C!Credits, C!Debits
<1>11. DOMAIN e = Pairs(n) /\ \A p \in Pairs(n) : e[p] = C!deltaOfEffect(l[p])
    <2>1. DOMAIN e = {q \in DOMAIN l : C!Counts(l, q)} /\ \A p \in DOMAIN e : e[p] = C!deltaOfEffect(l[p])
        BY <1>9 DEF C!deltasOfPage
    <2> HIDE DEF e
    <2>2. \A i \in 1..n : \A k \in 1..2 : k \in DOMAIN E(i)  BY <1>2
    <2>3. Pairs(n) \subseteq DOMAIN e  BY <1>6, <1>10, <2>1, <2>2 DEF Pairs
    <2>4. DOMAIN e \subseteq Pairs(n)  BY <1>6, <1>10, <2>1 DEF Pairs
    <2> QED  BY <2>1, <2>3, <2>4
<1> HIDE DEF d, e
<1>12. ASSUME NEW p \in Pairs(n)
       PROVE  /\ d[p].amount \in Int /\ e[p].amount \in Int
              /\ e[Flip(p)].wallet = d[p].wallet /\ e[Flip(p)].asset = d[p].asset
              /\ e[Flip(p)].amount >= d[p].amount
              /\ (\A i \in 1..n : o[i].type = "payment") => e[Flip(p)].amount = d[p].amount
    <2>1. PICK i \in 1..n : \E k \in 1..2 : p = <<i, k>> /\ p[1] = i /\ p[2] = k  BY <1>1, PairsAre
    <2>2. PICK k \in 1..2 : p = <<i, k>> /\ p[1] = i /\ p[2] = k  BY <2>1
    <2>3. Flip(p) = <<i, 3 - k>> /\ 3 - k \in 1..2 /\ 3 - (3 - k) = k  BY <2>2 DEF Flip
    <2>4. Flip(p) \in Pairs(n)  BY <2>3 DEF Pairs
    <2>5. k \in DOMAIN E(i) /\ 3 - k \in DOMAIN E(i)  BY <1>2, <2>3
    <2>6. /\ d[p] = D(i)[k] /\ e[p] = C!deltaOfEffect(E(i)[k])
          /\ e[Flip(p)] = C!deltaOfEffect(E(i)[3 - k])
        BY <1>5, <1>6, <1>11, <2>2, <2>3, <2>4, <2>5
    <2>7. C!deltaOfEffect(E(i)[k]).amount \in Int
        <3> DEFINE k2 == 3 - k
        <3>1. k2 \in 1..2 /\ 3 - k2 = k  BY <2>3
        <3> HIDE DEF k2
        <3>2. C!deltaOfEffect(E(i)[3 - k2]).amount \in Int  BY <1>2, <3>1
        <3> QED  BY <3>1, <3>2
    <2> QED  BY <1>2, <2>6, <2>7
<1> QED  BY <1>1, <1>5, <1>11, <1>12 DEF n, d, e

\* Of payments and created accounts the effects are transfers, whose sides cancel.
LEMMA CreationPlaces ==
    ASSUME NEW o, IsOps(o), \A i \in DOMAIN o : o[i].type \in {"payment", "createAccount"},
           NEW by, \A op \in Operations : Accounts(op) \subseteq by.wallets
    PROVE  LET n == Len(o)
               e == Counting(o)
           IN  /\ n \in Nat /\ DOMAIN e = Pairs(n)
               /\ \A p \in Pairs(n) : /\ e[p].wallet \in by.wallets /\ e[Flip(p)].asset = e[p].asset
                                      /\ e[p].amount \in Int /\ e[Flip(p)].amount = -e[p].amount
<1> DEFINE n == Len(o)
           E(i) == C!EffectsOf(o[i])
           es == [i \in DOMAIN o |-> E(i)]
           e == Counting(o)
           l == ListOf(o)
           asset(i) == IF o[i].type = "payment" THEN o[i].asset ELSE "native"
           side(i, k) == [wallet |-> IF k = 1 THEN o[i].destination ELSE C!SourceOf(o[i]),
                          asset |-> asset(i), amount |-> IF k = 1 THEN o[i].amount ELSE -o[i].amount]
<1>1. n \in Nat /\ n <= MaxOperations /\ DOMAIN o = 1..n /\ \A i \in 1..n : o[i] \in Operations
    BY PageHoldsPayments DEF IsOps
<1>2. ASSUME NEW i \in 1..n
      PROVE  /\ o[i].amount \in Int
             /\ o[i].destination \in by.wallets /\ C!SourceOf(o[i]) \in by.wallets
             /\ DOMAIN E(i) = 1..2
             /\ E(i)[1].type \in {"account_credited", "account_created"} /\ E(i)[2].type = "account_debited"
             /\ E(i)[1].type = "account_created" => \A k \in 1..2 : E(i)[k].type # "account_credited"
             /\ \A k \in 1..2 : C!deltaOfEffect(E(i)[k]) = side(i, k)
    <2>1. o[i] \in Operations /\ o[i].type \in {"payment", "createAccount"}  BY <1>1
    <2>2. o[i].amount \in Int  BY <2>1, OperationsAreFormed
    <2>3. o[i].destination \in by.wallets /\ C!SourceOf(o[i]) \in by.wallets
        <3>1. Accounts(o[i]) = {C!SourceOf(o[i]), o[i].destination}  BY <2>1 DEF Accounts
        <3>2. Accounts(o[i]) \subseteq by.wallets  BY <2>1
        <3> QED  BY <3>1, <3>2
    <2> DEFINE op == o[i]
               kind == IF op.type = "payment" THEN "account_credited" ELSE "account_created"
    <2>4. E(i) = <<[type |-> kind, account |-> op.destination, asset |-> asset(i), amount |-> op.amount],
                   [type |-> "account_debited", account |-> C!SourceOf(op), asset |-> asset(i), amount |-> op.amount]>>
        BY <2>1 DEF C!EffectsOf, C!Effect, C!Debited, C!SourceOf
    <2>5. kind \in {"account_credited", "account_created"}  OBVIOUS
    <2> HIDE DEF E, kind, asset
    <2>6. DOMAIN E(i) = 1..2 /\ E(i)[1].type = kind /\ E(i)[2].type = "account_debited"
        BY <2>4
    <2>7. C!Debits = {"account_debited", "contract_debited"}  BY DEF C!Debits
    <2>8. /\ C!deltaOfEffect(E(i)[1]) = [wallet |-> op.destination, asset |-> asset(i), amount |-> op.amount]
          /\ C!deltaOfEffect(E(i)[2]) = [wallet |-> C!SourceOf(op), asset |-> asset(i), amount |-> -op.amount]
        BY <2>4, <2>5, <2>7 DEF C!deltaOfEffect, C!Delta
    <2>9. ASSUME NEW k \in 1..2 PROVE C!deltaOfEffect(E(i)[k]) = side(i, k)
        <3>1. CASE k = 1  BY <2>8, <3>1
        <3>2. CASE k = 2  BY <2>8, <3>2
        <3> QED  BY <3>1, <3>2
    <2>10. kind = "account_created" => \A k \in 1..2 : E(i)[k].type # "account_credited"
        <3>1. \A k \in 1..2 : k = 1 \/ k = 2  OBVIOUS
        <3> QED  BY <2>6, <3>1
    <2> HIDE DEF side
    <2> QED  BY <2>2, <2>3, <2>5, <2>6, <2>9, <2>10
<1>3. DOMAIN es = 1..n /\ (\A i \in 1..n : es[i] = E(i)) /\ l = C!Flat(es)  BY <1>1 DEF ListOf
<1> HIDE DEF E, es, n, side, asset
<1>4. /\ DOMAIN l = Pairs(n)
      /\ \A i \in 1..n : \A k \in 1..2 : l[<<i, k>>] = E(i)[k]
      /\ l = [p \in DOMAIN l |-> l[p]]
    <2> HIDE DEF l
    <2>0. /\ \A p : p \in DOMAIN l <=> \E i \in DOMAIN es : \E k \in DOMAIN es[i] : p = <<i, k>>
          /\ \A i \in DOMAIN es : \A k \in DOMAIN es[i] : <<i, k>> \in DOMAIN l /\ l[<<i, k>>] = es[i][k]
        <3>1. l = C!Flat(es)  BY <1>3
        <3> QED  BY <3>1, FlatIs
    <2>5. l = [p \in DOMAIN l |-> l[p]]  BY <1>3, FlatIsFunction
    <2>1. ASSUME NEW i \in 1..n PROVE i \in DOMAIN es /\ es[i] = E(i) /\ DOMAIN es[i] = 1..2
        BY <1>2, <1>3
    <2>2. \A p : p \in DOMAIN l <=> \E i \in 1..n : \E k \in 1..2 : p = <<i, k>>  BY <1>3, <2>0, <2>1
    <2>3. \A p : p \in Pairs(n) <=> \E i \in 1..n : \E k \in 1..2 : p = <<i, k>>  BY DEF Pairs
    <2>4. DOMAIN l = Pairs(n)  BY <2>2, <2>3
    <2>6. ASSUME NEW i \in 1..n, NEW k \in 1..2 PROVE l[<<i, k>>] = E(i)[k]
        BY <2>0, <2>1
    <2> QED  BY <2>4, <2>5, <2>6
<1>5. C!FirstPage(l) = l
    <2> HIDE DEF l
    <2>1. DOMAIN l \subseteq (1..n) \X (1..3)  BY <1>4 DEF Pairs
    <2>2. Cardinality(DOMAIN l) = 2 * n  BY <1>1, <1>4, PairsAre
    <2>3. Cardinality(DOMAIN l) <= PageLimit  BY <1>1, <2>2, PageHoldsPayments
    <2> QED  BY <1>1, <1>4, <2>1, <2>3, FirstPageIsAll
<1>6. e = C!deltasOfPage(l)  BY <1>5 DEF Counting
<1> HIDE DEF l
<1>7. ASSUME NEW i \in 1..n, NEW k \in 1..2 PROVE C!Counts(l, <<i, k>>)
    <2>1. <<i, k>> \in DOMAIN l /\ l[<<i, k>>] = E(i)[k]  BY <1>4 DEF Pairs
    <2>2. E(i)[k].type \in {"account_credited", "account_debited"} \/ E(i)[k].type = "account_created"
        BY <1>2
    <2>3. CASE E(i)[k].type \in {"account_credited", "account_debited"}
        BY <2>1, <2>3 DEF C!Counts, C!Credits, C!Debits
    <2>4. CASE E(i)[k].type = "account_created"
        <3>1. \A j \in 1..2 : E(i)[j].type # "account_credited"
            <4>1. k = 1 \/ k = 2  OBVIOUS
            <4>2. E(i)[1].type = "account_created"  BY <1>2, <2>4, <4>1
            <4> QED  BY <1>2, <4>2
        <3>2. ~C!nativelyCredited(l, <<i, k>>)
            <4> SUFFICES ASSUME NEW q \in DOMAIN l, q[1] = i PROVE l[q].type # "account_credited"
                BY DEF C!nativelyCredited
            <4>1. PICK j \in 1..2 : q = <<i, j>>
                <5>1. \E m \in 1..n : \E j \in 1..2 : q = <<m, j>>  BY <1>4 DEF Pairs
                <5> QED  BY <5>1
            <4>2. l[q] = E(i)[j]  BY <1>4, <4>1
            <4> QED  BY <3>1, <4>2
        <3> QED  BY <2>1, <2>4, <3>2 DEF C!Counts
    <2> QED  BY <2>2, <2>3, <2>4
<1>8. DOMAIN e = Pairs(n) /\ \A i \in 1..n : \A k \in 1..2 : e[<<i, k>>] = side(i, k)
    <2>1. DOMAIN e = {q \in DOMAIN l : C!Counts(l, q)} /\ \A p \in DOMAIN e : e[p] = C!deltaOfEffect(l[p])
        BY <1>6 DEF C!deltasOfPage
    <2> HIDE DEF e
    <2>2. \A p \in Pairs(n) : C!Counts(l, p)
        <3> SUFFICES ASSUME NEW p \in Pairs(n) PROVE C!Counts(l, p)  OBVIOUS
        <3>1. \E i \in 1..n : \E k \in 1..2 : p = <<i, k>>  BY DEF Pairs
        <3> QED  BY <1>7, <3>1
    <2>3. DOMAIN e = Pairs(n)  BY <1>4, <2>1, <2>2
    <2>4. ASSUME NEW i \in 1..n, NEW k \in 1..2 PROVE e[<<i, k>>] = side(i, k)
        <3>1. <<i, k>> \in Pairs(n)  BY DEF Pairs
        <3>2. e[<<i, k>>] = C!deltaOfEffect(E(i)[k])  BY <1>4, <2>1, <2>3, <3>1
        <3> QED  BY <1>2, <3>2
    <2> QED  BY <2>3, <2>4
<1> HIDE DEF e
<1>9. ASSUME NEW p \in Pairs(n)
      PROVE  /\ e[p].wallet \in by.wallets /\ e[Flip(p)].asset = e[p].asset
             /\ e[p].amount \in Int /\ e[Flip(p)].amount = -e[p].amount
    <2>1. PICK i \in 1..n : \E k \in 1..2 : p = <<i, k>> /\ p[1] = i /\ p[2] = k  BY <1>1, PairsAre
    <2>2. PICK k \in 1..2 : p = <<i, k>> /\ p[1] = i /\ p[2] = k  BY <2>1
    <2>3. Flip(p) = <<i, 3 - k>> /\ 3 - k \in 1..2  BY <2>2 DEF Flip
    <2>4. e[p] = side(i, k) /\ e[Flip(p)] = side(i, 3 - k)  BY <1>8, <2>2, <2>3
    <2>5. (k = 1 /\ 3 - k = 2) \/ (k = 2 /\ 3 - k = 1)  OBVIOUS
    <2>6. /\ side(i, 1) = [wallet |-> o[i].destination, asset |-> asset(i), amount |-> o[i].amount]
          /\ side(i, 2) = [wallet |-> C!SourceOf(o[i]), asset |-> asset(i), amount |-> -o[i].amount]
        BY DEF side
    <2>7. o[i].amount \in Int /\ o[i].destination \in by.wallets /\ C!SourceOf(o[i]) \in by.wallets  BY <1>2
    <2>8. CASE k = 1 /\ 3 - k = 2
        <3>1. e[p] = side(i, 1) /\ e[Flip(p)] = side(i, 2)  BY <2>4, <2>8
        <3> QED  BY <2>6, <2>7, <3>1
    <2>9. CASE k = 2 /\ 3 - k = 1
        <3>1. e[p] = side(i, 2) /\ e[Flip(p)] = side(i, 1)  BY <2>4, <2>9
        <3> QED  BY <2>6, <2>7, <3>1
    <2> QED  BY <2>5, <2>8, <2>9
<1> QED  BY <1>1, <1>8, <1>9 DEF n, e

\* So are the transfers among the events of a contract call.
LEMMA EventPlaces ==
    ASSUME NEW o, IsOps(o), Len(o) = 1, o[1].type = "invokeHostFunction",
           NEW by, \A op \in Operations : Accounts(op) \subseteq by.wallets
    PROVE  LET e == Moved(o)
           IN  /\ IsFiniteSet(DOMAIN e)
               /\ \A p \in DOMAIN e :
                     /\ Flip(p) \in DOMAIN e /\ Flip(Flip(p)) = p
                     /\ e[p].wallet \in by.wallets /\ e[Flip(p)].asset = e[p].asset
                     /\ e[p].amount \in Int /\ e[Flip(p)].amount = -e[p].amount
<1> DEFINE op == o[1]
           E(i) == op.events[i]
           n == Len(op.events)
           D(i) == C!deltasOfEvent(E(i))
           ds == [i \in DOMAIN op.events |-> D(i)]
           e == Moved(o)
<1>1. op \in Operations  BY DEF IsOps
<1>2. n \in Nat /\ DOMAIN op.events = 1..n /\ \A i \in 1..n : E(i).type = "transfer" => E(i).amount \in Int
    <2>1. op.events = [i \in 1..n |-> op.events[i]] /\ n \in Nat
          /\ \A i \in 1..n : op.events[i].type = "transfer" => op.events[i].amount \in Int
        BY <1>1, OperationsAreFormed
    <2>2. DOMAIN op.events = 1..n
        <3> DEFINE f == op.events
                   m == n
        <3>1. f = [i \in 1..m |-> f[i]]  BY <2>1
        <3> HIDE DEF f, m
        <3>2. DOMAIN f = 1..m  BY <3>1
        <3> QED  BY <3>2 DEF f, m
    <2> QED  BY <2>1, <2>2
<1>3. \A i \in 1..n : E(i).type = "transfer" => E(i).source \in by.wallets /\ E(i).destination \in by.wallets
    <2> SUFFICES ASSUME NEW i \in 1..n, E(i).type = "transfer"
                 PROVE  E(i).source \in by.wallets /\ E(i).destination \in by.wallets
        OBVIOUS
    <2> DEFINE Transfers == {x \in {op.events[j] : j \in DOMAIN op.events} : x.type = "transfer"}
    <2>1. E(i) \in Transfers  BY <1>2
    <2>2. Accounts(op) = UNION {{x.source, x.destination} : x \in Transfers}  BY DEF Accounts
    <2>3. Accounts(op) \subseteq by.wallets  BY <1>1
    <2> HIDE DEF Transfers, E
    <2>4. E(i).source \in Accounts(op) /\ E(i).destination \in Accounts(op)  BY <2>1, <2>2
    <2> QED  BY <2>3, <2>4
<1>4. ASSUME NEW i \in 1..n
      PROVE  /\ DOMAIN D(i) = IF E(i).type = "transfer" THEN 1..2 ELSE {}
             /\ E(i).type = "transfer" =>
                  /\ D(i)[1] = [wallet |-> E(i).source, asset |-> E(i).asset, amount |-> -E(i).amount]
                  /\ D(i)[2] = [wallet |-> E(i).destination, asset |-> E(i).asset, amount |-> E(i).amount]
    BY DEF C!deltasOfEvent, C!Delta
<1>5. DOMAIN ds = 1..n /\ (\A i \in 1..n : ds[i] = D(i)) /\ e = C!Flat(ds)  BY <1>2 DEF Moved
<1> HIDE DEF op, E, D, ds, n, e
<1>6. /\ \A p : p \in DOMAIN e <=> \E i \in 1..n : \E k \in 1..2 : E(i).type = "transfer" /\ p = <<i, k>>
      /\ \A i \in 1..n : \A k \in 1..2 : E(i).type = "transfer" => e[<<i, k>>] = D(i)[k]
    <2>0. /\ \A p : p \in DOMAIN e <=> \E i \in DOMAIN ds : \E k \in DOMAIN ds[i] : p = <<i, k>>
          /\ \A i \in DOMAIN ds : \A k \in DOMAIN ds[i] : <<i, k>> \in DOMAIN e /\ e[<<i, k>>] = ds[i][k]
        <3>1. e = C!Flat(ds)  BY <1>5
        <3> QED  BY <3>1, FlatIs
    <2>1. ASSUME NEW i \in 1..n
          PROVE  i \in DOMAIN ds /\ ds[i] = D(i) /\ DOMAIN ds[i] = IF E(i).type = "transfer" THEN 1..2 ELSE {}
        BY <1>4, <1>5
    <2>2. ASSUME NEW p, NEW i \in 1..n, NEW k \in DOMAIN ds[i], p = <<i, k>>
          PROVE  k \in 1..2 /\ E(i).type = "transfer"
        BY <2>1
    <2> QED  BY <1>5, <2>0, <2>1, <2>2
<1>7. IsFiniteSet(DOMAIN e)
    <2>1. IsFiniteSet(Pairs(n))  BY <1>2, PairsAre
    <2>2. DOMAIN e \subseteq Pairs(n)  BY <1>6 DEF Pairs
    <2> QED  BY <2>1, <2>2, FS_Subset
<1>8. ASSUME NEW p \in DOMAIN e
      PROVE  /\ Flip(p) \in DOMAIN e /\ Flip(Flip(p)) = p
             /\ e[p].wallet \in by.wallets /\ e[Flip(p)].asset = e[p].asset
             /\ e[p].amount \in Int /\ e[Flip(p)].amount = -e[p].amount
    <2>1. PICK i \in 1..n : \E k \in 1..2 : E(i).type = "transfer" /\ p = <<i, k>>  BY <1>6
    <2>2. PICK k \in 1..2 : E(i).type = "transfer" /\ p = <<i, k>>  BY <2>1
    <2>3. Flip(p) = <<i, 3 - k>> /\ 3 - k \in 1..2  BY <2>2 DEF Flip
    <2>4. Flip(p) \in DOMAIN e /\ e[p] = D(i)[k] /\ e[Flip(p)] = D(i)[3 - k]  BY <1>6, <2>2, <2>3
    <2>5. Flip(Flip(p)) = p
        <3>1. Flip(Flip(p)) = <<i, 3 - (3 - k)>>  BY <2>3 DEF Flip
        <3>2. 3 - (3 - k) = k  OBVIOUS
        <3> QED  BY <2>2, <3>1, <3>2
    <2>6. (k = 1 /\ 3 - k = 2) \/ (k = 2 /\ 3 - k = 1)  OBVIOUS
    <2>7. E(i).amount \in Int /\ E(i).source \in by.wallets /\ E(i).destination \in by.wallets
        BY <1>2, <1>3, <2>2
    <2>8. /\ D(i)[1] = [wallet |-> E(i).source, asset |-> E(i).asset, amount |-> -E(i).amount]
          /\ D(i)[2] = [wallet |-> E(i).destination, asset |-> E(i).asset, amount |-> E(i).amount]
        BY <1>4, <2>2
    <2>9. CASE k = 1 /\ 3 - k = 2
        <3>1. e[p] = D(i)[1] /\ e[Flip(p)] = D(i)[2]  BY <2>4, <2>9
        <3> QED  BY <2>4, <2>5, <2>7, <2>8, <3>1
    <2>10. CASE k = 2 /\ 3 - k = 1
        <3>1. e[p] = D(i)[2] /\ e[Flip(p)] = D(i)[1]  BY <2>4, <2>10
        <3> QED  BY <2>4, <2>5, <2>7, <2>8, <3>1
    <2> QED  BY <2>6, <2>9, <2>10
<1> QED  BY <1>7, <1>8 DEF e

\* What simulateTransaction and getTransactionStatus put together, of operations and a filter.
Foretold(o, by) == C!Filtered(Opened(o), by)
Shown(o, by) == C!Filtered(Counting(o), by)
Emitted(o, by) == C!Filtered(Moved(o), by)
Called(o) == Len(o) = 1 /\ o[1].type = "invokeHostFunction"

\* Of what is applied, both accounts are kept: from the operations with the fee that was
\* offered, and from the effects or events with the fee that was charged.
ChangesInv ==
    /\ IsOps(ops) /\ ((\E i \in DOMAIN ops : ops[i].type = "invokeHostFunction") => Called(ops))
    /\ filter \in [wallets : WalletFilters, assets : AssetFilters]
    /\ fee \in Charged \cup {0}
    /\ predicted.status = "Success" =>
          predicted.changes = IF Called(ops) THEN Emitted(ops, filter)
                              ELSE C!upsertFee(Foretold(ops, filter), MaxFee)
    /\ said.status = "Success" =>
          /\ fee # 0
          /\ said.changes = C!upsertFee(IF Called(ops) THEN Emitted(ops, filter) ELSE Shown(ops, filter), fee)

LEMMA ReadsAre ==
    /\ C!IsCall <=> Called(ops)
    /\ C!balanceChangesFromOperations = Foretold(ops, filter)
    /\ C!balanceChangesFromEvents = Emitted(ops, filter)
    /\ C!effectsToBalanceChanges = Shown(ops, filter)
    /\ C!Listed = ListOf(ops)
    /\ C!Fits <=> Cardinality(DOMAIN ListOf(ops)) <= PageLimit
BY DEF C!IsCall, Called, C!balanceChangesFromOperations, Foretold, Opened, C!balanceChangesFromEvents, Emitted,
       Moved, C!EventsOf, C!effectsToBalanceChanges, Shown, Counting, C!Listed, ListOf, C!Fits,
       C!Cardinality, Cardinality

LEMMA ChangesInitHolds == C!Init => ChangesInv
<1> SUFFICES ASSUME C!Init PROVE ChangesInv  OBVIOUS
<1>1. PICK n \in 1..MaxOperations : ops \in [1..n -> Operations]  BY DEF C!Init
<1>2. n \in Nat  BY PageHoldsPayments
<1>3. ops \in Seq(Operations)  BY <1>1, <1>2, SeqDef
<1>4. Len(ops) = n
    <2>1. DOMAIN ops = 1..n /\ DOMAIN ops = 1..Len(ops) /\ Len(ops) \in Nat  BY <1>1, <1>3
    <2> QED  BY <1>2, <2>1
<1>5. IsOps(ops)  BY <1>3, <1>4 DEF IsOps
<1>6. (\E i \in DOMAIN ops : ops[i].type = "invokeHostFunction") => Called(ops)
    <2> SUFFICES ASSUME NEW i \in DOMAIN ops, ops[i].type = "invokeHostFunction" PROVE Called(ops)
        OBVIOUS
    <2>1. Len(ops) = 1  BY DEF C!Init
    <2>2. i = 1  BY <1>3, <2>1
    <2> QED  BY <2>1, <2>2 DEF Called
<1>7. /\ filter \in [wallets : WalletFilters, assets : AssetFilters]
      /\ fee = 0 /\ predicted = [status |-> "none"] /\ said = [status |-> "none"]
    BY DEF C!Init, C!None
<1> QED  BY <1>5, <1>6, <1>7 DEF ChangesInv

LEMMA ChangesStep == ChangesInv /\ [C!Next]_(C!vars) => ChangesInv'
<1> SUFFICES ASSUME ChangesInv, [C!Next]_(C!vars) PROVE ChangesInv'  OBVIOUS
<1>0. ops' = ops /\ filter' = filter
    BY DEF C!Next, C!vars, C!Simulate, C!Apply, C!GetTransactionStatus
<1>1. CASE UNCHANGED C!vars
    <2>1. UNCHANGED <<fee, predicted, said>>  BY <1>1 DEF C!vars
    <2> QED  BY <1>0, <2>1 DEF ChangesInv
<1>2. CASE C!Simulate
    <2>1. UNCHANGED <<fee, said>>  BY <1>2 DEF C!Simulate
    <2>2. \/ predicted' = [status |-> "Success",
                           changes |-> IF C!IsCall THEN C!balanceChangesFromEvents
                                       ELSE C!upsertFee(C!balanceChangesFromOperations, MaxFee)]
          \/ predicted' = [status |-> "Failed"]
        BY <1>2 DEF C!Simulate
    <2>3. predicted'.status = "Success" =>
              predicted'.changes = IF Called(ops) THEN Emitted(ops, filter)
                                   ELSE C!upsertFee(Foretold(ops, filter), MaxFee)
        BY <2>2, ReadsAre
    <2> QED  BY <1>0, <2>1, <2>3 DEF ChangesInv
<1>3. CASE C!Apply
    <2>1. fee = 0 /\ fee' \in Charged /\ UNCHANGED <<predicted, said>>  BY <1>3 DEF C!Apply
    <2> QED  BY <1>0, <2>1 DEF ChangesInv
<1>4. CASE C!GetTransactionStatus
    <2>1. fee # 0 /\ UNCHANGED <<fee, predicted>>  BY <1>4 DEF C!GetTransactionStatus
    <2>2. \/ said' = [status |-> "Success",
                      changes |-> C!upsertFee(IF C!IsCall THEN C!balanceChangesFromEvents
                                              ELSE C!effectsToBalanceChanges, fee)]
          \/ said' = [status |-> "RpcError"]
        BY <1>4 DEF C!GetTransactionStatus
    <2>3. said'.status = "Success" =>
              said'.changes = C!upsertFee(IF Called(ops) THEN Emitted(ops, filter) ELSE Shown(ops, filter), fee)
        BY <2>2, ReadsAre
    <2> QED  BY <1>0, <2>1, <2>3 DEF ChangesInv
<1> QED  BY <1>1, <1>2, <1>3, <1>4 DEF C!Next

\* The fee that was foreseen is corrected to the one that was charged.
LEMMA FeeCorrected ==
    ASSUME NEW changes, Normal(changes), Shaped(changes), NEW m \in Int, NEW s \in Int
    PROVE  LET c == C!upsertFee(C!upsertFee(changes, m), s - m)
           IN  /\ Normal(c) /\ Shaped(c)
               /\ \A w, a : Gained(c, w, a) = Gained(changes, w, a) + (IF w = Source /\ a = "native" THEN -s ELSE 0)
<1> DEFINE b == C!upsertFee(changes, m)
           c == C!upsertFee(b, s - m)
<1>1. /\ Normal(b) /\ Shaped(b)
      /\ \A w, a : Gained(b, w, a) = Gained(changes, w, a) + (IF w = Source /\ a = "native" THEN -m ELSE 0)
    BY FeeTaken
<1>2. s - m \in Int  OBVIOUS
<1> HIDE DEF b
<1>3. /\ Normal(c) /\ Shaped(c)
      /\ \A w, a : Gained(c, w, a) = Gained(b, w, a) + (IF w = Source /\ a = "native" THEN -(s - m) ELSE 0)
    BY <1>1, <1>2, FeeTaken
<1> HIDE DEF c
<1>4. ASSUME NEW w, NEW a
      PROVE  Gained(c, w, a) = Gained(changes, w, a) + (IF w = Source /\ a = "native" THEN -s ELSE 0)
    <2>1. Gained(changes, w, a) \in Int  BY GainedIsInteger
    <2> QED  BY <1>1, <1>3, <2>1
<1> QED  BY <1>3, <1>4 DEF b, c

LEMMA FeesAre == ASSUME ChangesInv PROVE fee \in Int /\ MaxFee \in Int
<1>1. fee \in Charged \cup {0}  BY DEF ChangesInv
<1> QED  BY <1>1, FeesAreNumbers

\* What was foreseen is told, or a bound on it.
LEMMA PredictionIsHeld == ASSUME ChangesInv PROVE C!PredictionHolds
<1> DEFINE foreseen == C!upsertFee(predicted.changes, fee - (IF C!IsCall THEN 0 ELSE MaxFee))
<1> SUFFICES ASSUME predicted.status = "Success", said.status = "Success"
             PROVE  /\ C!Only({"payment", "invokeHostFunction"}) => said.changes = foreseen
                    /\ C!Only({"payment", "pathPaymentStrictSend", "pathPaymentStrictReceive"}) /\ C!Fits =>
                          \A w \in filter.wallets, a \in filter.assets :
                              Gained(said.changes, w, a) >= Gained(foreseen, w, a)
    BY SameGained DEF C!PredictionHolds
<1>0. fee \in Int /\ MaxFee \in Int /\ IsOps(ops)  BY FeesAre DEF ChangesInv
<1>1. CASE Called(ops)
    <2>1. foreseen = C!upsertFee(Emitted(ops, filter), fee)
        <3>1. fee - (IF C!IsCall THEN 0 ELSE MaxFee) = fee  BY <1>0, <1>1, ReadsAre
        <3>2. predicted.changes = Emitted(ops, filter)  BY <1>1 DEF ChangesInv
        <3> QED  BY <3>1, <3>2
    <2>2. said.changes = C!upsertFee(Emitted(ops, filter), fee)  BY <1>1 DEF ChangesInv
    <2>3. ~C!Only({"payment", "pathPaymentStrictSend", "pathPaymentStrictReceive"})
        <3>1. 1 \in DOMAIN ops /\ ops[1].type = "invokeHostFunction"  BY <1>0, <1>1 DEF Called, IsOps
        <3> QED  BY <3>1 DEF C!Only
    <2> QED  BY <2>1, <2>2, <2>3
<1>2. CASE ~Called(ops)
    <2> DEFINE n == Len(ops)
               d == Opened(ops)
               e == Counting(ops)
               AllPay == \A i \in DOMAIN ops : ops[i].type = "payment"
               AllMove == \A i \in DOMAIN ops :
                              ops[i].type \in {"payment", "pathPaymentStrictSend", "pathPaymentStrictReceive"}
    <2>1. foreseen = C!upsertFee(C!upsertFee(Foretold(ops, filter), MaxFee), fee - MaxFee)
        <3>1. fee - (IF C!IsCall THEN 0 ELSE MaxFee) = fee - MaxFee  BY <1>2, ReadsAre
        <3>2. predicted.changes = C!upsertFee(Foretold(ops, filter), MaxFee)  BY <1>2 DEF ChangesInv
        <3> QED  BY <3>1, <3>2
    <2>2. said.changes = C!upsertFee(Shown(ops, filter), fee)  BY <1>2 DEF ChangesInv
    <2>3. C!Only({"payment", "invokeHostFunction"}) => AllPay
        <3>1. \A i \in DOMAIN ops : ops[i].type # "invokeHostFunction"  BY <1>2 DEF ChangesInv
        <3> QED  BY <3>1 DEF C!Only
    <2>4. C!Only({"payment", "pathPaymentStrictSend", "pathPaymentStrictReceive"}) => AllMove  BY DEF C!Only
    <2>5. ASSUME AllMove, AllPay \/ C!Fits
          PROVE  /\ Normal(foreseen) /\ Shaped(foreseen) /\ Normal(said.changes) /\ Shaped(said.changes)
                 /\ \A w, a : Gained(said.changes, w, a) >= Gained(foreseen, w, a)
                 /\ AllPay => \A w, a : Gained(said.changes, w, a) = Gained(foreseen, w, a)
        <3>1. AllPay \/ Cardinality(DOMAIN ListOf(ops)) <= PageLimit  BY <2>5, ReadsAre
        <3>2. /\ DOMAIN d = Pairs(n) /\ DOMAIN e = Pairs(n)
              /\ \A p \in Pairs(n) : /\ d[p].amount \in Int /\ e[p].amount \in Int
                                     /\ e[Flip(p)].wallet = d[p].wallet /\ e[Flip(p)].asset = d[p].asset
                                     /\ e[Flip(p)].amount >= d[p].amount
              /\ AllPay => \A p \in Pairs(n) : e[Flip(p)].amount = d[p].amount
            BY <1>0, <2>5, <3>1, TransferPlaces
        <3>3. n \in Nat /\ IsFiniteSet(Pairs(n))
            <4>1. n \in Nat  BY <1>0, PageHoldsPayments DEF IsOps
            <4> QED  BY <4>1, PairsAre
        <3> HIDE DEF d, e, n, AllPay
        <3>4. /\ Normal(C!Filtered(d, filter)) /\ Shaped(C!Filtered(d, filter))
              /\ Normal(C!Filtered(e, filter)) /\ Shaped(C!Filtered(e, filter))
              /\ \A w, a : /\ Gained(C!Filtered(d, filter), w, a) \in Int
                           /\ Gained(C!Filtered(e, filter), w, a) \in Int
            BY <3>2, <3>3, FilteredGains
        <3>5. /\ \A w, a : Gained(C!Filtered(e, filter), w, a) >= Gained(C!Filtered(d, filter), w, a)
              /\ AllPay => \A w, a : Gained(C!Filtered(e, filter), w, a) = Gained(C!Filtered(d, filter), w, a)
            <4> DEFINE More(w, a) == Gained(C!Filtered(e, filter), w, a) >= Gained(C!Filtered(d, filter), w, a)
                       Same(w, a) == Gained(C!Filtered(e, filter), w, a) = Gained(C!Filtered(d, filter), w, a)
                       AllSame == \A p \in Pairs(n) : e[Flip(p)].amount = d[p].amount
            <4>1. ASSUME NEW w, NEW a PROVE More(w, a) /\ (AllSame => Same(w, a))
                <5>1. /\ n \in Nat /\ DOMAIN d = Pairs(n) /\ DOMAIN e = Pairs(n)
                      /\ \A p \in Pairs(n) : /\ d[p].amount \in Int /\ e[p].amount \in Int
                                             /\ e[Flip(p)].wallet = d[p].wallet /\ e[Flip(p)].asset = d[p].asset
                                             /\ e[Flip(p)].amount >= d[p].amount
                    BY <3>2, <3>3
                <5> QED  BY <5>1, EffectsGainMore
            <4>2. AllPay => AllSame  BY <3>2
            <4> HIDE DEF AllSame, More, Same
            <4>3. (\A w, a : More(w, a)) /\ (AllPay => \A w, a : Same(w, a))  BY <4>1, <4>2
            <4> QED  BY <4>3 DEF More, Same
        <3>6. Foretold(ops, filter) = C!Filtered(d, filter) /\ Shown(ops, filter) = C!Filtered(e, filter)
            BY DEF Foretold, Shown, d, e
        <3>7. /\ Normal(foreseen) /\ Shaped(foreseen)
              /\ \A w, a : Gained(foreseen, w, a)
                           = Gained(C!Filtered(d, filter), w, a) + (IF w = Source /\ a = "native" THEN -fee ELSE 0)
            <4> DEFINE x == C!Filtered(d, filter)
                       c == C!upsertFee(C!upsertFee(x, MaxFee), fee - MaxFee)
            <4>1. Normal(x) /\ Shaped(x)  BY <3>4
            <4> HIDE DEF x
            <4>2. /\ Normal(c) /\ Shaped(c)
                  /\ \A w, a : Gained(c, w, a) = Gained(x, w, a) + (IF w = Source /\ a = "native" THEN -fee ELSE 0)
                BY <1>0, <4>1, FeeCorrected
            <4>3. foreseen = c  BY <2>1, <3>6 DEF x
            <4> HIDE DEF c, foreseen
            <4> QED  BY <4>2, <4>3 DEF x
        <3>8. /\ Normal(said.changes) /\ Shaped(said.changes)
              /\ \A w, a : Gained(said.changes, w, a)
                           = Gained(C!Filtered(e, filter), w, a) + (IF w = Source /\ a = "native" THEN -fee ELSE 0)
            BY <1>0, <2>2, <3>4, <3>6, FeeTaken
        <3> HIDE DEF foreseen
        <3>9. ASSUME NEW w, NEW a
              PROVE  /\ Gained(said.changes, w, a) >= Gained(foreseen, w, a)
                     /\ AllPay => Gained(said.changes, w, a) = Gained(foreseen, w, a)
            <4> DEFINE x == Gained(C!Filtered(e, filter), w, a)
                       y == Gained(C!Filtered(d, filter), w, a)
                       z == IF w = Source /\ a = "native" THEN -fee ELSE 0
            <4>1. x \in Int /\ y \in Int /\ z \in Int /\ x >= y /\ (AllPay => x = y)  BY <1>0, <3>4, <3>5
            <4>2. Gained(said.changes, w, a) = x + z /\ Gained(foreseen, w, a) = y + z  BY <3>7, <3>8
            <4> HIDE DEF x, y, z
            <4> QED  BY <4>1, <4>2
        <3> QED  BY <3>7, <3>8, <3>9
    <2>6. AllPay => AllMove  OBVIOUS
    <2> HIDE DEF AllPay, AllMove, foreseen
    <2>7. ASSUME AllPay PROVE said.changes = foreseen
        BY <2>5, <2>6, <2>7, ChangesAgree
    <2> QED  BY <2>3, <2>4, <2>5, <2>7
<1> QED  BY <1>1, <1>2

\* The sum over all wallets, as the module writes it.
LEMMA SumOfGains ==
    ASSUME NEW changes
    PROVE  C!MapThenSumSet(LAMBDA w : C!Gained(changes, w, "native"), DOMAIN changes)
           = Sum([w \in DOMAIN changes |-> Gained(changes, w, "native")], DOMAIN changes)
<1> DEFINE A == DOMAIN changes
           f == [w \in A |-> Gained(changes, w, "native")]
           E(g) == [s \in SUBSET A |-> IF s = {} THEN 0
                                       ELSE C!Gained(changes, Pick(s), "native") + g[s \ {Pick(s)}]]
<1>1. C!MapThenSumSet(LAMBDA w : C!Gained(changes, w, "native"), A) = (CHOOSE g : g = E(g))[A]
    BY DEF C!MapThenSumSet, C!MapThenFoldSet, Pick
<1>2. \A g : E(g) = Unfold(f, SUBSET A, g)
    <2>1. \A s \in SUBSET A : s # {} => f[Pick(s)] = C!Gained(changes, Pick(s), "native")
        BY PickIsIn, SameGained
    <2> HIDE DEF f, A
    <2> QED  BY <2>1 DEF Unfold
<1>3. (CHOOSE g : g = E(g)) = (CHOOSE g : g = Unfold(f, SUBSET A, g))
    <2> HIDE DEF E, f, A
    <2> QED  BY <1>2
<1>4. Sum(f, A) = (CHOOSE g : g = Unfold(f, SUBSET A, g))[A]
    <2> HIDE DEF f, A
    <2> QED  BY SumIsSolution
<1> QED  BY <1>1, <1>3, <1>4

LEMMA ChangesDoAddUp == ASSUME ChangesInv PROVE C!ChangesAddUp
<1> SUFFICES ASSUME said.status = "Success", C!Everything, C!Fits,
                    C!Only({"payment", "createAccount", "invokeHostFunction"})
             PROVE  /\ C!Normal(said.changes)
                    /\ C!MapThenSumSet(LAMBDA w : C!Gained(said.changes, w, "native"), DOMAIN said.changes) = -fee
    BY DEF C!ChangesAddUp
<1>0. fee \in Int /\ IsOps(ops)  BY FeesAre DEF ChangesInv
<1>1. "native" \in filter.assets /\ \A op \in Operations : Accounts(op) \subseteq filter.wallets
    <2>1. /\ filter \in [wallets : WalletFilters, assets : AssetFilters]
          /\ \A v \in WalletFilters : v \subseteq filter.wallets
          /\ \A b \in AssetFilters : b \subseteq filter.assets
        BY DEF ChangesInv, C!Everything
    <2>2. "native" \in filter.assets /\ UNION {Accounts(op) : op \in Operations} \subseteq filter.wallets
        BY <2>1, NoFilterIsEverything
    <2> QED  BY <2>2
<1>2. \E e : /\ said.changes = C!upsertFee(C!Filtered(e, filter), fee) /\ IsFiniteSet(DOMAIN e)
             /\ \A p \in DOMAIN e :
                   /\ Flip(p) \in DOMAIN e /\ Flip(Flip(p)) = p
                   /\ e[p].wallet \in filter.wallets /\ e[Flip(p)].asset = e[p].asset
                   /\ e[p].amount \in Int /\ e[Flip(p)].amount = -e[p].amount
    <2>1. CASE Called(ops)
        <3> DEFINE e == Moved(ops)
        <3>1. /\ IsFiniteSet(DOMAIN e)
              /\ \A p \in DOMAIN e :
                    /\ Flip(p) \in DOMAIN e /\ Flip(Flip(p)) = p
                    /\ e[p].wallet \in filter.wallets /\ e[Flip(p)].asset = e[p].asset
                    /\ e[p].amount \in Int /\ e[Flip(p)].amount = -e[p].amount
            BY <1>0, <1>1, <2>1, EventPlaces DEF Called
        <3>2. said.changes = C!upsertFee(C!Filtered(e, filter), fee)  BY <2>1 DEF ChangesInv, Emitted
        <3> HIDE DEF e
        <3> QED  BY <3>1, <3>2
    <2>2. CASE ~Called(ops)
        <3> DEFINE e == Counting(ops)
                   n == Len(ops)
        <3>1. \A i \in DOMAIN ops : ops[i].type \in {"payment", "createAccount"}
            BY <2>2 DEF ChangesInv, C!Only
        <3>2. /\ n \in Nat /\ DOMAIN e = Pairs(n)
              /\ \A p \in Pairs(n) : /\ e[p].wallet \in filter.wallets /\ e[Flip(p)].asset = e[p].asset
                                     /\ e[p].amount \in Int /\ e[Flip(p)].amount = -e[p].amount
            BY <1>0, <1>1, <3>1, CreationPlaces
        <3>3. said.changes = C!upsertFee(C!Filtered(e, filter), fee)  BY <2>2 DEF ChangesInv, Shown
        <3> HIDE DEF e, n
        <3>4. IsFiniteSet(DOMAIN e) /\ \A p \in DOMAIN e : Flip(p) \in DOMAIN e /\ Flip(Flip(p)) = p
            BY <3>2, PairsAre
        <3> QED  BY <3>2, <3>3, <3>4
    <2> QED  BY <2>1, <2>2
<1>3. PICK e : /\ said.changes = C!upsertFee(C!Filtered(e, filter), fee) /\ IsFiniteSet(DOMAIN e)
               /\ \A p \in DOMAIN e :
                     /\ Flip(p) \in DOMAIN e /\ Flip(Flip(p)) = p
                     /\ e[p].wallet \in filter.wallets /\ e[Flip(p)].asset = e[p].asset
                     /\ e[p].amount \in Int /\ e[Flip(p)].amount = -e[p].amount
    BY <1>2
<1> DEFINE c == said.changes
<1>4. Normal(c) /\ Sum([w \in DOMAIN c |-> Gained(c, w, "native")], DOMAIN c) = -fee
    BY <1>0, <1>1, <1>3, TransfersAddUp
<1>5. C!MapThenSumSet(LAMBDA w : C!Gained(c, w, "native"), DOMAIN c)
      = Sum([w \in DOMAIN c |-> Gained(c, w, "native")], DOMAIN c)
    BY SumOfGains
<1> QED  BY <1>4, <1>5, SameNormal

\* What simulateTransaction foresees is what getTransactionStatus tells, up to the part of
\* the offered fee that was not charged, and unfiltered it comes to the fee: for any
\* operations that fit in a transaction, any filters, and any fee.
THEOREM ChangesAreHeld == MCSpec => []ChangesHold
<1>1. MCInit => ChangesInv  BY ChangesInitHolds DEF MCInit
<1>2. [MCNext]_<<scene, vars, tokenVars, changeVars, trustVars>> => [C!Next]_(C!vars)
    BY DEF MCNext, changeVars, C!vars
<1>3. ChangesInv => ChangesHold  BY PredictionIsHeld, ChangesDoAddUp DEF ChangesHold, C!ChangesHold
<1> QED  BY <1>1, <1>2, <1>3, ChangesStep, PTL DEF MCSpec
=============================================================================
