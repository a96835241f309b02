-------------------------- MODULE TronProofs --------------------------
(***************************************************************************)
(* Theorems about TronPayment, that a payment is made once, for any number *)
(* of payments and transactions, and any clocks and lags that the grace    *)
(* covers; about TronApprove, that a reset and an approval take effect in  *)
(* their order, for any sleep that covers the time to a block; and about   *)
(* TronTransfer, that what is signed is what was shown and asked for.      *)
(***************************************************************************)
EXTENDS TronMC, Sums

Given(t) == tx[t].step # "idle"

\* What was executed was put in a block, before its expiration, and waits nowhere.
LandInv ==
    /\ \A t \in pool : Given(t) /\ landed[t] = Never
    /\ \A t \in paid : landed[t] # Never
    /\ \A t \in Txs : landed[t] # Never => Given(t) /\ landed[t] < tx[t].expires

\* What some node holds was told of as open, or its caller is still waiting.  A
\* transaction under construction is held by none.
ToldInv ==
    \A t \in Txs : Held(t) =>
        \/ tx[t].step = "taken"
        \/ tx[t].step \in {"built", "refused"} /\ told[t] = "open"

TakenInv == \A t \in Txs : tx[t].step = "taken" => Held(t)

\* What the caller gave up was not executed and cannot be.
OverInv ==
    \A t \in over :
        /\ tx[t].step = "built" /\ t \notin paid
        /\ t \in pool => now >= tx[t].expires

\* Of two transactions of one payment, one was given up.
ReplaceInv ==
    \A t, u \in Txs :
        Given(t) /\ Given(u) /\ t # u /\ tx[t].payment = tx[u].payment => t \in over \/ u \in over

\* The inductive invariant: PaidOnce alone is not one, since that a transaction that
\* was given up stays unpaid rests on what its expiration and the answers say.
IInv == TypeOK /\ LandInv /\ ToldInv /\ TakenInv /\ OverInv /\ ReplaceInv

USE GraceIsEnough, TimesAreNumbers

LEMMA InitHolds == Init => IInv
BY DEF Init, IInv, TypeOK, LandInv, ToldInv, TakenInv, OverInv, ReplaceInv, Given, Held, Never, NoTx

\* A transaction that is made known with a step is of the client's.
LEMMA GivenIsTransaction ==
    ASSUME TypeOK, NEW t \in Txs, Given(t)
    PROVE  tx[t] \in Transaction
BY DEF TypeOK, Given, NoTx

LEMMA TypeStep == TypeOK /\ [Next]_vars => TypeOK'
<1> SUFFICES ASSUME TypeOK, [Next]_vars PROVE TypeOK'
    OBVIOUS
<1>1. CASE UNCHANGED vars  BY <1>1 DEF vars, TypeOK, Never
<1>2. CASE Tick  BY <1>2 DEF Tick, TypeOK, Never
<1>3. ASSUME NEW t \in Txs, NEW p \in Payments, Build(t, p) PROVE TypeOK'
    <2>1. [step |-> "building", payment |-> p, expires |-> Local + Lifetime, sigs |-> <<>>] \in Transaction
        BY DEF Transaction, Local, TypeOK
    <2> QED  BY <1>3, <2>1 DEF Build, TypeOK, Never
<1>4. ASSUME NEW t \in Txs, NEW k \in Keys, Sign(t, k) PROVE TypeOK'
    <2>1. tx[t] \in Transaction  BY <1>4, GivenIsTransaction DEF Sign, Given
    <2>2. Append(tx[t].sigs, k) \in Seq(Keys)  BY <2>1 DEF Transaction
    <2>3. [tx[t] EXCEPT !.sigs = Append(tx[t].sigs, k)] \in Transaction
        BY <2>1, <2>2 DEF Transaction
    <2> QED  BY <1>4, <2>3 DEF Sign, TypeOK, Never
<1>5. ASSUME NEW t \in Txs, Create(t) PROVE TypeOK'
    <2>1. tx[t] \in Transaction  BY <1>5, GivenIsTransaction DEF Create, Given
    <2>2. [tx[t] EXCEPT !.step = "built"] \in Transaction  BY <2>1 DEF Transaction
    <2> QED  BY <1>5, <2>2 DEF Create, TypeOK, Never
<1>6. ASSUME NEW t \in Txs, Post(t) PROVE TypeOK'
    <2>1. tx[t] \in Transaction  BY <1>6, GivenIsTransaction DEF Post, Given
    <2>2. \A s \in {"taken", "refused"} : [tx[t] EXCEPT !.step = s] \in Transaction
        BY <2>1 DEF Transaction
    <2> QED  BY <1>6, <2>2 DEF Post, TypeOK, Never
<1>7. ASSUME NEW t \in Txs, Reply(t) PROVE TypeOK'
    <2>1. tx[t] \in Transaction  BY <1>7, GivenIsTransaction DEF Reply, Given
    <2>2. [tx[t] EXCEPT !.step = "built"] \in Transaction  BY <2>1 DEF Transaction
    <2>3. told' \in [Txs -> {"none", "rejected", "open"}]  BY <1>7 DEF Reply, TypeOK, AnswerTo
    <2> QED  BY <1>7, <2>2, <2>3 DEF Reply, TypeOK, Never
<1>8. ASSUME NEW t \in Txs, Land(t) PROVE TypeOK'
    BY <1>8 DEF Land, TypeOK, Never
<1>9. ASSUME NEW t \in Txs, SeeFailed(t) \/ SeeNotFound(t) \/ SeeRejected(t) PROVE TypeOK'
    BY <1>9 DEF SeeFailed, SeeNotFound, SeeRejected, GetTransactionStatus, TypeOK, Never
<1> QED  BY <1>1, <1>2, <1>3, <1>4, <1>5, <1>6, <1>7, <1>8, <1>9 DEF Next

LEMMA StepHolds == IInv /\ [Next]_vars => IInv'
<1> SUFFICES ASSUME IInv, [Next]_vars PROVE IInv'
    OBVIOUS
<1>0. TypeOK /\ TypeOK'  BY TypeStep DEF IInv
<1>1. CASE UNCHANGED vars
    BY <1>0, <1>1 DEF vars, IInv, LandInv, ToldInv, TakenInv, OverInv, ReplaceInv, Given, Held
<1>2. CASE Tick
    <2>1. OverInv'
        <3>1. \A t \in over : tx[t].expires \in Int
            BY <1>0, GivenIsTransaction DEF IInv, OverInv, Given, TypeOK, Transaction
        <3> QED  BY <1>0, <1>2, <3>1 DEF Tick, TypeOK, IInv, OverInv
    <2> QED
        BY <1>0, <1>2, <2>1 DEF Tick, IInv, LandInv, ToldInv, TakenInv, ReplaceInv, Given, Held
<1>3. ASSUME NEW t \in Txs, NEW p \in Payments, Build(t, p) PROVE IInv'
    <2>1. ~Held(t) /\ t \notin over  BY <1>0, <1>3 DEF Build, IInv, ToldInv, OverInv
    <2>2. \A u \in Txs : u # t => tx'[u] = tx[u]  BY <1>0, <1>3 DEF Build, TypeOK
    <2>3. tx'[t].step = "building" /\ tx'[t].payment = p  BY <1>0, <1>3 DEF Build, TypeOK
    <2>4. LandInv'  BY <1>0, <1>3, <2>1, <2>2 DEF Build, IInv, TypeOK, LandInv, Given, Held
    <2>5. ToldInv' /\ TakenInv'
        BY <1>0, <1>3, <2>1, <2>2, <2>3 DEF Build, IInv, TypeOK, ToldInv, TakenInv, Held
    <2>6. OverInv'  BY <1>0, <1>3, <2>1, <2>2 DEF Build, IInv, TypeOK, OverInv
    <2>7. ReplaceInv'
        BY <1>0, <1>3, <2>2, <2>3 DEF Build, IInv, TypeOK, ReplaceInv, Given, Others
    <2> QED  BY <1>0, <2>4, <2>5, <2>6, <2>7 DEF IInv
<1>4. ASSUME NEW t \in Txs, NEW k \in Keys, Sign(t, k) PROVE IInv'
    <2>1. tx[t] \in Transaction  BY <1>0, <1>4, GivenIsTransaction DEF Sign, Given
    <2>2. \A u \in Txs : /\ tx'[u].step = tx[u].step
                         /\ Given(u) => tx'[u].payment = tx[u].payment /\ tx'[u].expires = tx[u].expires
        BY <1>0, <1>4, <2>1 DEF Sign, TypeOK, Transaction, Given
    <2>3. LandInv'  BY <1>4, <2>2 DEF Sign, TypeOK, IInv, LandInv, Given
    <2>4. ToldInv' /\ TakenInv'  BY <1>4, <2>2 DEF Sign, IInv, ToldInv, TakenInv, Held
    <2>5. OverInv'  BY <1>4, <2>2 DEF Sign, TypeOK, IInv, OverInv, Given
    <2>6. ReplaceInv'  BY <1>4, <2>2 DEF Sign, IInv, ReplaceInv, Given
    <2> QED  BY <1>0, <2>3, <2>4, <2>5, <2>6 DEF IInv
<1>5. ASSUME NEW t \in Txs, Create(t) PROVE IInv'
    <2>1. ~Held(t) /\ t \notin over  BY <1>0, <1>5 DEF Create, IInv, ToldInv, OverInv
    <2>2. tx[t] \in Transaction  BY <1>0, <1>5, GivenIsTransaction DEF Create, Given
    <2>3. \A u \in Txs : u # t => tx'[u] = tx[u]  BY <1>0, <1>5 DEF Create, TypeOK
    <2>4. \/ tx'[t].step = "built" /\ tx'[t].payment = tx[t].payment
          \/ tx'[t].step = "idle"
        BY <1>0, <1>5, <2>2 DEF Create, TypeOK, Transaction, NoTx
    <2>5. LandInv'  BY <1>0, <1>5, <2>1, <2>3 DEF Create, IInv, TypeOK, LandInv, Given, Held
    <2>6. ToldInv' /\ TakenInv'
        BY <1>0, <1>5, <2>1, <2>3, <2>4 DEF Create, IInv, TypeOK, ToldInv, TakenInv, Held
    <2>7. OverInv'  BY <1>0, <1>5, <2>1, <2>3 DEF Create, IInv, TypeOK, OverInv
    <2>8. ReplaceInv'
        BY <1>0, <1>5, <2>3, <2>4 DEF Create, IInv, TypeOK, ReplaceInv, Given
    <2> QED  BY <1>0, <2>5, <2>6, <2>7, <2>8 DEF IInv
<1>6. ASSUME NEW t \in Txs, Post(t) PROVE IInv'
    <2>1. tx[t] \in Transaction  BY <1>0, <1>6, GivenIsTransaction DEF Post, Given
    <2>2. \A u \in Txs : u # t => tx'[u] = tx[u]  BY <1>0, <1>6 DEF Post, TypeOK
    <2>3. tx'[t].step # "idle" /\ tx'[t].payment = tx[t].payment /\ tx'[t].expires = tx[t].expires
        BY <1>0, <1>6, <2>1 DEF Post, TypeOK, Transaction
    <2>4. \/ tx'[t].step = "taken" /\ Fresh(t) /\ pool' = pool \cup {t}
          \/ tx'[t].step = "refused" /\ pool' = pool
        BY <1>0, <1>6, <2>1 DEF Post, TypeOK, Transaction
    <2>5. LandInv'
        <3>1. UNCHANGED <<paid, landed>>  BY <1>6 DEF Post
        <3>2. \A u \in Txs : (Given(u) => Given(u)') /\ (u = t => Given(u)' /\ tx'[u].expires = tx[u].expires)
            BY <1>6, <2>2, <2>3 DEF Post, Given
        <3>3. \A u \in pool' : (u = t /\ landed[t] = Never) \/ u \in pool
            BY <2>4 DEF Fresh, Held
        <3>4. pool \subseteq Txs  BY <1>0 DEF TypeOK
        <3> QED  BY <2>2, <3>1, <3>2, <3>3, <3>4 DEF IInv, LandInv
    <2>6. ToldInv' /\ TakenInv'
        BY <1>0, <1>6, <2>2, <2>4 DEF Post, IInv, TypeOK, ToldInv, TakenInv, Held
    <2>7. OverInv'
        <3>1. \A u \in over : u # t /\ u \in Txs  BY <1>0, <1>6 DEF Post, TypeOK
        <3>2. UNCHANGED <<now, paid, over>>  BY <1>6 DEF Post
        <3>3. \A u \in over : u \in pool' => u \in pool  BY <2>4, <3>1
        <3> QED  BY <2>2, <3>1, <3>2, <3>3 DEF IInv, OverInv
    <2>8. ReplaceInv'
        <3>1. over' = over /\ Given(t)  BY <1>6 DEF Post, Given
        <3>2. \A u \in Txs : Given(u)' => Given(u) /\ tx'[u].payment = tx[u].payment
            BY <2>2, <2>3, <3>1 DEF Given
        <3> QED  BY <3>1, <3>2 DEF IInv, ReplaceInv
    <2> QED  BY <1>0, <2>5, <2>6, <2>7, <2>8 DEF IInv
<1>7. ASSUME NEW t \in Txs, Reply(t) PROVE IInv'
    <2>1. tx[t] \in Transaction  BY <1>0, <1>7, GivenIsTransaction DEF Reply, Given
    <2>2. \A u \in Txs : u # t => tx'[u] = tx[u] /\ told'[u] = told[u]
        BY <1>0, <1>7 DEF Reply, TypeOK
    <2>3. tx'[t].step = "built" /\ tx'[t].payment = tx[t].payment /\ tx'[t].expires = tx[t].expires
        BY <1>0, <1>7, <2>1 DEF Reply, TypeOK, Transaction
    <2>4. Held(t) => told'[t] = "open"
        <3>1. PICK reply \in Replies(t) : told' = [told EXCEPT ![t] = IF @ = "open" THEN "open" ELSE AnswerTo(reply)]
            BY <1>7 DEF Reply
        <3>2. CASE tx[t].step = "refused"
            BY <1>0, <3>1, <3>2 DEF IInv, ToldInv, TypeOK
        <3>3. CASE tx[t].step = "taken"
            <4>1. reply \notin NotAccepted
                BY <3>1, <3>3 DEF Replies, NotAccepted
            <4> QED  BY <1>0, <3>1, <4>1 DEF AnswerTo, TypeOK
        <3> QED  BY <1>7, <3>2, <3>3 DEF Reply
    <2>5. LandInv'  BY <1>0, <1>7, <2>2, <2>3 DEF Reply, IInv, TypeOK, LandInv, Given
    <2>6. ToldInv' /\ TakenInv'
        BY <1>0, <1>7, <2>2, <2>3, <2>4 DEF Reply, IInv, TypeOK, ToldInv, TakenInv, Held
    <2>7. OverInv'  BY <1>0, <1>7, <2>2, <2>3 DEF Reply, IInv, TypeOK, OverInv
    <2>8. ReplaceInv'
        BY <1>0, <1>7, <2>2, <2>3 DEF Reply, IInv, TypeOK, ReplaceInv, Given
    <2> QED  BY <1>0, <2>5, <2>6, <2>7, <2>8 DEF IInv
<1>8. ASSUME NEW t \in Txs, Land(t) PROVE IInv'
    <2>1. t \notin over
        <3>1. tx[t] \in Transaction  BY <1>0, <1>8, GivenIsTransaction DEF Land, IInv, LandInv
        <3> QED  BY <1>0, <1>8, <3>1 DEF Land, IInv, OverInv, TypeOK, Transaction
    <2>2. landed'[t] = now /\ now # Never /\ \A u \in Txs : u # t => landed'[u] = landed[u]
        BY <1>0, <1>8 DEF Land, TypeOK, Never
    <2>3. LandInv'
        BY <1>0, <1>8, <2>2 DEF Land, IInv, TypeOK, LandInv, Given
    <2>4. ToldInv' /\ TakenInv'
        BY <1>0, <1>8, <2>2 DEF Land, IInv, TypeOK, ToldInv, TakenInv, Held
    <2>5. OverInv'  BY <1>0, <1>8, <2>1 DEF Land, IInv, TypeOK, OverInv
    <2>6. ReplaceInv'  BY <1>8 DEF Land, IInv, ReplaceInv, Given
    <2> QED  BY <1>0, <2>3, <2>4, <2>5, <2>6 DEF IInv
<1>9. ASSUME NEW t \in Txs, SeeFailed(t) \/ SeeNotFound(t) \/ SeeRejected(t) PROVE IInv'
    <2>1. /\ tx[t].step = "built" /\ over' = over \cup {t}
          /\ UNCHANGED <<now, skew, tx, pool, landed, paid, told>>
        BY <1>9 DEF SeeFailed, SeeNotFound, SeeRejected, GetTransactionStatus
    <2>2. t \notin paid /\ (t \in pool => now >= tx[t].expires)
        <3>1. CASE SeeFailed(t)
            <4>1. PICK lag \in 0..MaxLag : InfoAt(t, now - lag) = "Failed"
                BY <3>1 DEF SeeFailed, GetTransactionStatus
            <4>2. t \notin paid /\ landed[t] <= now - lag
                BY <1>0, <4>1 DEF InfoAt, TypeOK, Never
            <4>3. landed[t] # Never  BY <1>0, <4>1, <4>2 DEF TypeOK, Never
            <4> QED  BY <4>2, <4>3 DEF IInv, LandInv
        <3>2. CASE SeeNotFound(t)
            <4>1. PICK lag \in 0..MaxLag : InfoAt(t, now - lag) = "NotFound"
                BY <3>2 DEF SeeNotFound, GetTransactionStatus
            <4>2. landed[t] > now - lag  BY <4>1 DEF InfoAt
            <4>3. tx[t] \in Transaction  BY <1>0, <2>1, GivenIsTransaction DEF Given
            <4>4. now >= tx[t].expires + MaxLag
                BY <1>0, <3>2, <4>3 DEF SeeNotFound, Local, TypeOK, Transaction
            <4>5. landed[t] = Never
                BY <1>0, <4>1, <4>2, <4>3, <4>4 DEF IInv, LandInv, TypeOK, Transaction, Never
            <4> QED  BY <1>0, <4>3, <4>4, <4>5 DEF IInv, LandInv, TypeOK, Transaction
        <3>3. CASE SeeRejected(t)
            <4>1. ~Held(t)  BY <3>3, <1>0 DEF SeeRejected, IInv, ToldInv
            <4> QED  BY <4>1 DEF Held, IInv, LandInv
        <3> QED  BY <1>9, <3>1, <3>2, <3>3
    <2> QED  BY <1>0, <2>1, <2>2 DEF IInv, LandInv, ToldInv, TakenInv, OverInv, ReplaceInv, Given, Held
<1> QED  BY <1>1, <1>2, <1>3, <1>4, <1>5, <1>6, <1>7, <1>8, <1>9 DEF Next

\* Every state is of its types.
THEOREM TypesHold == Spec => []TypeOK
<1>1. Init => TypeOK  BY InitHolds DEF IInv
<1> QED  BY <1>1, TypeStep, PTL DEF Spec

\* A payment is made once, whatever was signed twice, sent again, refused by one node
\* and held by another, or not found while it waited, as long as the caller waits out
\* its clock's error and the nodes' lag.
THEOREM PaysOnce == Spec => []PaidOnce
<1>1. IInv => PaidOnce
    BY DEF IInv, TypeOK, LandInv, OverInv, ReplaceInv, PaidOnce
<1> QED  BY <1>1, InitHolds, StepHolds, PTL DEF Spec

\* What the caller gave up never pays: not failed, rejected, or not found past its
\* expiration and the grace.
THEOREM OverIsOver == Spec => [](over \cap paid = {})
<1>1. IInv => over \cap paid = {}
    BY DEF IInv, OverInv
<1> QED  BY <1>1, InitHolds, StepHolds, PTL DEF Spec

(***************************************************************************)
(* The approve prerequisite.  The scene of TronMC that plays TronApprove   *)
(* leaves the other modules' variables alone, and they leave its.          *)
(***************************************************************************)
ApproveTypes ==
    /\ allowance \in Nat /\ asked \in Prerequisites
    /\ slept \in 0..SleepBlocks
    /\ \A a \in held : a.amount \in {0, asked.amount} /\ a.waited \in 0..ExpiryBlocks

Under(amount) == \E a \in held : a.amount = amount

\* An approval was sent: it is under way, or something became of it.
WasSent(amount) == Under(amount) \/ A!Became({"applied", "refused", "failed", "lost"}, amount)

\* What the call has not come to was not sent.
SentInv ==
    /\ step \in {"read", "reset"} => ~WasSent(0)
    /\ step # "done" => ~WasSent(asked.amount)
    /\ asked.amount = 0 => step \in {"read", "done"} /\ ~WasSent(0)
    /\ \A d \in done : d.how \in {"applied", "refused", "failed", "lost"}

\* A reset waits for as long as the wallet sleeps, and is over when it wakes, or late.
SleepInv ==
    /\ step = "sleep" => \A a \in held : a.waited >= slept
    /\ step = "approve" \/ WasSent(asked.amount) => \A a \in held : a.amount = 0 => A!Late(a)
    /\ \A a, b \in held : a.amount = b.amount => a = b

\* Until the amount is applied there is nothing to reset, where the token was known to
\* ask for that and the reset was not late and had its effect.
ResetInv ==
    /\ asked.flagged /\ (step = "approve" \/ Under(asked.amount)) => allowance = 0 \/ A!ResetLate
    /\ step = "sleep" => Under(0) \/ allowance = 0 \/ A!ResetLate
    /\ asked.flagged /\ A!Became({"refused"}, asked.amount) => A!ResetLate

\* The inductive invariant for ApprovesInOrder: a reset that is still under way when the
\* wallet wakes is late and stays so, whatever becomes of it; one that is not late has
\* left nothing to reset, or had no effect.
ApproveInv == ApproveTypes /\ SentInv /\ SleepInv /\ ResetInv

USE BlocksAreNatural, AmountsAreNatural

LEMMA ApproveInitHolds == A!Init => ApproveInv
BY DEF A!Init, ApproveInv, ApproveTypes, SentInv, SleepInv, ResetInv, WasSent, Under, A!ResetLate, A!Became

\* An approval is sent, or may have been, and the call moves on or is over.
LEMMA SendStep ==
    ASSUME ApproveInv, A!Reset \/ A!Approve
    PROVE  ApproveInv'
<1> DEFINE amount == IF step = "reset" THEN 0 ELSE asked.amount
           new == [amount |-> amount, waited |-> 0]
<1>1. /\ step \in {"reset", "approve"} /\ UNCHANGED <<allowance, asked, done>>
      /\ held' = held \cup {new} \/ held' = held
      /\ \/ step' = "sleep" /\ step = "reset" /\ slept' = 0 /\ held' = held \cup {new}
         \/ step' = "done" /\ slept' = slept
    BY DEF A!Reset, A!Approve, A!broadcastApprove
<1>2. asked.amount \in Nat /\ asked.amount # 0  BY <1>1 DEF ApproveInv, ApproveTypes, SentInv
<1>3. ~Under(amount) /\ ~WasSent(amount)  BY <1>1 DEF ApproveInv, SentInv, WasSent
<1>4. new.amount = amount /\ new.waited = 0 /\ amount \in {0, asked.amount}  OBVIOUS
<1>5. amount = (IF step = "reset" THEN 0 ELSE asked.amount)  OBVIOUS
<1> HIDE DEF amount, new
<1>6. \A x : Under(x)' => Under(x) \/ x = amount  BY <1>1, <1>4 DEF Under
<1>7. \A x : WasSent(x)' => WasSent(x) \/ x = amount  BY <1>1, <1>6 DEF WasSent, A!Became
<1>8. ApproveTypes'  BY <1>1, <1>4 DEF ApproveInv, ApproveTypes
<1>9. SentInv'  BY <1>1, <1>2, <1>5, <1>7 DEF ApproveInv, SentInv
<1>10. SleepInv'
    <2>1. step = "reset" => \A a \in held : FALSE
        BY <1>2 DEF ApproveInv, ApproveTypes, SentInv, WasSent, Under
    <2>2. step' = "sleep" => \A a \in held' : a.waited >= slept'  BY <1>1, <1>4, <2>1
    <2>3. WasSent(asked.amount)' => \A a \in held' : a.amount = 0 => A!Late(a)
        <3>1. CASE step = "reset"  BY <1>1, <1>2, <1>5, <1>7, <3>1 DEF ApproveInv, SentInv
        <3>2. CASE step = "approve"  BY <1>1, <1>2, <1>4, <1>5, <3>2 DEF ApproveInv, SleepInv
        <3> QED  BY <1>1, <3>1, <3>2
    <2>4. \A a, b \in held' : a.amount = b.amount => a = b
        BY <1>1, <1>3, <1>4 DEF ApproveInv, SleepInv, Under
    <2> QED  BY <1>1, <2>2, <2>3, <2>4 DEF SleepInv
<1>11. ResetInv'
    <2>1. A!ResetLate => A!ResetLate'  BY <1>1 DEF A!ResetLate, A!Became
    <2>2. A!Became({"refused"}, asked.amount)' <=> A!Became({"refused"}, asked.amount)
        BY <1>1 DEF A!Became
    <2>3. asked.flagged /\ Under(asked.amount)' => allowance = 0 \/ A!ResetLate
        <3>1. CASE step = "reset"  BY <1>1, <1>2, <1>5, <1>6, <3>1 DEF ApproveInv, SentInv, WasSent
        <3>2. CASE step = "approve"  BY <3>2 DEF ApproveInv, ResetInv
        <3> QED  BY <1>1, <3>1, <3>2
    <2>4. step' = "sleep" => Under(0)'  BY <1>1, <1>4, <1>5 DEF Under
    <2> QED  BY <1>1, <2>1, <2>2, <2>3, <2>4 DEF ApproveInv, ResetInv
<1> QED  BY <1>8, <1>9, <1>10, <1>11 DEF ApproveInv

\* Something becomes of an approval.
LEMMA EndStep ==
    ASSUME ApproveInv, NEW a \in held, A!Land(a) \/ A!Lose(a)
    PROVE  ApproveInv'
<1>1. PICK how \in {"applied", "refused", "failed", "lost"} :
          /\ held' = held \ {a}
          /\ done' = done \cup {[amount |-> a.amount, how |-> how, late |-> A!Late(a)]}
          /\ UNCHANGED <<asked, step, slept>>
          /\ how = "applied" => allowance' = a.amount
          /\ how # "applied" => allowance' = allowance
          /\ how = "refused" => a.amount # 0 /\ allowance # 0
    BY DEF A!Land, A!Lose, A!Ends, A!Refuses
<1>2. a.amount \in {0, asked.amount} /\ asked.amount \in Nat  BY DEF ApproveInv, ApproveTypes
<1>3. \A x : Under(x)' <=> Under(x) /\ x # a.amount
    BY <1>1 DEF Under, ApproveInv, SleepInv
<1>4. \A hows, x : A!Became(hows, x)' <=> A!Became(hows, x) \/ (x = a.amount /\ how \in hows)
    <2> DEFINE end == [amount |-> a.amount, how |-> how, late |-> A!Late(a)]
    <2>1. end.amount = a.amount /\ end.how = how /\ done' = done \cup {end}  BY <1>1
    <2> HIDE DEF end
    <2> QED  BY <2>1 DEF A!Became
<1>5. Under(a.amount)  BY DEF Under
<1>6. \A x : WasSent(x)' <=> WasSent(x)  BY <1>3, <1>4, <1>5 DEF WasSent
<1>7. ApproveTypes'  BY <1>1, <1>2 DEF ApproveInv, ApproveTypes
<1>8. SentInv'  BY <1>1, <1>6 DEF ApproveInv, SentInv
<1>9. SleepInv'  BY <1>1, <1>3, <1>6 DEF ApproveInv, SleepInv
<1>10. A!ResetLate \/ (a.amount = 0 /\ how \in {"lost", "failed"}) => A!ResetLate'
    <2> DEFINE end == [amount |-> a.amount, how |-> how, late |-> A!Late(a)]
    <2>1. /\ end.amount = a.amount /\ end.how = how /\ end.late = A!Late(a)
          /\ done' = done \cup {end} /\ held' = held \ {a}
        BY <1>1
    <2> HIDE DEF end
    <2>2. ASSUME NEW b \in held, b.amount = 0, A!Late(b) PROVE A!ResetLate'
        <3>1. b \in held' \/ b = a  BY <2>1
        <3>2. end \in done'  BY <2>1
        <3> QED  BY <2>1, <2>2, <3>1, <3>2 DEF A!ResetLate
    <2> QED  BY <2>1, <2>2 DEF A!ResetLate, A!Became
<1>11. ResetInv'
    <2>1. CASE a.amount = 0
        <3>1. asked.amount # 0  BY <1>5, <2>1 DEF ApproveInv, SentInv, WasSent
        <3>2. /\ Under(asked.amount)' => Under(asked.amount)
              /\ A!Became({"refused"}, asked.amount)' => A!Became({"refused"}, asked.amount)
            BY <1>1, <1>3, <1>4, <2>1, <3>1
        <3>3. how \in {"lost", "failed"} \/ allowance' = 0  BY <1>1, <2>1
        <3>4. allowance = 0 => allowance' = 0  BY <1>1, <2>1
        <3> QED  BY <1>1, <1>10, <2>1, <3>2, <3>3, <3>4 DEF ApproveInv, ResetInv
    <2>2. CASE a.amount = asked.amount /\ a.amount # 0
        <3>1. step = "done" /\ Under(asked.amount)
            <4>1. Under(asked.amount) /\ WasSent(asked.amount)  BY <1>5, <2>2 DEF WasSent
            <4> QED  BY <4>1 DEF ApproveInv, SentInv
        <3>2. asked.flagged => allowance = 0 \/ A!ResetLate  BY <3>1 DEF ApproveInv, ResetInv
        <3>3. ~Under(asked.amount)'  BY <1>1, <1>3, <2>2
        <3>4. asked.flagged /\ A!Became({"refused"}, asked.amount)' => A!ResetLate
            BY <1>1, <1>4, <3>2 DEF ApproveInv, ResetInv
        <3> QED  BY <1>1, <1>10, <3>1, <3>3, <3>4 DEF ResetInv
    <2> QED  BY <1>2, <2>1, <2>2
<1> QED  BY <1>7, <1>8, <1>9, <1>11 DEF ApproveInv

LEMMA ApproveStep == ApproveInv /\ [A!Next]_(A!vars) => ApproveInv'
<1> SUFFICES ASSUME ApproveInv, [A!Next]_(A!vars) PROVE ApproveInv'
    OBVIOUS
<1>1. CASE UNCHANGED A!vars
    BY <1>1 DEF A!vars, ApproveInv, ApproveTypes, SentInv, SleepInv, ResetInv, WasSent, Under, A!ResetLate, A!Became
<1>2. CASE A!Spend
    <2>1. allowance' \in Nat /\ allowance' < allowance /\ allowance > 0  BY <1>2 DEF A!Spend
    <2> QED
        BY <1>2, <2>1 DEF A!Spend, ApproveInv, ApproveTypes, SentInv, SleepInv, ResetInv, WasSent, Under,
           A!ResetLate, A!Became
<1>3. CASE A!ReadAllowance \/ A!ReadFails
    <2>1. /\ step = "read" /\ UNCHANGED <<allowance, asked, slept, held, done>>
          /\ \/ step' = "done"
             \/ step' \in {"reset", "approve"} /\ allowance < asked.amount
          /\ step' = "approve" /\ asked.flagged => ~(allowance > 0)
        BY <1>3 DEF A!ReadAllowance, A!ReadFails
    <2>2. allowance \in Nat /\ asked.amount \in Nat  BY DEF ApproveInv, ApproveTypes
    <2>3. step' = "approve" /\ asked.flagged => allowance = 0  BY <2>1, <2>2
    <2>4. step' # "done" => asked.amount # 0  BY <2>1, <2>2
    <2>5. ~WasSent(0) /\ ~WasSent(asked.amount)  BY <2>1 DEF ApproveInv, SentInv
    <2>6. \A x : (WasSent(x)' <=> WasSent(x)) /\ (Under(x)' <=> Under(x))
        BY <2>1 DEF WasSent, Under, A!Became
    <2>7. ApproveTypes'  BY <2>1 DEF ApproveInv, ApproveTypes
    <2>8. SentInv'  BY <2>1, <2>4, <2>5, <2>6 DEF ApproveInv, SentInv
    <2>9. SleepInv'  BY <2>1, <2>5, <2>6 DEF ApproveInv, SleepInv, WasSent, Under
    <2>10. ResetInv'  BY <2>1, <2>3, <2>5, <2>6 DEF ApproveInv, ResetInv, WasSent, A!Became, A!ResetLate
    <2> QED  BY <2>7, <2>8, <2>9, <2>10 DEF ApproveInv
<1>4. CASE A!Reset \/ A!Approve  BY <1>4, SendStep
<1>5. CASE A!Wake
    <2>1. step = "sleep" /\ slept >= SleepBlocks /\ step' = "approve"
          /\ UNCHANGED <<allowance, asked, slept, held, done>>
        BY <1>5 DEF A!Wake, A!Slept
    <2>2. \A a \in held : A!Late(a)
        <3> SUFFICES ASSUME NEW a \in held PROVE A!Late(a)
            OBVIOUS
        <3>1. a.waited >= slept /\ a.waited \in Nat /\ slept \in Nat
            BY <2>1 DEF ApproveInv, SleepInv, ApproveTypes
        <3> QED  BY <2>1, <3>1 DEF A!Late
    <2>3. \A x : (WasSent(x)' <=> WasSent(x)) /\ (Under(x)' <=> Under(x))
        BY <2>1 DEF WasSent, Under, A!Became
    <2>4. ApproveTypes'  BY <2>1 DEF ApproveInv, ApproveTypes
    <2>5. SentInv'  BY <2>1, <2>3 DEF ApproveInv, SentInv
    <2>6. SleepInv'  BY <2>1, <2>2 DEF ApproveInv, SleepInv
    <2>7. ResetInv'
        <3>1. A!ResetLate' <=> A!ResetLate  BY <2>1 DEF A!ResetLate, A!Became
        <3>2. Under(0) => A!ResetLate  BY <2>2 DEF Under, A!ResetLate
        <3>3. A!Became({"refused"}, asked.amount)' <=> A!Became({"refused"}, asked.amount)
            BY <2>1 DEF A!Became
        <3> QED  BY <2>1, <3>1, <3>2, <3>3 DEF ApproveInv, ResetInv
    <2> QED  BY <2>4, <2>5, <2>6, <2>7 DEF ApproveInv
<1>6. CASE A!Block
    <2>1. /\ \A a \in held : a.waited < ExpiryBlocks
          /\ held' = {[amount |-> a.amount, waited |-> a.waited + 1] : a \in held}
          /\ slept' = IF step = "sleep" /\ slept < SleepBlocks THEN slept + 1 ELSE slept
          /\ UNCHANGED <<allowance, asked, step, done>>
        BY <1>6 DEF A!Block
    <2>2. \A b \in held' : \E a \in held : b = [amount |-> a.amount, waited |-> a.waited + 1]  BY <2>1
    <2>3. \A x : (WasSent(x)' <=> WasSent(x)) /\ (Under(x)' <=> Under(x))
        <3>1. ASSUME NEW a \in held PROVE \E b \in held' : b.amount = a.amount
            <4>1. [amount |-> a.amount, waited |-> a.waited + 1] \in held'  BY <2>1
            <4>2. [amount |-> a.amount, waited |-> a.waited + 1].amount = a.amount  OBVIOUS
            <4> QED  BY <4>1, <4>2
        <3>2. \A b \in held' : \E a \in held : b.amount = a.amount  BY <2>2
        <3>3. \A x : Under(x)' <=> Under(x)  BY <3>1, <3>2 DEF Under
        <3> QED  BY <2>1, <3>3 DEF WasSent, A!Became
    <2>4. ApproveTypes'
        <3>1. \A a \in held' : a.amount \in {0, asked.amount} /\ a.waited \in 0..ExpiryBlocks
            BY <2>1, <2>2 DEF ApproveInv, ApproveTypes
        <3>2. slept' \in 0..SleepBlocks  BY <2>1 DEF ApproveInv, ApproveTypes
        <3> QED  BY <2>1, <3>1, <3>2 DEF ApproveInv, ApproveTypes
    <2>5. SentInv'  BY <2>1, <2>3 DEF ApproveInv, SentInv
    <2>6. SleepInv'
        <3>1. ASSUME step = "sleep", NEW b \in held' PROVE b.waited >= slept'
            <4>1. PICK a \in held : b = [amount |-> a.amount, waited |-> a.waited + 1]  BY <2>2
            <4>2. a.waited >= slept /\ a.waited \in Nat /\ slept \in Nat
                BY <3>1 DEF ApproveInv, ApproveTypes, SleepInv
            <4> QED  BY <2>1, <4>1, <4>2
        <3>2. ASSUME NEW b \in held', step = "approve" \/ WasSent(asked.amount), b.amount = 0 PROVE A!Late(b)
            <4>1. PICK a \in held : b = [amount |-> a.amount, waited |-> a.waited + 1]  BY <2>2
            <4>2. A!Late(a) /\ a.waited \in Nat
                BY <3>2, <4>1 DEF ApproveInv, ApproveTypes, SleepInv
            <4> QED  BY <4>1, <4>2 DEF A!Late
        <3>3. \A a, b \in held' : a.amount = b.amount => a = b
            BY <2>2 DEF ApproveInv, SleepInv
        <3> QED  BY <2>1, <2>3, <3>1, <3>2, <3>3 DEF ApproveInv, SleepInv
    <2>7. ResetInv'
        <3>1. A!ResetLate => A!ResetLate'
            <4>1. ASSUME NEW a \in held, a.amount = 0, A!Late(a) PROVE A!ResetLate'
                <5> DEFINE b == [amount |-> a.amount, waited |-> a.waited + 1]
                <5>1. b \in held' /\ b.amount = a.amount /\ b.waited = a.waited + 1  BY <2>1
                <5> HIDE DEF b
                <5>2. A!Late(b)  BY <4>1, <5>1 DEF A!Late, ApproveInv, ApproveTypes
                <5> QED  BY <4>1, <5>1, <5>2 DEF A!ResetLate
            <4> QED  BY <2>1, <4>1 DEF A!ResetLate, A!Became
        <3>2. A!Became({"refused"}, asked.amount)' <=> A!Became({"refused"}, asked.amount)
            BY <2>1 DEF A!Became
        <3> QED  BY <2>1, <2>3, <3>1, <3>2 DEF ApproveInv, ResetInv
    <2> QED  BY <2>4, <2>5, <2>6, <2>7 DEF ApproveInv
<1>7. ASSUME NEW a \in held, A!Land(a) \/ A!Lose(a) PROVE ApproveInv'  BY <1>7, EndStep
<1> QED  BY <1>1, <1>2, <1>3, <1>4, <1>5, <1>6, <1>7 DEF A!Next

LEMMA SceneStep == ApproveInv /\ [MCNext]_<<scene, vars, approveVars, changeVars, transferVars>> => ApproveInv'
<1>1. [MCNext]_<<scene, vars, approveVars, changeVars, transferVars>> => [A!Next]_(A!vars)
    BY DEF MCNext, approveVars, A!vars
<1> QED  BY <1>1, ApproveStep

\* Only a reset that is late harms the approval, whatever the sleep and however long an
\* approval lives: once the amount is approved no other reset is under way, and a strict
\* token refuses the amount only where the reset was late or had no effect.
THEOREM ApprovalsAreInOrder == MCSpec => []ApprovesInOrder
<1>1. MCInit => ApproveInv  BY ApproveInitHolds DEF MCInit
<1>2. ApproveInv => ApprovesInOrder
    <2> SUFFICES ASSUME ApproveInv PROVE A!ApprovesInOrder
        BY DEF ApprovesInOrder
    <2>1. A!Became({"applied"}, asked.amount) => WasSent(asked.amount)  BY DEF WasSent, A!Became
    <2> QED  BY <2>1 DEF ApproveInv, SleepInv, ResetInv, A!ApprovesInOrder
<1> QED  BY <1>1, <1>2, SceneStep, PTL DEF MCSpec
(***************************************************************************)
(* The transfer: what is signed can be read only as what was shown, and    *)
(* pays what was asked for.                                                *)
(***************************************************************************)
\* What the fields of an encoding say, each named by its number.
Reading(encoding) == {<<T!Fields(encoding[1])[e[1]][1], e[2]>> : e \in encoding[2]}

\* The numbers of a contract are the fields that are read as numbers.
LEMMA FieldsHaveKinds ==
    ASSUME NEW type, T!Supported(type), NEW i \in DOMAIN T!Fields(type)
    PROVE  LET field == T!Fields(type)[i]
           IN  /\ field[2] \in {"address", "bytes", "int64", "mustBeZero"}
               /\ field[1] \in T!Numbers <=> field[2] \in {"int64", "mustBeZero"}
<1>1. CASE type = "TransferContract"
    <2>1. T!Fields(type) = <<<<"owner_address", "address">>, <<"to_address", "address">>, <<"amount", "int64">>>>
        BY <1>1 DEF T!Fields
    <2>2. i = 1 \/ i = 2 \/ i = 3  BY <2>1
    <2> QED  BY <2>1, <2>2 DEF T!Numbers
<1>2. CASE type = "TriggerSmartContract"
    <2>1. T!Fields(type) =
            <<<<"owner_address", "address">>, <<"contract_address", "address">>, <<"call_value", "int64">>,
              <<"data", "bytes">>, <<"call_token_value", "mustBeZero">>, <<"token_id", "mustBeZero">>>>
        BY <1>2 DEF T!Fields
    <2>2. i = 1 \/ i = 2 \/ i = 3 \/ i = 4 \/ i = 5 \/ i = 6  BY <2>1
    <2> QED  BY <2>1, <2>2 DEF T!Numbers
<1> QED  BY <1>1, <1>2 DEF T!Supported, T!Fields

\* What is written of a field: the content of one that is there and is not zero.
Writes(raw, i) ==
    LET name == T!Fields(raw.type)[i][1]
    IN  name \in DOMAIN raw.value /\ (name \in T!Numbers => raw.value[name][2] # 0)

LEMMA FieldIsWritten ==
    ASSUME NEW raw, T!Encodable(raw), NEW i \in DOMAIN T!Fields(raw.type)
    PROVE  T!encodeField(i, T!Fields(raw.type)[i], raw.value) =
               IF Writes(raw, i) THEN {<<i, raw.value[T!Fields(raw.type)[i][1]][2]>>} ELSE {}
<1> DEFINE field == T!Fields(raw.type)[i]
           v == raw.value[field[1]]
<1>1. CASE field[1] \notin DOMAIN raw.value  BY <1>1 DEF Writes, T!encodeField
<1>2. CASE field[1] \in DOMAIN raw.value
    <2>1. T!Supported(raw.type)  BY DEF T!Encodable
    <2>2. /\ field[2] \in {"address", "bytes", "int64", "mustBeZero"}
          /\ field[1] \in T!Numbers <=> field[2] \in {"int64", "mustBeZero"}
        BY <2>1, FieldsHaveKinds
    <2>3. T!TakesField(field[2], v)  BY <1>2 DEF T!Encodable, T!ToSet
    <2>4. (field[2] = "mustBeZero" \/ T!Zero(v)) <=> ~(field[1] \in T!Numbers => v[2] # 0)
        <3> HIDE DEF field, v
        <3>1. CASE field[2] = "address"  BY <2>2, <2>3, <3>1 DEF T!TakesField, T!Zero
        <3>2. CASE field[2] = "bytes"  BY <2>2, <2>3, <3>2 DEF T!TakesField, T!Zero
        <3>3. CASE field[2] = "int64"  BY <2>2, <2>3, <3>3 DEF T!TakesField, T!Zero
        <3>4. CASE field[2] = "mustBeZero"  BY <2>2, <2>3, <3>4 DEF T!TakesField, T!Zero
        <3> QED  BY <2>2, <3>1, <3>2, <3>3, <3>4
    <2> QED  BY <1>2, <2>4 DEF Writes, T!encodeField
<1> QED  BY <1>1, <1>2

\* The encoding says what the canonical transaction says.
LEMMA EncodingTells ==
    ASSUME NEW raw, T!Encodable(raw)
    PROVE  T!parseTronCanonicalTransaction(raw) =
               [type |-> T!encodeTronRawData(raw)[1], says |-> Reading(T!encodeTronRawData(raw))]
<1> DEFINE F == T!Fields(raw.type)
           written == UNION {T!encodeField(i, F[i], raw.value) : i \in DOMAIN F}
           said == {<<name, raw.value[name][2]>> : name \in {n \in DOMAIN raw.value : n \in T!Numbers => raw.value[n][2] # 0}}
<1>1. T!encodeTronRawData(raw) = <<raw.type, written>>  BY DEF T!encodeTronRawData
<1>2. \A e : e \in written <=> \E i \in DOMAIN F : Writes(raw, i) /\ e = <<i, raw.value[F[i][1]][2]>>
    <2>1. \A i \in DOMAIN F : T!encodeField(i, F[i], raw.value) =
                                  IF Writes(raw, i) THEN {<<i, raw.value[F[i][1]][2]>>} ELSE {}
        BY FieldIsWritten
    <2>2. \A e : e \in written <=> \E i \in DOMAIN F : e \in T!encodeField(i, F[i], raw.value)  OBVIOUS
    <2> HIDE DEF F, written
    <2> QED  BY <2>1, <2>2
<1>3. \A i \in DOMAIN F : Writes(raw, i) <=> F[i][1] \in DOMAIN raw.value /\ (F[i][1] \in T!Numbers => raw.value[F[i][1]][2] # 0)
    BY DEF Writes
<1>4. \A name \in DOMAIN raw.value : \E i \in DOMAIN F : F[i][1] = name
    BY DEF T!Encodable, T!ToSet
<1>5. Reading(T!encodeTronRawData(raw)) = {<<F[e[1]][1], e[2]>> : e \in written}
    <2> HIDE DEF written
    <2> QED  BY <1>1 DEF Reading
<1> HIDE DEF F, written
<1>6. \A x : x \in {<<F[e[1]][1], e[2]>> : e \in written}
                 <=> \E i \in DOMAIN F : Writes(raw, i) /\ x = <<F[i][1], raw.value[F[i][1]][2]>>
    <2>1. ASSUME NEW e \in written
          PROVE  \E i \in DOMAIN F : Writes(raw, i) /\ <<F[e[1]][1], e[2]>> = <<F[i][1], raw.value[F[i][1]][2]>>
        <3>1. PICK i \in DOMAIN F : Writes(raw, i) /\ e = <<i, raw.value[F[i][1]][2]>>  BY <1>2
        <3>2. e[1] = i /\ e[2] = raw.value[F[i][1]][2]  BY <3>1
        <3> QED  BY <3>1, <3>2
    <2>2. ASSUME NEW i \in DOMAIN F, Writes(raw, i)
          PROVE  \E e \in written : <<F[i][1], raw.value[F[i][1]][2]>> = <<F[e[1]][1], e[2]>>
        <3> DEFINE e == <<i, raw.value[F[i][1]][2]>>
        <3>1. e \in written  BY <1>2, <2>2
        <3>2. e[1] = i /\ e[2] = raw.value[F[i][1]][2]  OBVIOUS
        <3> HIDE DEF e
        <3> QED  BY <3>1, <3>2
    <2> QED  BY <2>1, <2>2
<1>7. \A x : x \in said <=> \E name \in DOMAIN raw.value : (name \in T!Numbers => raw.value[name][2] # 0) /\ x = <<name, raw.value[name][2]>>
    OBVIOUS
<1> HIDE DEF said
<1>8. {<<F[e[1]][1], e[2]>> : e \in written} = said
    BY <1>3, <1>4, <1>6, <1>7
<1>9. T!parseTronCanonicalTransaction(raw) = [type |-> raw.type, says |-> said]
    BY DEF T!parseTronCanonicalTransaction, said
<1>10. T!encodeTronRawData(raw)[1] = raw.type  BY <1>1
<1> QED  BY <1>5, <1>8, <1>9, <1>10

\* The amount is what was asked for, through its human-readable form and back.
Asked(r) ==
    LET full == T!AmountOf(r) + (IF r.asset = "TRX" THEN FeeReserve ELSE 0)
    IN  IF r.full THEN full = Balance[r.asset]
        ELSE IF r.amount # <<>> THEN T!AmountOf(r) = r.amount[1]
        ELSE T!AmountOf(r) * T!PowerOf10[r.amountHr[1].scale] <= r.amountHr[1].digits * T!PowerOf10[Decimals[r.asset]]

LEMMA AmountIsAsked ==
    ASSUME NEW r \in Requests, T!resolveTransferAmount(r, Decimals[r.asset]).kind # "refused"
    PROVE  Asked(r) /\ T!AmountOf(r) \in Int
<1> DEFINE d == Decimals[r.asset]
           resolved == T!resolveTransferAmount(r, d)
           Both(n) == T!hrDecimalToMinorUnits(T!minorUnitsToHr(n, d), d)
           keeps == IF resolved.kind = "full" /\ r.asset = "TRX" THEN FeeReserve ELSE 0
           wanted == IF r.amount # <<>> THEN r.amount[1] ELSE T!hrDecimalToMinorUnits(r.amountHr[1], d)
<1>1. /\ d \in 0..9 /\ Balance[r.asset] \in Nat /\ FeeReserve \in Nat /\ r.full \in BOOLEAN
      /\ r.amount \in Seq(Int) /\ r.amountHr \in Seq([digits : Int, scale : 0..9])
    BY RequestsAreFormed
<1>2. T!PowerOf10 = PowerOf10 /\ \A hr, e : T!hrDecimalToMinorUnits(hr, e) = hrDecimalToMinorUnits(hr, e)
    BY DEF T!PowerOf10, PowerOf10, T!hrDecimalToMinorUnits, hrDecimalToMinorUnits, T!Truncate, Truncate
<1>3. \A n, e : T!minorUnitsToHr(n, e) = minorUnitsToHr(n, e)
    BY DEF T!PowerOf10, PowerOf10, T!minorUnitsToHr, minorUnitsToHr, T!Truncate, Truncate
<1>4. \A n \in Nat : Both(n) = n
    <2> HIDE DEF d
    <2> QED  BY <1>1, <1>2, <1>3, MinorUnitsReadBack
<1>5. T!AmountOf(r) = Both(IF resolved.kind = "exact" THEN resolved.amountMr ELSE Balance[r.asset]) - keeps
    BY DEF T!AmountOf
<1>6. CASE r.full
    <2>1. resolved.kind = "full"  BY <1>6 DEF T!resolveTransferAmount
    <2> HIDE DEF resolved, Both, d
    <2>2. T!AmountOf(r) = Balance[r.asset] - keeps  BY <1>1, <1>4, <1>5, <2>1
    <2>3. keeps = (IF r.asset = "TRX" THEN FeeReserve ELSE 0) /\ keeps \in Nat  BY <1>1, <2>1
    <2> HIDE DEF keeps
    <2> QED  BY <1>1, <1>6, <2>2, <2>3 DEF Asked
<1>7. CASE ~r.full
    <2>1. Len(r.amount) + Len(r.amountHr) = 1 /\ ~(wanted <= 0) /\ (r.amountHr # <<>> => ~(r.amountHr[1].digits < 0))
          /\ resolved.kind = "exact" /\ resolved.amountMr = wanted
        <3> DEFINE given == Len(r.amount) + Len(r.amountHr) + (IF r.full THEN 1 ELSE 0)
                   negative == IF r.amountHr # <<>> THEN r.amountHr[1].digits < 0 ELSE FALSE
        <3>1. resolved = IF given # 1 THEN [kind |-> "refused"]
                         ELSE IF r.full THEN [kind |-> "full"]
                         ELSE IF negative \/ wanted <= 0 THEN [kind |-> "refused"]
                         ELSE [kind |-> "exact", amountMr |-> wanted]
            BY DEF T!resolveTransferAmount
        <3>2. resolved.kind # "refused"  OBVIOUS
        <3>3. given = Len(r.amount) + Len(r.amountHr)
            <4>1. Len(r.amount) \in Nat /\ Len(r.amountHr) \in Nat  BY <1>1
            <4> QED  BY <1>7, <4>1
        <3> HIDE DEF given, negative, wanted, resolved
        <3>4. given = 1 /\ ~(wanted <= 0) /\ ~negative /\ resolved = [kind |-> "exact", amountMr |-> wanted]
            BY <1>7, <3>1, <3>2
        <3>5. r.amountHr # <<>> => ~(r.amountHr[1].digits < 0)  BY <3>4 DEF negative
        <3> QED  BY <3>3, <3>4, <3>5
    <2>2. \A S : \A s \in Seq(S) : s # <<>> => s[1] \in S
        <3> SUFFICES ASSUME NEW S, NEW s \in Seq(S), s # <<>> PROVE s[1] \in S  OBVIOUS
        <3>1. Len(s) \in Nat /\ Len(s) # 0 /\ DOMAIN s = 1..Len(s)  OBVIOUS
        <3>2. 1 \in 1..Len(s)  BY <3>1
        <3> QED  BY <3>1, <3>2
    <2>3. /\ r.amount # <<>> => r.amount[1] \in Int
          /\ r.amount = <<>> => r.amountHr[1] \in [digits : Nat, scale : 0..9]
        <3> DEFINE Decimal == [digits : Int, scale : 0..9]
        <3>1. r.amount = <<>> => Len(r.amountHr) = 1
            <4>1. r.amount = <<>> => Len(r.amount) = 0  OBVIOUS
            <4>2. Len(r.amountHr) \in Nat  BY <1>1
            <4> QED  BY <2>1, <4>1, <4>2
        <3>2. r.amount = <<>> => r.amountHr # <<>>
            <4>1. r.amountHr = <<>> => Len(r.amountHr) = 0  OBVIOUS
            <4> QED  BY <3>1, <4>1
        <3>3. \A h \in Decimal : ~(h.digits < 0) => h \in [digits : Nat, scale : 0..9]  OBVIOUS
        <3>4. r.amountHr \in Seq(Decimal)  BY <1>1
        <3> HIDE DEF Decimal
        <3>5. r.amount = <<>> => r.amountHr[1] \in Decimal /\ ~(r.amountHr[1].digits < 0)  BY <2>1, <2>2, <3>2, <3>4
        <3>6. r.amount # <<>> => r.amount[1] \in Int  BY <1>1, <2>2
        <3> QED  BY <3>3, <3>5, <3>6
    <2>4. r.amount = <<>> =>
            /\ wanted = (r.amountHr[1].digits * PowerOf10[d]) \div PowerOf10[r.amountHr[1].scale]
            /\ wanted \in Nat
            /\ wanted * PowerOf10[r.amountHr[1].scale] <= r.amountHr[1].digits * PowerOf10[d]
        <3> SUFFICES ASSUME r.amount = <<>>
                     PROVE  /\ wanted = (r.amountHr[1].digits * PowerOf10[d]) \div PowerOf10[r.amountHr[1].scale]
                            /\ wanted \in Nat
                            /\ wanted * PowerOf10[r.amountHr[1].scale] <= r.amountHr[1].digits * PowerOf10[d]
            OBVIOUS
        <3> DEFINE hr == r.amountHr[1]
        <3>1. wanted = hrDecimalToMinorUnits(hr, d)  BY <1>2
        <3>2. hr \in [digits : Nat, scale : 0..9]  BY <2>3
        <3> HIDE DEF hr, d, wanted
        <3>3. wanted = (hr.digits * PowerOf10[d]) \div PowerOf10[hr.scale]  BY <1>1, <3>1, <3>2, MinorUnitsAreCut
        <3>4. PICK p \in Nat \ {0} : p = PowerOf10[hr.scale]  BY <3>2, PowersOf10
        <3>5. PICK q \in Nat \ {0} : q = PowerOf10[d]  BY <1>1, PowersOf10
        <3>6. PICK m \in Nat : m = hr.digits * q  BY <3>2, <3>5
        <3>7. m \div p \in Nat /\ (m \div p) * p <= m  OBVIOUS
        <3> QED  BY <3>3, <3>4, <3>5, <3>6, <3>7 DEF hr
    <2>5. wanted \in Nat
        <3>1. r.amount # <<>> => wanted = r.amount[1]  OBVIOUS
        <3> HIDE DEF wanted
        <3> QED  BY <2>1, <2>3, <2>4, <3>1
    <2>6. T!AmountOf(r) = wanted
        <3>1. keeps = 0  BY <2>1
        <3> HIDE DEF wanted, keeps, resolved, Both
        <3> QED  BY <1>4, <1>5, <2>1, <2>5, <3>1
    <2>7. r.amount # <<>> => wanted = r.amount[1]  OBVIOUS
    <2> HIDE DEF wanted
    <2> QED  BY <1>2, <1>7, <2>4, <2>5, <2>6, <2>7 DEF Asked
<1> QED  BY <1>6, <1>7

\* What is encoded pays no less than nothing.
LEMMA AmountIsNoLess ==
    ASSUME NEW r, r.asset = "TRX", T!Encodable(T!RawOf(r))
    PROVE  T!AmountOf(r) >= 0
<1> DEFINE value == [owner_address |-> <<"str", "alice">>, to_address |-> <<"str", "bob">>,
                     amount |-> <<"int", T!AmountOf(r)>>]
<1>1. T!RawOf(r) = [type |-> "TransferContract", value |-> value, extra |-> FALSE]  BY DEF T!RawOf, T!Raw
<1>2. T!Fields("TransferContract") = <<<<"owner_address", "address">>, <<"to_address", "address">>, <<"amount", "int64">>>>
    BY DEF T!Fields
<1>3. <<"amount", "int64">> \in T!ToSet(T!Fields("TransferContract"))
    <2>1. 3 \in DOMAIN T!Fields("TransferContract") /\ T!Fields("TransferContract")[3] = <<"amount", "int64">>
        BY <1>2
    <2> QED  BY <2>1 DEF T!ToSet
<1>4. T!TakesField("int64", value["amount"])
    <2>1. T!RawOf(r).type = "TransferContract" /\ T!RawOf(r).value = value  BY <1>1
    <2>2. "amount" \in DOMAIN value  OBVIOUS
    <2>3. \A f \in T!ToSet(T!Fields("TransferContract")) : f[1] \in DOMAIN value => T!TakesField(f[2], value[f[1]])
        <3> HIDE DEF value
        <3> QED  BY <2>1 DEF T!Encodable
    <2> HIDE DEF value
    <2> QED  BY <1>3, <2>2, <2>3
<1>5. value["amount"] = <<"int", T!AmountOf(r)>>  OBVIOUS
<1> QED  BY <1>4, <1>5 DEF T!TakesField

\* What is carried is what was asked for and shown, and what was signed.
TransferInv ==
    /\ signed # T!Nothing =>
          /\ carried # T!Nothing /\ T!Encodable(carried[1].raw)
          /\ signed = T!encodeTronRawData(carried[1].raw)
    /\ shown # T!Nothing =>
          carried # T!Nothing /\ shown[1] = T!parseTronCanonicalTransaction(carried[1].raw)
    /\ req # T!NoRequest =>
          /\ req \in Requests /\ T!resolveTransferAmount(req, Decimals[req.asset]).kind # "refused"
          /\ T!Encodable(T!RawOf(req))

LEMMA TransferStep == TransferInv /\ [T!Next]_(T!vars) => TransferInv'
<1> SUFFICES ASSUME TransferInv, [T!Next]_(T!vars) PROVE TransferInv'  OBVIOUS
<1>0. \A x : <<x>>[1] = x /\ <<x>> # T!Nothing  BY DEF T!Nothing
<1>1. CASE UNCHANGED T!vars
    BY <1>1 DEF T!vars, TransferInv
<1>2. CASE T!Create
    <2>1. signed = T!Nothing /\ shown = T!Nothing  BY <1>2 DEF T!Create, TransferInv
    <2> QED  BY <1>2, <2>1 DEF T!Create, TransferInv
<1>3. CASE T!FromJson
    BY <1>3 DEF T!FromJson, TransferInv
<1>4. CASE T!Show
    BY <1>0, <1>4 DEF T!Show, TransferInv
<1>5. CASE T!Sign
    BY <1>5 DEF T!Sign, T!verifiedTxid, TransferInv
<1> QED  BY <1>1, <1>2, <1>3, <1>4, <1>5 DEF T!Next

\* What is signed can only be read as what was shown, whatever the raw data and in
\* whatever form it came, and pays what was asked for: the amount to the minor unit, at
\* most the balance where all of it was asked for, for any assets, balances and requests.
THEOREM WhatIsSignedIsShown == MCSpec => []SignedIsShown
<1>1. MCInit => TransferInv  BY DEF MCInit, T!Init, TransferInv
<1>2. TransferInv /\ [MCNext]_<<scene, vars, approveVars, changeVars, transferVars>> => TransferInv'
    <2>1. [MCNext]_<<scene, vars, approveVars, changeVars, transferVars>> => [T!Next]_(T!vars)
        BY DEF MCNext, transferVars, T!vars
    <2> QED  BY <2>1, TransferStep
<1>3. TransferInv => SignedIsShown
    <2> SUFFICES ASSUME TransferInv, signed # T!Nothing PROVE T!SignedIsShown
        BY DEF SignedIsShown, T!SignedIsShown
    <2>1. ASSUME shown # T!Nothing, NEW raw, T!Encodable(raw), T!encodeTronRawData(raw) = signed
          PROVE  T!parseTronCanonicalTransaction(raw) = shown[1]
        <3> DEFINE mine == carried[1].raw
        <3>1. T!Encodable(mine) /\ signed = T!encodeTronRawData(mine) /\ shown[1] = T!parseTronCanonicalTransaction(mine)
            BY <2>1 DEF TransferInv
        <3> HIDE DEF mine
        <3> QED  BY <2>1, <3>1, EncodingTells
    <2>2. ASSUME req # T!NoRequest
          PROVE  IF req.full THEN T!AmountOf(req) \in 0..Balance[req.asset]
                 ELSE IF req.amount # <<>> THEN T!AmountOf(req) = req.amount[1]
                 ELSE T!AmountOf(req) * T!PowerOf10[req.amountHr[1].scale]
                          <= req.amountHr[1].digits * T!PowerOf10[Decimals[req.asset]]
        <3>1. req \in Requests /\ T!resolveTransferAmount(req, Decimals[req.asset]).kind # "refused" /\ T!Encodable(T!RawOf(req))
            BY <2>2 DEF TransferInv
        <3>2. Asked(req) /\ T!AmountOf(req) \in Int  BY <3>1, AmountIsAsked
        <3>3. req.asset = "TRX" => T!AmountOf(req) >= 0  BY <3>1, AmountIsNoLess
        <3>4. FeeReserve \in Nat /\ Balance[req.asset] \in Nat  BY <3>1, RequestsAreFormed
        <3>5. CASE req.full
            <4>1. T!AmountOf(req) + (IF req.asset = "TRX" THEN FeeReserve ELSE 0) = Balance[req.asset]
                BY <3>2, <3>5 DEF Asked
            <4> QED  BY <3>2, <3>3, <3>4, <3>5, <4>1
        <3>6. CASE ~req.full  BY <3>2, <3>6 DEF Asked
        <3> QED  BY <3>5, <3>6
    <2> QED  BY <2>1, <2>2 DEF T!SignedIsShown
<1> QED  BY <1>1, <1>2, <1>3, PTL DEF MCSpec
=============================================================================
