------------------------ MODULE SolanaProofs ------------------------
(***************************************************************************)
(* For any number of transactions, any window and any lag the margin       *)
(* covers: a caller that signs anew only past the last valid block, with   *)
(* no status found, pays once at most, and implements PaymentOnce; a       *)
(* broadcast that says BlockhashExpired speaks of a transaction that can   *)
(* no longer land; what is told of transactions, of bundles and of the     *)
(* balances they changed is true; and what is built lands as it was asked. *)
(***************************************************************************)
EXTENDS SolanaMC, Sums

LEMMA Naturals6 ==
  /\ Window \in Nat /\ FinalLag \in Nat /\ Lag \in Nat /\ Margin \in Nat
  /\ MaxHeight \in Nat /\ FinalLag <= MaxHeight
  BY SolanaAssumption

-----------------------------------------------------------------------------
(* The inductive invariant.                                                *)

\* A blockhash was final when a transaction took it; a transaction lands in a
\* block the chain has, within its window.
ChainInv ==
  \A k \in Txs :
    /\ Built(k) => born[k] + FinalLag <= height
    /\ OnChain(k) => landed[k] <= height /\ landed[k] <= LastValid(k)

\* What its caller believes of a transaction is true, and stays so.
ToldInv ==
  \A k \in Txs :
    /\ k \in past => Built(k) /\ height > LastValid(k) + Margin
    /\ "dead" \in told[k] => k \in past /\ (MarginCovers => ~OnChain(k))
    /\ "failed" \in told[k] => OnChain(k) /\ ~fate[k]
    /\ "expired" \in told[k] /\ Lag <= FinalLag => Built(k) /\ height > LastValid(k)

\* A transaction is built once its caller holds those before it for failed or
\* dead.
ReplaceInv ==
  Rule = "expiry" =>
    \A k \in Txs : Built(k) => \A j \in Earlier(k) : told[j] \cap {"failed", "dead"} # {}

IInv == TypeOK /\ ChainInv /\ ToldInv /\ ReplaceInv

LEMMA InvInit == Init => IInv
  <1>. SUFFICES ASSUME Init PROVE IInv
    OBVIOUS
  <1>1. \A k \in Txs : born[k] = -1 /\ landed[k] = 0 /\ told[k] = {} /\ fate[k] = FALSE
    BY DEF Init
  <1>2. \A k \in Txs : ~Built(k) /\ ~OnChain(k)
    BY <1>1 DEF Built, OnChain
  <1>3. height = FinalLag /\ past = {} /\ sent = {}
    BY DEF Init
  <1>4. TypeOK
    <2>1. -1 \in -1 .. MaxHeight /\ 0 \in 0 .. MaxHeight /\ FinalLag \in FinalLag .. MaxHeight
      BY Naturals6
    <2>2. born \in [Txs -> -1 .. MaxHeight] /\ landed \in [Txs -> 0 .. MaxHeight]
      BY <2>1 DEF Init
    <2>3. fate \in [Txs -> BOOLEAN] /\ told \in [Txs -> SUBSET Answers]
      BY DEF Init
    <2>. QED BY <1>2, <1>3, <2>1, <2>2, <2>3 DEF TypeOK
  <1>5. ChainInv /\ ToldInv /\ ReplaceInv
    BY <1>1, <1>2, <1>3 DEF ChainInv, ToldInv, ReplaceInv
  <1>. QED BY <1>4, <1>5 DEF IInv

\* The invariant's numbers.
LEMMA Types ==
  ASSUME IInv, NEW k \in Txs
  PROVE  /\ height \in Nat /\ height <= MaxHeight
         /\ born[k] \in Int /\ landed[k] \in Nat /\ fate[k] \in BOOLEAN
         /\ born[k] >= -1
  BY Naturals6 DEF IInv, TypeOK

-----------------------------------------------------------------------------
(* The chain.                                                              *)

\* A block takes what is within its window: nothing its caller holds for
\* settled, dead or expired.
LEMMA BlockStep == IInv /\ Block => IInv'
  <1>. SUFFICES ASSUME IInv, Block PROVE IInv'
    OBVIOUS
  <1>1. TypeOK /\ ChainInv /\ ToldInv /\ ReplaceInv
    BY DEF IInv
  <1>2. height < MaxHeight /\ height' = height + 1 /\ UNCHANGED <<born, sent, past, told>>
    BY DEF Block
  <1>3. PICK S \in SUBSET {k \in Txs : CanLand(k)}, ok \in BOOLEAN :
          /\ landed' = [k \in Txs |-> IF k \in S THEN height + 1 ELSE landed[k]]
          /\ fate' = [k \in Txs |-> IF k \in S THEN ok ELSE fate[k]]
    BY DEF Block
  <1>4. ASSUME NEW k \in Txs
        PROVE  \/ landed'[k] = landed[k] /\ fate'[k] = fate[k]
               \/ CanLand(k) /\ landed'[k] = height + 1 /\ fate'[k] \in BOOLEAN
    BY <1>3
  <1>5. TypeOK'
    <2>1. height' \in FinalLag .. MaxHeight
      BY <1>1, <1>2, Naturals6 DEF TypeOK
    <2>2. landed' \in [Txs -> 0 .. MaxHeight]
      BY <1>1, <1>2, <1>3, Naturals6 DEF TypeOK
    <2>3. fate' \in [Txs -> BOOLEAN]
      BY <1>1, <1>3 DEF TypeOK
    <2>4. \A k \in Txs : OnChain(k)' => Built(k)' /\ k \in sent'
      BY <1>1, <1>2, <1>4 DEF TypeOK, OnChain, Built, CanLand
    <2>. QED BY <1>1, <1>2, <2>1, <2>2, <2>3, <2>4 DEF TypeOK
  <1>6. ChainInv'
    <2>. SUFFICES ASSUME NEW k \in Txs
                  PROVE  /\ Built(k)' => born'[k] + FinalLag <= height'
                         /\ OnChain(k)' => landed'[k] <= height' /\ landed'[k] <= LastValid(k)'
      BY DEF ChainInv
    <2>1. CASE landed'[k] = landed[k]
      BY <2>1, <1>1, <1>2, Types, Naturals6 DEF ChainInv, Built, OnChain, LastValid
    <2>2. CASE CanLand(k) /\ landed'[k] = height + 1
      BY <2>2, <1>1, <1>2, Types, Naturals6 DEF ChainInv, CanLand, Built, OnChain, LastValid
    <2>. QED BY <2>1, <2>2, <1>4
  <1>7. ToldInv'
    <2>. SUFFICES ASSUME NEW k \in Txs
                  PROVE  /\ k \in past => Built(k)' /\ height' > LastValid(k)' + Margin
                         /\ "dead" \in told[k] => k \in past /\ (MarginCovers => ~OnChain(k)')
                         /\ "failed" \in told[k] => OnChain(k)' /\ ~fate'[k]
                         /\ "expired" \in told[k] /\ Lag <= FinalLag =>
                              Built(k)' /\ height' > LastValid(k)'
      BY <1>2 DEF ToldInv, MarginCovers
    <2>1. k \in past => Built(k)' /\ height' > LastValid(k)' + Margin
      BY <1>1, <1>2, Types, Naturals6 DEF ToldInv, Built, LastValid
    <2>2. "dead" \in told[k] => k \in past /\ (MarginCovers => ~OnChain(k)')
      <3>1. k \in past => ~CanLand(k)
        BY <1>1, Types, Naturals6 DEF ToldInv, CanLand, LastValid
      <3>. QED BY <3>1, <1>1, <1>4 DEF ToldInv, OnChain
    <2>3. "failed" \in told[k] => OnChain(k)' /\ ~fate'[k]
      BY <1>1, <1>4 DEF ToldInv, OnChain, CanLand
    <2>4. "expired" \in told[k] /\ Lag <= FinalLag => Built(k)' /\ height' > LastValid(k)'
      BY <1>1, <1>2, Types, Naturals6 DEF ToldInv, Built, LastValid
    <2>. QED BY <2>1, <2>2, <2>3, <2>4
  <1>8. ReplaceInv'
    BY <1>1, <1>2 DEF ReplaceInv, Built, Earlier
  <1>. QED BY <1>5, <1>6, <1>7, <1>8 DEF IInv

-----------------------------------------------------------------------------
(* The caller.                                                             *)

\* A step that gives the caller true answers about one transaction.
LEMMA TellStep ==
  ASSUME IInv, NEW k \in Txs, NEW A \in SUBSET Answers,
         told' = [told EXCEPT ![k] = @ \cup A],
         sent \subseteq sent', sent' \subseteq Txs,
         UNCHANGED <<height, landed, fate, born, past>>,
         "dead" \in A => k \in past /\ (MarginCovers => ~OnChain(k)),
         "failed" \in A => OnChain(k) /\ ~fate[k],
         "expired" \in A /\ Lag <= FinalLag => Built(k) /\ height > LastValid(k)
  PROVE  IInv'
  <1>1. TypeOK /\ ChainInv /\ ToldInv /\ ReplaceInv
    BY DEF IInv
  <1>2. \A j \in Txs : told'[j] = IF j = k THEN told[j] \cup A ELSE told[j]
    BY <1>1 DEF TypeOK
  <1>3. TypeOK'
    <2>1. told' \in [Txs -> SUBSET Answers]
      BY <1>1 DEF TypeOK
    <2>. QED BY <1>1, <2>1 DEF TypeOK, OnChain, Built
  <1>4. ChainInv'
    BY <1>1 DEF ChainInv, Built, OnChain, LastValid
  <1>5. ToldInv'
    <2>. SUFFICES ASSUME NEW j \in Txs
                  PROVE  /\ j \in past => Built(j) /\ height > LastValid(j) + Margin
                         /\ "dead" \in told'[j] => j \in past /\ (MarginCovers => ~OnChain(j))
                         /\ "failed" \in told'[j] => OnChain(j) /\ ~fate[j]
                         /\ "expired" \in told'[j] /\ Lag <= FinalLag =>
                              Built(j) /\ height > LastValid(j)
      BY DEF ToldInv, Built, OnChain, LastValid, MarginCovers
    <2>1. CASE j = k
      BY <2>1, <1>1, <1>2 DEF ToldInv
    <2>2. CASE j # k
      BY <2>2, <1>1, <1>2 DEF ToldInv
    <2>. QED BY <2>1, <2>2
  <1>6. ReplaceInv'
    <2>1. \A j \in Txs : told[j] \subseteq told'[j]
      BY <1>2
    <2>. QED BY <1>1, <2>1 DEF ReplaceInv, Built, Earlier
  <1>. QED BY <1>3, <1>4, <1>5, <1>6 DEF IInv

\* A node knows every finalized blockhash, so the one it does not find is old.
LEMMA BroadcastStep ==
  ASSUME IInv, NEW k \in Txs, Broadcast(k)
  PROVE  IInv'
  <1>1. Built(k) /\ UNCHANGED <<height, landed, fate, born, past>>
    BY DEF Broadcast, chainVars
  <1>2. PICK v \in Views, path \in Paths :
          LET reply == IF path = "direct" THEN Preflight(k, v) ELSE Engine(k, v)
          IN  /\ sent' = IF reply = "accepted" THEN sent \cup {k} ELSE sent
              /\ Tell(k, IF path = "direct" THEN Direct(reply) ELSE Jito(reply))
    BY DEF Broadcast
  <1>. DEFINE reply == IF path = "direct" THEN Preflight(k, v) ELSE Engine(k, v)
              A == IF path = "direct" THEN Direct(reply) ELSE Jito(reply)
  <1>3. told' = [told EXCEPT ![k] = @ \cup A]
    BY <1>2 DEF Tell
  <1>4. A \subseteq {"expired", "rejected"}
    BY DEF Direct, Jito
  <1>5. "expired" \in A => v < born[k] \/ v > LastValid(k)
    BY DEF Direct, Jito, Preflight
  <1>6. "expired" \in A /\ Lag <= FinalLag => height > LastValid(k)
    <2>1. v \in Nat /\ v <= height /\ height <= v + Lag
      BY Types, Naturals6 DEF Views
    <2>2. born[k] + FinalLag <= height
      BY <1>1 DEF IInv, ChainInv
    <2>3. LastValid(k) \in Int
      BY Types, Naturals6 DEF LastValid
    <2>. QED BY <1>5, <2>1, <2>2, <2>3, Types, Naturals6
  <1>7. sent \subseteq sent' /\ sent' \subseteq Txs
    BY <1>2 DEF IInv, TypeOK
  <1>8. A \in SUBSET Answers
    BY <1>4 DEF Answers
  <1>. HIDE DEF A
  <1>. QED BY <1>1, <1>3, <1>4, <1>6, <1>7, <1>8, TellStep

\* Past the margin every node a status is read from has the last block the
\* transaction could be in.
LEMMA ReadStatusStep ==
  ASSUME IInv, NEW k \in Txs, ReadStatus(k)
  PROVE  IInv'
  <1>1. Built(k) /\ UNCHANGED <<height, landed, fate, born, past, sent>>
    BY DEF ReadStatus, chainVars
  <1>2. PICK tx \in Views, sig \in Views, pruned \in BOOLEAN :
          Tell(k, Verdict(k, StatusOnce(k, tx, sig, pruned)))
    BY DEF ReadStatus
  <1>. DEFINE found == StatusOnce(k, tx, sig, pruned)
              A == Verdict(k, found)
  <1>3. told' = [told EXCEPT ![k] = @ \cup A]
    BY <1>2 DEF Tell
  <1>4. found \in {"success", "failed", "pending", "notFound"}
    BY DEF StatusOnce, Settled
  <1>5. "failed" \in A => OnChain(k) /\ ~fate[k]
    BY Types DEF Verdict, StatusOnce, Settled, SeenIn
  <1>6. "dead" \in A => k \in past /\ ~SeenIn(k, sig)
    BY <1>4 DEF Verdict, StatusOnce, Settled
  <1>7. k \in past /\ ~SeenIn(k, sig) /\ MarginCovers => ~OnChain(k)
    <2>. SUFFICES ASSUME k \in past, MarginCovers, OnChain(k) PROVE SeenIn(k, sig)
      OBVIOUS
    <2>1. height > LastValid(k) + Margin
      BY DEF IInv, ToldInv
    <2>2. landed[k] <= LastValid(k)
      BY DEF IInv, ChainInv
    <2>3. sig \in Nat /\ height <= sig + Lag
      BY Types, Naturals6 DEF Views
    <2>4. LastValid(k) \in Int
      BY Types, Naturals6 DEF LastValid
    <2>. QED BY <2>1, <2>2, <2>3, <2>4, Types, Naturals6 DEF SeenIn, MarginCovers
  <1>8. A \subseteq {"success", "failed", "dead"}
    BY <1>4 DEF Verdict
  <1>9. A \in SUBSET Answers
    BY <1>8 DEF Answers
  <1>10. sent' \subseteq Txs
    BY <1>1 DEF IInv, TypeOK
  <1>. HIDE DEF A
  <1>. QED BY <1>1, <1>3, <1>5, <1>6, <1>7, <1>8, <1>9, <1>10, TellStep

LEMMA SeesPastStep ==
  ASSUME IInv, NEW k \in Txs, SeesPast(k)
  PROVE  IInv'
  <1>1. TypeOK /\ ChainInv /\ ToldInv /\ ReplaceInv
    BY DEF IInv
  <1>2. Built(k) /\ past' = past \cup {k} /\ UNCHANGED <<height, landed, fate, born, sent, told>>
    BY DEF SeesPast, chainVars
  <1>3. height > LastValid(k) + Margin
    <2>1. PICK tip \in Views : tip > LastValid(k) + Margin
      BY DEF SeesPast, Past
    <2>2. tip \in Nat /\ tip <= height
      BY Types DEF Views
    <2>3. LastValid(k) \in Int
      BY Types, Naturals6 DEF LastValid
    <2>. QED BY <2>1, <2>2, <2>3, Types, Naturals6
  <1>4. TypeOK' /\ ChainInv' /\ ReplaceInv'
    BY <1>1, <1>2 DEF TypeOK, ChainInv, ReplaceInv, Built, OnChain, LastValid, Earlier
  <1>5. ToldInv'
    BY <1>1, <1>2, <1>3 DEF ToldInv, Built, OnChain, LastValid, MarginCovers
  <1>. QED BY <1>4, <1>5 DEF IInv

LEMMA BuildStep ==
  ASSUME IInv, NEW k \in Txs, Build(k)
  PROVE  IInv'
  <1>1. TypeOK /\ ChainInv /\ ToldInv /\ ReplaceInv
    BY DEF IInv
  <1>2. ~Built(k) /\ UNCHANGED <<height, landed, fate, sent, past, told>>
        /\ \A j \in Earlier(k) : Built(j) /\ MayReplace(j)
    BY DEF Build, chainVars
  <1>3. PICK b \in Blockhashes : born' = [born EXCEPT ![k] = b]
    BY DEF Build
  <1>4. b \in Nat /\ b + FinalLag <= height
    BY Types, Naturals6 DEF Blockhashes, Views
  <1>5. \A j \in Txs : born'[j] = IF j = k THEN b ELSE born[j]
    BY <1>1, <1>3 DEF TypeOK
  <1>6. k \notin past /\ ~OnChain(k)
    BY <1>1, <1>2 DEF ToldInv, TypeOK
  <1>7. TypeOK'
    <2>1. born' \in [Txs -> -1 .. MaxHeight]
      BY <1>1, <1>3, <1>4, Types, Naturals6 DEF TypeOK
    <2>2. \A j \in Txs : OnChain(j) => Built(j)' /\ j \in sent
      BY <1>1, <1>5, <1>6 DEF TypeOK, Built
    <2>. QED BY <1>1, <1>2, <2>1, <2>2 DEF TypeOK, OnChain
  <1>8. ChainInv'
    <2>. SUFFICES ASSUME NEW j \in Txs
                  PROVE  /\ Built(j)' => born'[j] + FinalLag <= height
                         /\ OnChain(j) => landed[j] <= height /\ landed[j] <= LastValid(j)'
      BY <1>2 DEF ChainInv, OnChain
    <2>1. CASE j = k
      BY <2>1, <1>4, <1>5, <1>6
    <2>2. CASE j # k
      BY <2>2, <1>1, <1>5 DEF ChainInv, Built, LastValid
    <2>. QED BY <2>1, <2>2
  <1>9. ToldInv'
    <2>. SUFFICES ASSUME NEW j \in Txs
                  PROVE  /\ j \in past => Built(j)' /\ height > LastValid(j)' + Margin
                         /\ "dead" \in told[j] => j \in past /\ (MarginCovers => ~OnChain(j))
                         /\ "failed" \in told[j] => OnChain(j) /\ ~fate[j]
                         /\ "expired" \in told[j] /\ Lag <= FinalLag =>
                              Built(j)' /\ height > LastValid(j)'
      BY <1>2 DEF ToldInv, OnChain, MarginCovers
    <2>1. CASE j = k
      BY <2>1, <1>1, <1>2, <1>6 DEF ToldInv
    <2>2. CASE j # k
      BY <2>2, <1>1, <1>5 DEF ToldInv, Built, LastValid
    <2>. QED BY <2>1, <2>2
  <1>10. ReplaceInv'
    <2>. SUFFICES ASSUME Rule = "expiry", NEW i \in Txs, Built(i)', NEW j \in Earlier(i)
                  PROVE  told[j] \cap {"failed", "dead"} # {}
      BY <1>2 DEF ReplaceInv, Earlier
    <2>1. CASE i = k
      BY <2>1, <1>2 DEF MayReplace
    <2>2. CASE i # k
      BY <2>2, <1>1, <1>5 DEF ReplaceInv, Built
    <2>. QED BY <2>1, <2>2
  <1>. QED BY <1>7, <1>8, <1>9, <1>10 DEF IInv

LEMMA InvStep == IInv /\ [Next]_vars => IInv'
  <1>. SUFFICES ASSUME IInv, [Next]_vars PROVE IInv'
    OBVIOUS
  <1>1. ASSUME NEW k \in Txs, BroadcastFails(k) PROVE IInv'
    <2>1. sent \subseteq sent' /\ sent' \subseteq Txs /\ UNCHANGED <<height, landed, fate, born, past, told>>
      BY <1>1 DEF BroadcastFails, chainVars, IInv, TypeOK
    <2>. DEFINE A == {}
    <2>2. told' = [told EXCEPT ![k] = @ \cup A]
      BY <2>1 DEF IInv, TypeOK
    <2>3. A \in SUBSET Answers /\ "dead" \notin A /\ "failed" \notin A /\ "expired" \notin A
      OBVIOUS
    <2>. HIDE DEF A
    <2>. QED BY <2>1, <2>2, <2>3, TellStep
  <1>2. CASE UNCHANGED vars
    BY <1>2 DEF vars, chainVars, IInv, TypeOK, ChainInv, ToldInv, ReplaceInv, Built, OnChain,
                LastValid, Earlier, MarginCovers
  <1>. QED BY <1>1, <1>2, BlockStep, BuildStep, BroadcastStep, SeesPastStep, ReadStatusStep DEF Next

-----------------------------------------------------------------------------
(* What it says.                                                           *)

THEOREM Invariance == Spec => []IInv
  BY InvInit, InvStep, PTL DEF Spec

\* A transaction held for dead is not on the chain and never will be.
THEOREM DeadIsDead == Spec => []DeadNeverLands
  <1>1. IInv => DeadNeverLands
    BY DEF IInv, ToldInv, DeadNeverLands
  <1>. QED BY <1>1, Invariance, PTL

\* A caller that goes by the height and the status makes the payment once.
THEOREM PaysOnce ==
  ASSUME Rule = "expiry", MarginCovers
  PROVE  Spec => []PaidOnce
  <1>1. IInv => PaidOnce
    <2>. SUFFICES ASSUME IInv PROVE PaidOnce
      OBVIOUS
    <2>. DEFINE Paid == {k \in Txs : OnChain(k) /\ fate[k]}
    <2>1. \A j, k \in Paid : ~(j < k)
      <3>. SUFFICES ASSUME NEW j \in Paid, NEW k \in Paid, j < k PROVE FALSE
        OBVIOUS
      <3>1. Built(k)
        BY DEF IInv, TypeOK
      <3>2. "failed" \in told[j] \/ "dead" \in told[j]
        BY <3>1 DEF IInv, ReplaceInv, Earlier
      <3>. QED BY <3>2 DEF IInv, ToldInv
    <2>2. \A j, k \in Paid : j = k
      BY <2>1, SolanaAssumption
    <2>3. Paid = {} \/ \E k : Paid = {k}
      BY <2>2
    <2>4. Cardinality(Paid) <= 1
      BY <2>3, FS_EmptySet, FS_Singleton
    <2>. QED BY <2>4 DEF PaidOnce
  <1>. QED BY <1>1, Invariance, PTL

\* What BlockhashExpired was said of does not land any more.
THEOREM ExpiredStaysOff == Spec => ExpiredIsOver
  <1>1. IInv /\ [Next]_vars =>
          [Lag <= FinalLag => \A k \in Txs : "expired" \in told[k] => landed'[k] = landed[k]]_vars
    <2>. SUFFICES ASSUME IInv, [Next]_vars, Lag <= FinalLag, NEW k \in Txs, "expired" \in told[k]
                  PROVE  landed'[k] = landed[k]
      OBVIOUS
    <2>1. height > LastValid(k)
      BY DEF IInv, ToldInv
    <2>2. ~CanLand(k)
      BY <2>1, Types, Naturals6 DEF CanLand, LastValid
    <2>3. CASE Block
      BY <2>2, <2>3 DEF Block
    <2>4. CASE UNCHANGED landed
      BY <2>4
    <2>. QED BY <2>3, <2>4 DEF Next, Build, Broadcast, BroadcastFails, SeesPast, ReadStatus,
                               chainVars, vars
  <1>. QED BY <1>1, Invariance, PTL DEF Spec, ExpiredIsOver

-----------------------------------------------------------------------------
(* The documented way implements PaymentOnce.                              *)

Paid == {k \in Txs : OnChain(k) /\ fate[k]}

\* What the invariant says of the transactions before one that is built.
LEMMA EarlierIsOver ==
  ASSUME IInv, Rule = "expiry", MarginCovers, NEW j \in Txs, told[j] \cap {"failed", "dead"} # {}
  PROVE  Built(j) /\ j \notin Holders /\ j \notin Paid
  <1>1. CASE "failed" \in told[j]
    BY <1>1 DEF IInv, TypeOK, ToldInv, Holders, Paid
  <1>2. CASE "dead" \in told[j]
    <2>1. Built(j) /\ height > LastValid(j) + Margin /\ ~OnChain(j)
      BY <1>2 DEF IInv, ToldInv
    <2>2. ~(height < LastValid(j))
      BY <2>1, Types, Naturals6 DEF LastValid
    <2>. QED BY <2>1, <2>2 DEF Holders, Paid
  <1>. QED BY <1>1, <1>2

\* Of the transactions one at most can still land or was made.
LEMMA OneHolds ==
  ASSUME IInv, Rule = "expiry", MarginCovers,
         NEW j \in Holders \cup Paid, NEW k \in Holders \cup Paid
  PROVE  j = k
  <1>1. j \in Txs /\ k \in Txs /\ Built(j) /\ Built(k)
    BY DEF Holders, Paid, IInv, TypeOK
  <1>2. ~(j < k) /\ ~(k < j)
    BY <1>1, EarlierIsOver DEF IInv, ReplaceInv, Earlier
  <1>. QED BY <1>1, <1>2, SolanaAssumption

LEMMA FinitePaid ==
  ASSUME IInv, Rule = "expiry", MarginCovers
  PROVE  IsFiniteSet(Paid) /\ (Paid = {} => Cardinality(Paid) = 0)
  <1>1. Paid = {} \/ \E k : Paid = {k}
    BY OneHolds
  <1>. QED BY <1>1, FS_EmptySet, FS_Singleton

LEMMA OnceInit == Init => Once!Init
  <1>. SUFFICES ASSUME Init PROVE Once!Init
    OBVIOUS
  <1>1. \A k \in Txs : ~Built(k) /\ ~OnChain(k)
    BY DEF Init, Built, OnChain
  <1>2. Holders = {} /\ {k \in Txs : OnChain(k) /\ fate[k]} = {}
    BY <1>1 DEF Holders
  <1>. QED BY <1>2, FS_EmptySet DEF Once!Init

LEMMA OnceBuild ==
  ASSUME IInv, Rule = "expiry", MarginCovers, NEW k \in Txs, Build(k)
  PROVE  [Once!Next]_(Once!vars)
  <1>1. /\ ~Built(k) /\ UNCHANGED <<height, landed, fate>>
        /\ \A j \in Earlier(k) : Built(j) /\ told[j] \cap {"failed", "dead"} # {}
        /\ \A j \in Txs : j # k => born'[j] = born[j]
    BY DEF Build, MayReplace, chainVars, IInv, TypeOK
  <1>2. \A j \in Txs : Built(j) => told[j] \cap {"failed", "dead"} # {}
    <2>. SUFFICES ASSUME NEW j \in Txs, Built(j) PROVE told[j] \cap {"failed", "dead"} # {}
      OBVIOUS
    <2>1. CASE k < j
      <3>1. told[k] \cap {"failed", "dead"} # {}
        BY <2>1 DEF IInv, ReplaceInv, Earlier
      <3>. QED BY <1>1, <3>1, EarlierIsOver
    <2>2. CASE j < k
      BY <1>1, <2>2 DEF Earlier
    <2>3. j # k
      BY <1>1
    <2>. QED BY <2>1, <2>2, <2>3, SolanaAssumption
  <1>3. Holders = {} /\ Paid = {}
    <2>1. \A j \in Holders \cup Paid : j \in Txs /\ Built(j)
      BY DEF Holders, Paid, IInv, TypeOK
    <2>. QED BY <1>2, <2>1, EarlierIsOver
  <1>4. Cardinality({j \in Txs : OnChain(j) /\ fate[j]}) = 0
    BY <1>3, FS_EmptySet DEF Paid
  <1>5. {j \in Txs : OnChain(j) /\ fate[j]}' = {j \in Txs : OnChain(j) /\ fate[j]}
    BY <1>1 DEF OnChain
  <1>6. Holders' \subseteq {k}
    <2>1. \A j \in Txs : j # k /\ j \in Holders' => j \in Holders
      BY <1>1 DEF Holders, Built, OnChain, LastValid
    <2>2. Holders' \subseteq Txs
      BY DEF Holders
    <2>. QED BY <1>3, <2>1, <2>2
  <1>7. CASE Holders' = {k}
    <2>1. [p \in {"payment"} |-> Holders]' = [[p \in {"payment"} |-> Holders] EXCEPT !["payment"] = {k}]
      BY <1>7
    <2>. QED BY <1>3, <1>4, <1>5, <2>1 DEF Once!Next, Once!Sign
  <1>8. CASE Holders' = {}
    BY <1>3, <1>5, <1>8 DEF Once!vars
  <1>. QED BY <1>6, <1>7, <1>8

LEMMA OnceBlock ==
  ASSUME IInv, Rule = "expiry", MarginCovers, Block
  PROVE  [Once!Next]_(Once!vars)
  <1>1. height' = height + 1 /\ UNCHANGED born
    BY DEF Block
  <1>2. PICK S \in SUBSET {k \in Txs : CanLand(k)}, ok \in BOOLEAN :
          /\ landed' = [k \in Txs |-> IF k \in S THEN height + 1 ELSE landed[k]]
          /\ fate' = [k \in Txs |-> IF k \in S THEN ok ELSE fate[k]]
    BY DEF Block
  <1>3. S \subseteq Holders
    BY DEF CanLand, Holders
  <1>4. Holders' \subseteq Holders \ S
    <2>. SUFFICES ASSUME NEW k \in Txs, k \in Holders' PROVE k \in Holders /\ k \notin S
      BY DEF Holders
    <2>1. height \in Nat /\ born[k] \in Int /\ landed[k] \in Nat
      BY Types
    <2>2. k \notin S
      BY <1>2, <2>1 DEF Holders, OnChain
    <2>. QED BY <1>1, <1>2, <2>1, <2>2, Naturals6 DEF Holders, Built, OnChain, LastValid
  <1>5. {k \in Txs : OnChain(k) /\ fate[k]}' = IF ok THEN Paid \cup S ELSE Paid
    <2>. SUFFICES ASSUME NEW k \in Txs
                  PROVE  (landed'[k] > 0 /\ fate'[k]) <=> k \in (IF ok THEN Paid \cup S ELSE Paid)
      BY DEF OnChain, Paid
    <2>1. CASE k \in S
      <3>1. height + 1 > 0 /\ k \notin Paid
        BY <2>1, Types DEF Paid, CanLand
      <3>. QED BY <1>2, <2>1, <3>1
    <2>2. CASE k \notin S
      BY <1>2, <2>2 DEF OnChain, Paid
    <2>. QED BY <2>1, <2>2
  <1>. DEFINE held == [p \in {"payment"} |-> Holders]
              made == [p \in {"payment"} |-> Cardinality({k \in Txs : OnChain(k) /\ fate[k]})]
  <1>6. held' \in [{"payment"} -> SUBSET Txs] /\ held'["payment"] \subseteq held["payment"]
    BY <1>4 DEF Holders
  <1>7. CASE S = {} \/ ~ok
    <2>1. made' = made
      BY <1>5, <1>7 DEF Paid
    <2>. QED BY <1>6, <2>1 DEF Once!Next, Once!Lapse, Once!Fewer
  <1>8. CASE S # {} /\ ok
    <2>1. PICK k \in S : S = {k}
      BY <1>3, <1>8, OneHolds
    <2>2. Holders' = {} /\ Holders # {} /\ k \notin Paid
      BY <1>3, <1>4, <2>1, OneHolds DEF Paid, Holders
    <2>3. Cardinality(Paid \cup {k}) = Cardinality(Paid) + 1
      BY <2>2, FinitePaid, FS_AddElement
    <2>4. made' = [made EXCEPT !["payment"] = @ + 1]
      BY <1>5, <1>8, <2>1, <2>3 DEF Paid
    <2>5. held["payment"] # {} /\ held'["payment"] = {}
      BY <2>2
    <2>. QED BY <1>6, <2>4, <2>5 DEF Once!Next, Once!Pay, Once!Fewer
  <1>. QED BY <1>7, <1>8

\* What callers that go by the height and the status sign, and the chain includes,
\* behaves as PaymentOnce says: every step is one of its steps, or none.
THEOREM ImplementsPaymentOnce ==
  ASSUME Rule = "expiry", MarginCovers
  PROVE  Spec => PaysAtMostOnce
  <1>1. IInv /\ [Next]_vars => [Once!Next]_(Once!vars)
    <2>. SUFFICES ASSUME IInv, [Next]_vars PROVE [Once!Next]_(Once!vars)
      OBVIOUS
    <2>1. CASE UNCHANGED <<height, landed, fate, born>>
      BY <2>1 DEF Once!vars, Holders, Built, OnChain, LastValid
    <2>2. ASSUME NEW k \in Txs, Broadcast(k) \/ BroadcastFails(k) \/ SeesPast(k) \/ ReadStatus(k)
          PROVE  UNCHANGED <<height, landed, fate, born>>
      BY <2>2 DEF Broadcast, BroadcastFails, SeesPast, ReadStatus, chainVars
    <2>3. CASE UNCHANGED vars
      BY <2>1, <2>3 DEF vars, chainVars
    <2>. QED BY <2>1, <2>2, <2>3, OnceBuild, OnceBlock DEF Next
  <1>. QED BY <1>1, OnceInit, Invariance, PTL DEF Spec, PaysAtMostOnce, Once!Spec

-----------------------------------------------------------------------------
(* The status of one transaction (SolanaWait).                             *)

Levels == {"none", "processed", "confirmed", "finalized"}
InBlock == {"confirmed", "finalized"}

\* A block that was voted for stays, so whatever any node tells of it holds now.
SeenInv ==
  /\ block \in [level : Levels, ok : BOOLEAN] /\ seen \subseteq [level : Levels, ok : BOOLEAN]
  /\ \A s \in seen :
       /\ s.level \in InBlock => block.level \in InBlock /\ block.ok = s.ok
       /\ s.level = "finalized" => block.level = "finalized"

\* What a read that is final says, of the chain as it is.
HoldsOf(said) ==
  W!IsFinal(said) =>
    /\ block.level \in InBlock
    /\ block.ok <=> said.status = "Success"
    /\ said.confirmations = 32 => block.level = "finalized"

CallInv ==
  /\ DOMAIN call = {"step", "opts", "last"}
  /\ call.step \in {"idle", "read", "finality", "sleep", "done"}
  /\ call.step \in {"read", "finality", "sleep"} => call.opts \in Options /\ ~W!Refused(call.opts)
  /\ call.step = "finality" => HoldsOf(call.last)
  /\ call.step # "done" => ~W!IsFinal(status)
  /\ HoldsOf(status)
  /\ W!IsFinal(status) /\ call.opts.confirmations >= 32 => block.level = "finalized"

WaitInv == SeenInv /\ CallInv

LEMMA WaitInit == W!Init => WaitInv
  <1>. SUFFICES ASSUME W!Init PROVE WaitInv
    OBVIOUS
  <1>1. SeenInv
    BY DEF W!Init, SeenInv, W!Nowhere, W!At, Levels, InBlock
  <1>2. call.step = "idle" /\ status.kind = "none" /\ DOMAIN call = {"step", "opts", "last"}
    BY DEF W!Init, W!NotSaid, W!Error
  <1>. QED BY <1>1, <1>2 DEF WaitInv, CallInv, HoldsOf, W!IsFinal

\* The cluster's steps take back nothing that is in a block which was voted for.
LEMMA ClusterStep == WaitInv /\ (W!Include \/ W!Vote \/ W!Fork) => WaitInv'
  <1>. SUFFICES ASSUME WaitInv, W!Include \/ W!Vote \/ W!Fork PROVE WaitInv'
    OBVIOUS
  <1>1. UNCHANGED <<call, status>>
    BY DEF W!Include, W!Vote, W!Fork, W!Moves
  <1>2. PICK next \in [level : Levels, ok : BOOLEAN] :
          /\ block' = next /\ seen' = seen \cup {next}
          /\ block.level \in InBlock => next.level \in InBlock /\ next.ok = block.ok
          /\ block.level = "finalized" => next.level = "finalized"
    <2>1. block.level \in Levels /\ block.ok \in BOOLEAN
      BY DEF WaitInv, SeenInv
    <2>2. CASE W!Include
      BY <2>2 DEF W!Include, W!Moves, W!Nowhere, W!At, Levels, InBlock
    <2>3. CASE W!Vote
      BY <2>1, <2>3 DEF W!Vote, W!Moves, W!At, Levels, InBlock
    <2>4. CASE W!Fork
      BY <2>4 DEF W!Fork, W!Moves, W!Nowhere, W!At, Levels, InBlock
    <2>. QED BY <2>2, <2>3, <2>4
  <1>3. SeenInv'
    BY <1>2 DEF WaitInv, SeenInv, InBlock
  <1>4. ASSUME NEW said, HoldsOf(said)
        PROVE  W!IsFinal(said) =>
                 /\ block'.level \in InBlock
                 /\ block'.ok <=> said.status = "Success"
                 /\ said.confirmations = 32 => block'.level = "finalized"
    BY <1>2, <1>4 DEF HoldsOf
  <1>5. HoldsOf(status)' /\ (call.step = "finality" => HoldsOf(call.last)')
    BY <1>1, <1>4 DEF WaitInv, CallInv, HoldsOf, W!IsFinal
  <1>6. CallInv'
    BY <1>1, <1>2, <1>5 DEF WaitInv, CallInv, W!IsFinal, W!Refused
  <1>. QED BY <1>3, <1>6 DEF WaitInv

\* One read, from nodes that trail: a verdict is of a state that there was.
LEMMA ReadHolds ==
  ASSUME SeenInv, NEW tx \in W!TransactionReplies, NEW signature \in W!SignatureReplies
  PROVE  HoldsOf(W!getSolanaStatusOnce(tx, signature))
  <1>. DEFINE said == W!getSolanaStatusOnce(tx, signature)
  <1>1. \/ tx.kind \in {"error", "null", "noMeta"}
        \/ tx.kind = "tx" /\ \E s \in seen : s.level \in InBlock /\ tx.ok = s.ok
    BY DEF W!TransactionReplies, W!Error, W!Fetched, W!Fetchable, InBlock
  <1>2. \/ signature.level = "error"
        \/ signature \in seen /\ signature.level \in Levels /\ signature.ok \in BOOLEAN
    BY DEF W!SignatureReplies, W!At, SeenInv
  <1>3. CASE tx.kind = "tx"
    <2>1. said = W!Says(IF tx.ok THEN "Success" ELSE "Failed", signature)
      BY <1>3 DEF W!getSolanaStatusOnce
    <2>2. said.confirmations = 32 => signature.level = "finalized"
      BY <2>1 DEF W!Says, W!Confirmations
    <2>3. said.confirmations = 32 => block.level = "finalized"
      BY <1>2, <2>2 DEF SeenInv
    <2>4. said.status = IF tx.ok THEN "Success" ELSE "Failed"
      BY <2>1 DEF W!Says
    <2>5. block.level \in InBlock /\ block.ok = tx.ok
      BY <1>1, <1>3 DEF SeenInv
    <2>. QED BY <2>3, <2>4, <2>5 DEF HoldsOf
  <1>4. CASE tx.kind = "null"
    <2>1. said = W!FromSignature(signature)
      BY <1>4 DEF W!getSolanaStatusOnce
    <2>2. W!IsFinal(said) => /\ W!Settled(signature) /\ ~signature.ok
                             /\ said = W!Says("Failed", signature)
      BY <2>1 DEF W!FromSignature, W!IsFinal, W!Error, W!Says
    <2>3. W!IsFinal(said) => said.status = "Failed"
                             /\ (said.confirmations = 32 => signature.level = "finalized")
      BY <2>2 DEF W!Says, W!Confirmations
    <2>4. W!IsFinal(said) => signature \in seen /\ signature.level \in InBlock
      BY <1>2, <2>2 DEF W!Settled, InBlock
    <2>. QED BY <2>2, <2>3, <2>4 DEF HoldsOf, SeenInv
  <1>5. CASE tx.kind \in {"error", "noMeta"}
    BY <1>5 DEF W!getSolanaStatusOnce, HoldsOf, W!IsFinal, W!Error, W!Says
  <1>. QED BY <1>1, <1>3, <1>4, <1>5

\* A call ends with what it read, or goes on.
LEMMA ReturnHolds ==
  ASSUME WaitInv, NEW said, W!Return(said), HoldsOf(said),
         W!IsFinal(said) /\ call.opts.confirmations >= 32 => block.level = "finalized"
  PROVE  WaitInv'
  <1>1. call' = [call EXCEPT !.step = "done"] /\ status' = said /\ UNCHANGED <<block, seen>>
    BY DEF W!Return, W!Chain
  <1>2. SeenInv'
    BY <1>1 DEF WaitInv, SeenInv
  <1>3. HoldsOf(status)'
    BY <1>1 DEF HoldsOf, W!IsFinal
  <1>4. call'.step = "done" /\ call'.opts = call.opts /\ DOMAIN call' = DOMAIN call
    BY <1>1 DEF WaitInv, CallInv
  <1>. QED BY <1>1, <1>2, <1>3, <1>4 DEF WaitInv, CallInv, W!IsFinal

LEMMA ErrorIsNotFinal ==
  ASSUME NEW kind, kind # "status"
  PROVE  ~W!IsFinal(W!Error(kind)) /\ HoldsOf(W!Error(kind))
  BY DEF W!IsFinal, W!Error, HoldsOf

LEMMA ThrowHolds == ASSUME WaitInv, NEW kind, kind # "status", W!Return(W!Error(kind)) PROVE WaitInv'
  BY ErrorIsNotFinal, ReturnHolds

LEMMA GoHolds ==
  ASSUME WaitInv, call.step \in {"read", "finality", "sleep"},
         NEW step \in {"read", "sleep"}, W!Go(step)
  PROVE  WaitInv'
  <1>1. call' = [call EXCEPT !.step = step] /\ UNCHANGED <<block, seen, status>>
    BY DEF W!Go, W!Chain
  <1>2. call'.step = step /\ call'.opts = call.opts /\ DOMAIN call' = DOMAIN call
    BY <1>1 DEF WaitInv, CallInv
  <1>. QED BY <1>1, <1>2 DEF WaitInv, SeenInv, CallInv, HoldsOf, W!IsFinal, W!Refused

LEMMA PollOnHolds == ASSUME WaitInv, call.step \in {"read", "finality"}, W!PollOn PROVE WaitInv'
  BY GoHolds, ThrowHolds DEF W!PollOn

LEMMA AskHolds == WaitInv /\ W!Ask => WaitInv'
  <1>. SUFFICES ASSUME WaitInv, W!Ask PROVE WaitInv'
    OBVIOUS
  <1>1. PICK opts \in Options :
          LET refused == W!Refused(opts) \/ (opts.wait /\ stop)
          IN  /\ call' = [call EXCEPT !.step = IF refused THEN "done" ELSE "read", !.opts = opts]
              /\ status' = IF refused THEN W!Error("invalid") ELSE status
    BY DEF W!Ask
  <1>. DEFINE refused == W!Refused(opts) \/ (opts.wait /\ stop)
  <1>2. call.step = "idle" /\ UNCHANGED <<block, seen>>
    BY DEF W!Ask, W!Chain
  <1>3. ~W!IsFinal(status)'
    BY <1>1, <1>2, ErrorIsNotFinal DEF WaitInv, CallInv, W!IsFinal
  <1>4. call'.step = (IF refused THEN "done" ELSE "read") /\ call'.opts = opts /\ DOMAIN call' = DOMAIN call
    BY <1>1, <1>2 DEF WaitInv, CallInv
  <1>. QED BY <1>2, <1>3, <1>4 DEF WaitInv, SeenInv, CallInv, HoldsOf, W!IsFinal, W!Refused

\* A caller who waits for a finalized block, or is told of one, is told so after a
\* second read that found it finalized.
LEMMA ReadStepHolds == WaitInv /\ W!Read => WaitInv'
  <1>. SUFFICES ASSUME WaitInv, W!Read PROVE WaitInv'
    OBVIOUS
  <1>1. call.step = "read" /\ call.opts \in Options /\ ~W!Refused(call.opts)
    BY DEF W!Read, WaitInv, CallInv
  <1>2. PICK tx \in W!TransactionReplies, signature \in W!SignatureReplies :
          LET last == W!getSolanaStatusOnce(tx, signature)
              wantFinalized == call.opts.confirmations >= 32
          IN  IF last.kind # "status" \/ ~call.opts.wait \/ (W!IsFinal(last) /\ ~wantFinalized)
              THEN W!Return(last)
              ELSE IF W!IsFinal(last)
              THEN call' = [call EXCEPT !.step = "finality", !.last = last]
                   /\ UNCHANGED <<block, seen, status>>
              ELSE W!PollOn
    <2>. USE DEF W!Chain
    <2>. QED BY DEF W!Read
  <1>. DEFINE last == W!getSolanaStatusOnce(tx, signature)
  <1>3. HoldsOf(last)
    BY ReadHolds DEF WaitInv
  <1>4. call.opts.confirmations >= 32 => call.opts.wait
    BY <1>1, CountsAsked DEF W!Refused
  <1>5. CASE last.kind # "status" \/ ~call.opts.wait \/ (W!IsFinal(last) /\ ~(call.opts.confirmations >= 32))
    <2>1. W!Return(last)
      BY <1>2, <1>5
    <2>2. ~(W!IsFinal(last) /\ call.opts.confirmations >= 32)
      BY <1>4, <1>5 DEF W!IsFinal
    <2>. HIDE DEF last
    <2>. QED BY <1>3, <2>1, <2>2, ReturnHolds
  <1>6. CASE /\ call' = [call EXCEPT !.step = "finality", !.last = last]
             /\ UNCHANGED <<block, seen, status>>
    <2>. HIDE DEF last
    <2>1. UNCHANGED <<block, seen, status>>
      BY <1>6
    <2>2. call' = [call EXCEPT !.step = "finality", !.last = last] /\ call.step = "read"
      BY <1>1, <1>6
    <2>3. call'.step = "finality" /\ call'.opts = call.opts /\ call'.last = last
        /\ DOMAIN call' = DOMAIN call
      BY <2>2 DEF WaitInv, CallInv
    <2>. QED BY <1>1, <1>3, <2>1, <2>3 DEF WaitInv, SeenInv, CallInv, HoldsOf, W!IsFinal, W!Refused
  <1>. QED BY <1>1, <1>2, <1>5, <1>6, PollOnHolds

LEMMA CheckFinalityHolds == WaitInv /\ W!CheckFinality => WaitInv'
  <1>. SUFFICES ASSUME WaitInv, W!CheckFinality PROVE WaitInv'
    OBVIOUS
  <1>1. call.step = "finality" /\ HoldsOf(call.last)
    BY DEF W!CheckFinality, WaitInv, CallInv
  <1>2. PICK signature \in W!SignatureReplies :
          CASE signature.level = "error" -> W!Return(W!Error("rpc"))
            [] signature.level = "finalized" -> W!Return(call.last)
            [] OTHER -> W!PollOn
    BY DEF W!CheckFinality
  <1>3. CASE signature.level = "finalized"
    <2>1. block.level = "finalized"
      BY <1>3 DEF W!SignatureReplies, W!At, WaitInv, SeenInv
    <2>2. W!Return(call.last)
      BY <1>2, <1>3
    <2>. QED BY <1>1, <2>1, <2>2, ReturnHolds
  <1>4. CASE signature.level = "error"
    BY <1>2, <1>4, ThrowHolds
  <1>5. CASE signature.level \notin {"error", "finalized"}
    BY <1>1, <1>2, <1>5, PollOnHolds
  <1>. QED BY <1>3, <1>4, <1>5

LEMMA WaitStepHolds == WaitInv /\ [W!Next]_waitVars => WaitInv'
  <1>. SUFFICES ASSUME WaitInv, [W!Next]_waitVars PROVE WaitInv'
    OBVIOUS
  <1>1. ASSUME UNCHANGED <<block, seen, call, status>> PROVE WaitInv'
    BY <1>1 DEF WaitInv, SeenInv, CallInv, HoldsOf, W!IsFinal, W!Refused
  <1>2. CASE UNCHANGED waitVars \/ W!DeadlinePasses \/ W!Abort
    BY <1>1, <1>2 DEF waitVars, W!DeadlinePasses, W!Abort, W!Chain
  <1>3. CASE W!Wake
    <2>1. call.step = "sleep"
      BY <1>3 DEF W!Wake
    <2>2. W!Return(W!Error("aborted")) \/ W!Go("read")
      BY <1>3 DEF W!Wake
    <2>. QED BY <2>1, <2>2, ThrowHolds, GoHolds
  <1>. QED BY <1>2, <1>3, ClusterStep, AskHolds, ReadStepHolds, CheckFinalityHolds DEF W!Next, W!Step

LEMMA SettledHolds == ASSUME WaitInv PROVE W!SettledIsTrue
  BY DEF WaitInv, CallInv, HoldsOf, W!SettledIsTrue, W!IsFinal, InBlock

-----------------------------------------------------------------------------
(* Bundles (SolanaBundle).                                                 *)

Fates == {"waiting", "processed", "confirmed", "finalized", "failed"}

\* What a status of a bundle says, of the bundle as it is.
BundleInv ==
  /\ bundle \in [Bundles -> Fates]
  /\ \A i \in DOMAIN statuses : statuses[i].id \in Bundles
  /\ \A i \in DOMAIN statuses :
       /\ statuses[i].state = "Landed" => bundle[statuses[i].id] \in InBlock
       /\ statuses[i].state = "Failed" => bundle[statuses[i].id] = "failed"

LEMMA BundleInit == J!Init => BundleInv
  BY DEF J!Init, BundleInv, Fates

\* A row of a reply is of a bundle that was asked for, as it is now.
LEMMA RowIsTrue ==
  ASSUME BundleInv, NEW n \in Nat, NEW wanted \in [1..n -> Bundles],
         NEW rows \in J!Replies(wanted), NEW i \in 1..n
  PROVE  LET row == J!RowOf(rows, wanted, i)
         IN  row = J!NoRow \/ row \in J!Rows(wanted[i])
  <1>. DEFINE mine == {k \in DOMAIN rows : rows[k].id = wanted[i]}
              first == CHOOSE k \in mine : \A j \in mine : k <= j
              row == J!RowOf(rows, wanted, i)
  <1>1. PICK m \in 0..n :
          rows \in [1..m -> {J!NoRow} \cup UNION {J!Rows(wanted[k]) : k \in J!Known(wanted)}]
    BY DEF J!Replies
  <1>2. \A k \in DOMAIN rows : rows[k] = J!NoRow \/ \E j \in 1..n : rows[k] \in J!Rows(wanted[j])
    BY <1>1 DEF J!Known
  <1>3. \A k \in mine : rows[k] = J!NoRow \/ rows[k] \in J!Rows(wanted[i])
    BY <1>2 DEF J!Rows
  <1>4. CASE mine = {}
    BY <1>4 DEF J!RowOf
  <1>5. CASE mine # {}
    <2>1. mine \subseteq Nat
      BY <1>1
    <2>2. \E k \in mine : \A j \in mine : k <= j
      <3>. HIDE DEF mine
      <3>. QED BY <1>5, <2>1, LeastNatural
    <2>3. first \in mine
      BY <2>2
    <2>4. row = rows[first]
      BY <1>5 DEF J!RowOf
    <2>. QED BY <1>3, <2>3, <2>4
  <1>. QED BY <1>4, <1>5

LEMMA AnswerHolds == BundleInv /\ J!getBundleStatus => BundleInv'
  <1>. SUFFICES ASSUME BundleInv, J!getBundleStatus PROVE BundleInv'
    OBVIOUS
  <1>1. PICK n \in 1..MaxAsked : \E wanted \in [1..n -> {b \in Bundles : ids[b] = "id"}] :
          \E rows \in J!Replies(wanted) :
            statuses' = [i \in 1..n |-> [id |-> wanted[i], state |-> J!StateOf(J!RowOf(rows, wanted, i))]]
    BY DEF J!getBundleStatus
  <1>2. PICK wanted \in [1..n -> {b \in Bundles : ids[b] = "id"}] : \E rows \in J!Replies(wanted) :
          statuses' = [i \in 1..n |-> [id |-> wanted[i], state |-> J!StateOf(J!RowOf(rows, wanted, i))]]
    BY <1>1
  <1>3. PICK rows \in J!Replies(wanted) :
          statuses' = [i \in 1..n |-> [id |-> wanted[i], state |-> J!StateOf(J!RowOf(rows, wanted, i))]]
    BY <1>2
  <1>4. UNCHANGED <<bundle, ids>> /\ n \in Nat /\ wanted \in [1..n -> Bundles]
    BY DEF J!getBundleStatus
  <1>5. ASSUME NEW i \in 1..n
        PROVE  LET state == J!StateOf(J!RowOf(rows, wanted, i))
               IN  /\ state = "Landed" => bundle[wanted[i]] \in InBlock
                   /\ state = "Failed" => bundle[wanted[i]] = "failed"
    <2>. DEFINE row == J!RowOf(rows, wanted, i)
    <2>1. row = J!NoRow \/ row \in J!Rows(wanted[i])
      BY <1>4, RowIsTrue
    <2>. HIDE DEF row
    <2>2. row = J!NoRow => J!StateOf(row) = "Pending"
      BY DEF J!StateOf
    <2>3. ASSUME row \in J!Rows(wanted[i])
          PROVE  /\ J!StateOf(row) = "Landed" => bundle[wanted[i]] \in InBlock
                 /\ J!StateOf(row) = "Failed" => bundle[wanted[i]] = "failed"
      <3>1. row.level = bundle[wanted[i]] /\ row.err \in J!ShapesOf(wanted[i])
        BY <2>3 DEF J!Rows
      <3>2. J!StateOf(row) = "Failed" => ~J!IsOk(row.err)
        BY DEF J!StateOf
      <3>3. J!StateOf(row) = "Landed" => row.level \in InBlock
        BY DEF J!StateOf, InBlock
      <3>. QED BY <3>1, <3>2, <3>3 DEF J!IsOk, J!ShapesOf
    <2>. QED BY <2>1, <2>2, <2>3 DEF row
  <1>6. \A i \in DOMAIN statuses' :
          /\ statuses'[i].state = "Landed" => bundle[statuses'[i].id] \in InBlock
          /\ statuses'[i].state = "Failed" => bundle[statuses'[i].id] = "failed"
    BY <1>3, <1>5
  <1>7. \A i \in DOMAIN statuses' : statuses'[i].id \in Bundles
    BY <1>3, <1>4
  <1>. QED BY <1>4, <1>6, <1>7 DEF BundleInv

LEMMA BundleStep == BundleInv /\ [J!Next]_bundleVars => BundleInv'
  <1>. SUFFICES ASSUME BundleInv, [J!Next]_bundleVars PROVE BundleInv'
    OBVIOUS
  <1>1. CASE UNCHANGED bundleVars
    BY <1>1 DEF bundleVars, BundleInv
  <1>2. ASSUME NEW b \in Bundles, J!submitJitoBundle(b) PROVE BundleInv'
    BY <1>2 DEF J!submitJitoBundle, BundleInv
  <1>3. ASSUME NEW b \in Bundles, J!Run(b) PROVE BundleInv'
    <2>1. PICK next \in Fates :
            /\ bundle' = [bundle EXCEPT ![b] = next] /\ UNCHANGED <<ids, statuses>>
            /\ bundle[b] \in InBlock => next \in InBlock
            /\ bundle[b] # "failed"
      BY <1>3 DEF J!Run, J!Engine, InBlock, Fates
    <2>2. \A c \in Bundles : /\ bundle[c] \in InBlock => bundle'[c] \in InBlock
                             /\ bundle[c] = "failed" => bundle'[c] = "failed"
      BY <2>1 DEF BundleInv
    <2>3. bundle' \in [Bundles -> Fates]
      BY <2>1 DEF BundleInv
    <2>4. \A i \in DOMAIN statuses : statuses[i].id \in Bundles
      BY DEF BundleInv
    <2>. QED BY <2>1, <2>2, <2>3, <2>4 DEF BundleInv
  <1>. QED BY <1>1, <1>2, <1>3, AnswerHolds DEF J!Next

-----------------------------------------------------------------------------
(* Balance changes (SolanaChanges).                                        *)

\* The rows that decoding adds up: one of lamports of each account, ...
Delta(i) == meta.postBalances[C!AccountKeys[i]] - meta.preBalances[C!AccountKeys[i]]
NativeRows ==
  [i \in DOMAIN C!AccountKeys |->
     [wallet |-> C!AccountKeys[i], asset |-> "SOL", amount |-> Delta(i), skip |-> Delta(i) = 0]]

\* ... and one of tokens of each account and mint.
TokenDelta(e) == C!AmountIn(meta.postTokenBalances, e) - C!AmountIn(meta.preTokenBalances, e)
ToldOwner(e) == CHOOSE o \in C!OwnersOf(e) : TRUE
Untold(e) == TokenDelta(e) = 0 \/ C!OwnersOf(e) = {}
TokenRows ==
  [e \in C!TokenEntries |->
     [wallet |-> ToldOwner(e), asset |-> e.mint, amount |-> TokenDelta(e), skip |-> Untold(e)]]

\* The operators of BalanceChanges, as the instance has them.
LEMMA SameGained == \A held, w, a : C!Gained(held, w, a) = Gained(held, w, a)
  BY DEF C!Gained, C!RowOf, C!NoChanges, C!Has, Gained, RowOf, NoChanges, Has

LEMMA SameUpsert == \A held, w, a, n : C!upsert(held, w, a, n) = upsert(held, w, a, n)
  BY DEF C!upsert, upsert, C!Gained, C!RowOf, C!NoChanges, C!Has, Gained, RowOf, NoChanges, Has,
         C!With, C!Without, With, Without

LEMMA SameNormal == \A held : C!Normal(held) <=> Normal(held)
  BY DEF C!Normal, Normal

LEMMA NativeIsGathered == C!NativeChanges = Gathered(NoChanges, NativeRows, DOMAIN C!AccountKeys)
  <1>. DEFINE S == DOMAIN C!AccountKeys
              One(i, held) == IF Delta(i) = 0 THEN held ELSE C!upsert(held, C!AccountKeys[i], "SOL", Delta(i))
              E(g) == [s \in SUBSET S |-> IF s = {} THEN C!NoChanges ELSE One(Pick(s), g[s \ {Pick(s)}])]
              F(g) == Gather(NoChanges, NativeRows, SUBSET S, g)
  <1>1. C!NativeChanges = (CHOOSE g : g = E(g))[S]
    BY DEF C!NativeChanges, C!FoldSeq, C!FoldFunction, C!FoldFunctionOnSet, C!MapThenFoldSet,
           C!DecodedKeys, Delta, Pick
  <1>2. \A g : E(g) = F(g)
    <2>. SUFFICES ASSUME NEW g, NEW s \in SUBSET S, s # {}
                  PROVE  One(Pick(s), g[s \ {Pick(s)}]) = Add(NativeRows[Pick(s)], g[s \ {Pick(s)}])
      BY DEF Gather, C!NoChanges, NoChanges
    <2>1. Pick(s) \in S
      BY PickIsIn
    <2>2. \A held : \A i \in S : One(i, held) = Add(NativeRows[i], held)
      BY SameUpsert DEF Add, NativeRows
    <2>. QED BY <2>1, <2>2
  <1>3. (CHOOSE g : g = E(g)) = (CHOOSE g : g = F(g))
    <2>. HIDE DEF E, F
    <2>. QED BY <1>2
  <1>. QED BY <1>1, <1>3 DEF Gathered

LEMMA TokensAreGathered == C!decodeBalanceChanges = Gathered(C!NativeChanges, TokenRows, C!TokenEntries)
  <1>. DEFINE S == C!TokenEntries
              One(e, held) ==
                IF Untold(e) THEN held ELSE C!upsert(held, ToldOwner(e), e.mint, TokenDelta(e))
              E(g) == [s \in SUBSET S |-> IF s = {} THEN C!NativeChanges ELSE One(Pick(s), g[s \ {Pick(s)}])]
              F(g) == Gather(C!NativeChanges, TokenRows, SUBSET S, g)
  <1>1. C!decodeBalanceChanges = (CHOOSE g : g = E(g))[S]
    BY DEF C!decodeBalanceChanges, C!FoldSet, C!MapThenFoldSet, TokenDelta, ToldOwner, Untold, Pick
  <1>2. \A g : E(g) = F(g)
    <2>. SUFFICES ASSUME NEW g, NEW s \in SUBSET S, s # {}
                  PROVE  One(Pick(s), g[s \ {Pick(s)}]) = Add(TokenRows[Pick(s)], g[s \ {Pick(s)}])
      BY DEF Gather
    <2>1. Pick(s) \in S
      BY PickIsIn
    <2>2. \A held : \A e \in S : One(e, held) = Add(TokenRows[e], held)
      BY SameUpsert DEF Add, TokenRows
    <2>. QED BY <2>1, <2>2
  <1>3. (CHOOSE g : g = E(g)) = (CHOOSE g : g = F(g))
    <2>. HIDE DEF E, F
    <2>. QED BY <1>2
  <1>. QED BY <1>1, <1>3 DEF Gathered

-----------------------------------------------------------------------------
(* What the decoding comes to, of a meta that is of a ledger before and after. *)

\* A ledger: lamports of every account, and the token accounts that there are.
IsLedger(l) ==
  /\ l.lamports \in [C!Accounts -> Int]
  /\ DOMAIN l.tokens \subseteq TokenAccounts
  /\ \A a \in DOMAIN l.tokens :
       l.tokens[a] \in [mint : Mints, owner : C!Wallets, amount : Int, named : BOOLEAN]

MetaOf(before, after) ==
  /\ meta.preBalances = before.lamports /\ meta.postBalances = after.lamports
  /\ meta.preTokenBalances = before.tokens /\ meta.postTokenBalances = after.tokens

LEMMA Keys ==
  /\ IsFiniteSet(DOMAIN C!AccountKeys) /\ IsFiniteSet(C!Accounts) /\ IsFiniteSet(TokenAccounts)
  /\ \A i \in DOMAIN C!AccountKeys : C!AccountKeys[i] \in C!Accounts
  /\ \A a \in C!Accounts : \E i \in DOMAIN C!AccountKeys : C!AccountKeys[i] = a
  <1>1. /\ Len(C!AccountKeys) \in Nat /\ DOMAIN C!AccountKeys = 1..Len(C!AccountKeys)
    BY AccountsAreKnown DEF C!AccountKeys
  <1>2. IsFiniteSet(DOMAIN C!AccountKeys)
    BY <1>1, FS_Interval
  <1>3. C!Accounts = {C!AccountKeys[i] : i \in DOMAIN C!AccountKeys}
    BY DEF C!Accounts, C!ToSet
  <1>4. IsFiniteSet(C!Accounts)
    BY <1>2, <1>3, ImageIsFinite
  <1>5. IsFiniteSet(TokenAccounts)
    BY <1>4, FS_Subset, AccountsAreKnown
  <1>. QED BY <1>2, <1>3, <1>4, <1>5

\* Lamports: each account gained what it has more.
LEMMA NativeGains ==
  ASSUME NEW before, NEW after, IsLedger(before), IsLedger(after), MetaOf(before, after)
  PROVE  /\ Normal(C!NativeChanges)
         /\ \A a \in C!Accounts : Gained(C!NativeChanges, a, "SOL") = after.lamports[a] - before.lamports[a]
         /\ \A a, m : m # "SOL" => Gained(C!NativeChanges, a, m) = 0
  <1>. DEFINE S == DOMAIN C!AccountKeys
              part(w, a) == [i \in S |-> Counted(NativeRows[i], w, a)]
  <1>1. /\ Normal(NoChanges) /\ \A w, a : Gained(NoChanges, w, a) = 0
    BY DEF Normal, NoChanges, Gained, RowOf, Has
  <1>2. \A i \in S : Delta(i) = after.lamports[C!AccountKeys[i]] - before.lamports[C!AccountKeys[i]]
    BY DEF Delta, MetaOf
  <1>3. \A i \in S : Delta(i) \in Int
    BY <1>2, Keys DEF IsLedger
  <1>4. \A i \in S : /\ NativeRows[i].amount = Delta(i) /\ NativeRows[i].wallet = C!AccountKeys[i]
                     /\ NativeRows[i].asset = "SOL" /\ (NativeRows[i].skip <=> Delta(i) = 0)
    BY DEF NativeRows
  <1>5. /\ Normal(C!NativeChanges)
        /\ \A w, a : Gained(C!NativeChanges, w, a) = Gained(NoChanges, w, a) + Sum(part(w, a), S)
    <2>1. IsFiniteSet(S) /\ \A i \in S : NativeRows[i].amount \in Int
      BY <1>3, <1>4, Keys
    <2>. HIDE DEF S
    <2>2. /\ Normal(Gathered(NoChanges, NativeRows, S))
          /\ \A w, a : Gained(Gathered(NoChanges, NativeRows, S), w, a)
                       = Gained(NoChanges, w, a) + Sum([x \in S |-> Counted(NativeRows[x], w, a)], S)
      BY <1>1, <2>1, GatheredGains
    <2>. QED BY <2>2, NativeIsGathered DEF S
  <1>6. \A w, a : \A i \in S :
          /\ part(w, a)[i] \in Int
          /\ part(w, a)[i] = IF w = C!AccountKeys[i] /\ a = "SOL" THEN Delta(i) ELSE 0
    BY <1>3, <1>4 DEF Counted
  <1>7. ASSUME NEW a \in C!Accounts
        PROVE  Sum(part(a, "SOL"), S) = after.lamports[a] - before.lamports[a]
    <2>1. PICK i \in S : C!AccountKeys[i] = a
      BY Keys
    <2>. DEFINE f == part(a, "SOL")
    <2>2. f[i] = after.lamports[a] - before.lamports[a] /\ f[i] \in Int
      BY <1>2, <1>3, <1>6, <2>1
    <2>3. \A j \in S \ {i} : f[j] = 0
      BY <1>6, <2>1, AccountsAreKnown
    <2>4. IsFiniteSet(S) /\ \A j \in S : f[j] \in Int
      BY <1>6, Keys
    <2>5. {i} \in SUBSET S
      BY <2>1
    <2>. HIDE DEF S, f
    <2>6. Sum(f, {i}) = Sum(f, S)
      BY <2>3, <2>4, <2>5, SumWithoutZeros
    <2>7. Sum(f, {i}) = f[i]
      BY <2>2, SumOfOne
    <2>. QED BY <2>2, <2>6, <2>7 DEF f
  <1>8. ASSUME NEW w, NEW a, a # "SOL" PROVE Sum(part(w, a), S) = 0
    <2>. DEFINE f == part(w, a)
    <2>1. \A j \in S : f[j] = 0
      BY <1>6, <1>8
    <2>2. IsFiniteSet(S)
      BY Keys
    <2>. HIDE DEF S, f
    <2>3. Sum(f, {}) = Sum(f, S)
      BY <2>1, <2>2, SumWithoutZeros
    <2>. QED BY <2>3, SumOfNothing DEF f
  <1>. HIDE DEF part
  <1>9. \A a \in C!Accounts : after.lamports[a] - before.lamports[a] \in Int
    BY DEF IsLedger
  <1>. QED BY <1>1, <1>5, <1>7, <1>8, <1>9

\* What an owner has of a mint in each account.
Holding(l, o, m) ==
  [a \in TokenAccounts |->
     IF a \in DOMAIN l.tokens /\ l.tokens[a].owner = o /\ l.tokens[a].mint = m THEN l.tokens[a].amount ELSE 0]

LEMMA TokensAreHeld ==
  ASSUME NEW l, IsLedger(l), NEW o, NEW m
  PROVE  /\ C!Tokens(l, o, m) = Sum(Holding(l, o, m), TokenAccounts)
         /\ \A a \in TokenAccounts : Holding(l, o, m)[a] \in Int
  <1>. DEFINE S == {a \in DOMAIN l.tokens : l.tokens[a].owner = o /\ l.tokens[a].mint = m}
              f == Holding(l, o, m)
              E(g) == [s \in SUBSET S |-> IF s = {} THEN 0 ELSE l.tokens[Pick(s)].amount + g[s \ {Pick(s)}]]
  <1>1. /\ \A a \in TokenAccounts : f[a] = IF a \in S THEN l.tokens[a].amount ELSE 0
        /\ \A a \in TokenAccounts : f[a] \in Int
        /\ S \in SUBSET TokenAccounts
    BY DEF Holding, IsLedger
  <1>2. C!Tokens(l, o, m) = (CHOOSE g : g = E(g))[S]
    BY DEF C!Tokens, C!MapThenSumSet, C!MapThenFoldSet, Pick
  <1>. HIDE DEF f, S
  <1>3. \A g : E(g) = Unfold(f, SUBSET S, g)
    <2>1. \A s \in SUBSET S : s # {} => f[Pick(s)] = l.tokens[Pick(s)].amount
      BY <1>1, PickIsIn
    <2>. QED BY <2>1 DEF Unfold
  <1>4. (CHOOSE g : g = E(g)) = (CHOOSE g : g = Unfold(f, SUBSET S, g))
    <2>. HIDE DEF E
    <2>. QED BY <1>3
  <1>5. Sum(f, S) = (CHOOSE g : g = Unfold(f, SUBSET S, g))[S]
    BY SumIsSolution
  <1>6. Sum(f, S) = Sum(f, TokenAccounts)
    BY <1>1, Keys, SumWithoutZeros
  <1>. QED BY <1>1, <1>2, <1>4, <1>5, <1>6 DEF f

\* Entries: of an account and a mint, and finitely many.
LEMMA Entries ==
  ASSUME NEW before, NEW after, IsLedger(before), IsLedger(after), MetaOf(before, after)
  PROVE  /\ IsFiniteSet(C!TokenEntries)
         /\ \A a, m : [account |-> a, mint |-> m] \in C!TokenEntries <=>
                        \/ a \in DOMAIN before.tokens /\ before.tokens[a].mint = m
                        \/ a \in DOMAIN after.tokens /\ after.tokens[a].mint = m
         /\ \A e \in C!TokenEntries : /\ e = [account |-> e.account, mint |-> e.mint]
                                      /\ e.account \in TokenAccounts /\ e.mint \in Mints
                                      /\ TokenDelta(e) \in Int
  <1>. DEFINE Of(t) == {[account |-> a, mint |-> t[a].mint] : a \in DOMAIN t}
  <1>1. C!TokenEntries = Of(before.tokens) \cup Of(after.tokens)
    BY DEF C!TokenEntries, MetaOf
  <1>2. ASSUME NEW l, IsLedger(l) PROVE IsFiniteSet(Of(l.tokens))
    <2>. DEFINE S == DOMAIN l.tokens
                entry == [a \in S |-> [account |-> a, mint |-> l.tokens[a].mint]]
    <2>1. IsFiniteSet(S)
      BY <1>2, Keys, FS_Subset DEF IsLedger
    <2>2. Of(l.tokens) = {entry[a] : a \in S}
      OBVIOUS
    <2>. HIDE DEF S, entry
    <2>3. IsFiniteSet({entry[a] : a \in S})
      BY <2>1, ImageIsFinite
    <2>. QED BY <2>2, <2>3
  <1>3. IsFiniteSet(C!TokenEntries)
    <2>1. IsFiniteSet(Of(before.tokens)) /\ IsFiniteSet(Of(after.tokens))
      BY <1>2
    <2>. HIDE DEF Of
    <2>. QED BY <1>1, <2>1, FS_Union
  <1>4. \A a, m : [account |-> a, mint |-> m] \in C!TokenEntries <=>
                    \/ a \in DOMAIN before.tokens /\ before.tokens[a].mint = m
                    \/ a \in DOMAIN after.tokens /\ after.tokens[a].mint = m
    BY <1>1
  <1>5. \A e \in C!TokenEntries : /\ e = [account |-> e.account, mint |-> e.mint]
                                  /\ e.account \in TokenAccounts /\ e.mint \in Mints
    BY <1>1 DEF IsLedger
  <1>6. \A e \in C!TokenEntries : TokenDelta(e) \in Int
    BY DEF TokenDelta, C!AmountIn, C!In, MetaOf, IsLedger
  <1>. QED BY <1>3, <1>4, <1>5, <1>6

\* When the node tells whose accounts they are, and none changes hands.
Known(before, after) ==
  /\ \A a \in DOMAIN before.tokens : before.tokens[a].named
  /\ \A a \in DOMAIN after.tokens : after.tokens[a].named
  /\ \A a \in DOMAIN before.tokens \cap DOMAIN after.tokens :
       after.tokens[a].mint = before.tokens[a].mint => after.tokens[a].owner = before.tokens[a].owner

\* The entry of an account and a mint.
LEMMA EntryGains ==
  ASSUME NEW before, NEW after, IsLedger(before), IsLedger(after), MetaOf(before, after),
         Known(before, after), NEW a \in TokenAccounts, NEW m, NEW o,
         [account |-> a, mint |-> m] \in C!TokenEntries
  PROVE  Counted(TokenRows[[account |-> a, mint |-> m]], o, m)
         = Holding(after, o, m)[a] - Holding(before, o, m)[a]
  <1>. DEFINE e == [account |-> a, mint |-> m]
              was == a \in DOMAIN before.tokens /\ before.tokens[a].mint = m
              is == a \in DOMAIN after.tokens /\ after.tokens[a].mint = m
              row == TokenRows[e]
  <1>1. was \/ is
    BY Entries
  <1>2. /\ C!In(meta.preTokenBalances, e) <=> was
        /\ C!In(meta.postTokenBalances, e) <=> is
    BY DEF C!In, MetaOf
  <1>3. TokenDelta(e) = (IF is THEN after.tokens[a].amount ELSE 0)
                        - (IF was THEN before.tokens[a].amount ELSE 0)
    BY <1>2 DEF TokenDelta, C!AmountIn, MetaOf
  <1>4. /\ was => before.tokens[a].named /\ before.tokens[a].amount \in Int
        /\ is => after.tokens[a].named /\ after.tokens[a].amount \in Int
        /\ was /\ is => after.tokens[a].owner = before.tokens[a].owner
    BY DEF Known, IsLedger
  <1>5. /\ was => C!Owns(meta.preTokenBalances, e) = {before.tokens[a].owner}
        /\ ~was => C!Owns(meta.preTokenBalances, e) = {}
        /\ is => C!Owns(meta.postTokenBalances, e) = {after.tokens[a].owner}
    <2>1. meta.preTokenBalances = before.tokens /\ meta.postTokenBalances = after.tokens /\ e.account = a
      BY DEF MetaOf
    <2>. HIDE DEF was, is, e
    <2>. QED BY <1>2, <1>4, <2>1 DEF C!Owns
  <1>6. C!OwnersOf(e) = {IF was THEN before.tokens[a].owner ELSE after.tokens[a].owner}
    <2>. HIDE DEF was, is, e
    <2>. QED BY <1>1, <1>5 DEF C!OwnersOf
  <1>7. /\ is => ToldOwner(e) = after.tokens[a].owner
        /\ was => ToldOwner(e) = before.tokens[a].owner
    <2>. HIDE DEF was, is, e
    <2>. QED BY <1>4, <1>6 DEF ToldOwner
  <1>8. /\ row.wallet = ToldOwner(e) /\ row.asset = m /\ row.amount = TokenDelta(e)
        /\ row.skip <=> TokenDelta(e) = 0
    <2>1. Untold(e) <=> TokenDelta(e) = 0
      <3>. HIDE DEF e, was, is
      <3>. QED BY <1>6 DEF Untold
    <2>2. e.mint = m /\ e \in C!TokenEntries
      OBVIOUS
    <2>. HIDE DEF e
    <2>. QED BY <2>1, <2>2 DEF TokenRows
  <1>9. /\ Holding(after, o, m)[a] = IF is /\ after.tokens[a].owner = o THEN after.tokens[a].amount ELSE 0
        /\ Holding(before, o, m)[a] = IF was /\ before.tokens[a].owner = o THEN before.tokens[a].amount ELSE 0
    BY DEF Holding
  <1>10. Counted(row, o, m) = IF ToldOwner(e) = o THEN TokenDelta(e) ELSE 0
    <2>. HIDE DEF row, e
    <2>. QED BY <1>8 DEF Counted
  <1>. HIDE DEF row, e, was, is
  <1>11. Counted(row, o, m) = Holding(after, o, m)[a] - Holding(before, o, m)[a]
    BY <1>1, <1>3, <1>4, <1>7, <1>9, <1>10
  <1>. QED BY <1>11 DEF row, e

\* Tokens: each owner gained what it has more of a mint.
LEMMA TokenGains ==
  ASSUME NEW before, NEW after, IsLedger(before), IsLedger(after), MetaOf(before, after),
         Known(before, after), NEW o, NEW m
  PROVE  Sum([e \in C!TokenEntries |-> Counted(TokenRows[e], o, m)], C!TokenEntries)
         = C!Tokens(after, o, m) - C!Tokens(before, o, m)
  <1>. DEFINE S == C!TokenEntries
              f == [e \in S |-> Counted(TokenRows[e], o, m)]
              class == [e \in S |-> e.account]
              Of(a) == {e \in S : class[e] = a}
              part == [a \in TokenAccounts |-> Sum(f, Of(a))]
              was == Holding(before, o, m)
              is == Holding(after, o, m)
  <1>1. \A e \in S : f[e] \in Int /\ (e.mint # m => f[e] = 0)
    BY Entries DEF Counted, TokenRows
  <1>2. /\ IsFiniteSet(S) /\ IsFiniteSet(TokenAccounts)
        /\ \A e \in S : class[e] \in TokenAccounts /\ class[e] = e.account
    BY Entries, Keys
  <1>3. Sum(part, TokenAccounts) = Sum(f, S)
    <2>. HIDE DEF S, f, class
    <2>. QED BY <1>1, <1>2, SumByClass
  <1>4. ASSUME NEW a \in TokenAccounts PROVE part[a] = is[a] - was[a]
    <2>. DEFINE e == [account |-> a, mint |-> m]
    <2>1. \A x \in Of(a) : x.mint = m => x = e
      BY <1>2, Entries
    <2>2. IsFiniteSet(Of(a)) /\ \A x \in Of(a) : f[x] \in Int
      BY <1>1, <1>2, FS_Subset
    <2>3. CASE e \in S
      <3>1. e \in Of(a) /\ f[e] = is[a] - was[a] /\ f[e] \in Int
        BY <1>1, <2>3, EntryGains
      <3>2. {e} \in SUBSET Of(a) /\ \A x \in Of(a) \ {e} : f[x] = 0
        BY <1>1, <2>1, <3>1
      <3>3. Sum(f, {e}) = Sum(f, Of(a))
        <4>. HIDE DEF f, Of, e
        <4>. QED BY <2>2, <3>2, SumWithoutZeros
      <3>4. Sum(f, {e}) = f[e]
        <4>. HIDE DEF f, e
        <4>. QED BY <3>1, SumOfOne
      <3>. QED BY <3>1, <3>3, <3>4
    <2>4. CASE e \notin S
      <3>1. \A x \in Of(a) : f[x] = 0
        BY <1>1, <2>1, <2>4
      <3>2. Sum(f, {}) = Sum(f, Of(a))
        <4>. HIDE DEF f, Of
        <4>. QED BY <2>2, <3>1, SumWithoutZeros
      <3>3. is[a] = 0 /\ was[a] = 0
        BY <2>4, Entries DEF Holding
      <3>4. Sum(f, {}) = 0
        <4>. HIDE DEF f
        <4>. QED BY SumOfNothing
      <3>. HIDE DEF f, Of, is, was
      <3>. QED BY <3>2, <3>3, <3>4
    <2>. QED BY <2>3, <2>4
  <1>5. /\ C!Tokens(after, o, m) = Sum(is, TokenAccounts) /\ C!Tokens(before, o, m) = Sum(was, TokenAccounts)
        /\ \A a \in TokenAccounts : is[a] \in Int /\ was[a] \in Int
    BY TokensAreHeld
  <1>6. Sum(part, TokenAccounts) = Sum(is, TokenAccounts) - Sum(was, TokenAccounts)
    <2>. HIDE DEF part, is, was
    <2>. QED BY <1>2, <1>4, <1>5, SumOfDifferences
  <1>. QED BY <1>3, <1>5, <1>6

\* What is decoded of the meta.
LEMMA DecodedGains ==
  ASSUME NEW before, NEW after, IsLedger(before), IsLedger(after), MetaOf(before, after)
  PROVE  LET raw == C!decodeBalanceChanges
         IN  /\ Normal(raw)
             /\ \A a \in C!Accounts : Gained(raw, a, "SOL") = after.lamports[a] - before.lamports[a]
             /\ Known(before, after) =>
                  \A o \in C!Accounts : \A m \in Mints :
                    Gained(raw, o, m) = C!Tokens(after, o, m) - C!Tokens(before, o, m)
  <1>. DEFINE S == C!TokenEntries
              raw == Gathered(C!NativeChanges, TokenRows, S)
              part(o, m) == [e \in S |-> Counted(TokenRows[e], o, m)]
  <1>1. raw = C!decodeBalanceChanges
    BY TokensAreGathered
  <1>2. IsFiniteSet(S) /\ \A e \in S : TokenRows[e].amount \in Int
    BY Entries DEF TokenRows
  <1>3. /\ Normal(raw)
        /\ \A o, m : Gained(raw, o, m) = Gained(C!NativeChanges, o, m) + Sum(part(o, m), S)
    <2>1. Normal(C!NativeChanges)
      BY NativeGains
    <2>. HIDE DEF S
    <2>. QED BY <1>2, <2>1, GatheredGains
  <1>4. \A o : Sum(part(o, "SOL"), S) = 0
    <2>. SUFFICES ASSUME NEW o PROVE Sum(part(o, "SOL"), S) = 0
      OBVIOUS
    <2>. DEFINE f == part(o, "SOL")
    <2>1. \A e \in S : f[e] = 0
      BY Entries, AccountsAreKnown DEF Counted, TokenRows
    <2>. HIDE DEF S, f
    <2>2. Sum(f, {}) = Sum(f, S)
      BY <1>2, <2>1, SumWithoutZeros
    <2>. QED BY <2>2, SumOfNothing DEF f
  <1>5. \A a \in C!Accounts : Gained(raw, a, "SOL") = after.lamports[a] - before.lamports[a]
    <2>. HIDE DEF raw, part, S
    <2>1. \A a \in C!Accounts : /\ Gained(C!NativeChanges, a, "SOL") = after.lamports[a] - before.lamports[a]
                                /\ after.lamports[a] - before.lamports[a] \in Int
      BY NativeGains DEF IsLedger
    <2>. QED BY <1>3, <1>4, <2>1
  <1>6. ASSUME Known(before, after), NEW o \in C!Accounts, NEW m \in Mints
        PROVE  Gained(raw, o, m) = C!Tokens(after, o, m) - C!Tokens(before, o, m)
    <2>1. Sum(part(o, m), S) = C!Tokens(after, o, m) - C!Tokens(before, o, m)
      BY <1>6, TokenGains
    <2>2. Gained(C!NativeChanges, o, m) = 0
      BY NativeGains, AccountsAreKnown
    <2>3. C!Tokens(after, o, m) \in Int /\ C!Tokens(before, o, m) \in Int
      BY Keys, TokensAreHeld, SumIsInteger
    <2>. HIDE DEF raw, part, S
    <2>. QED BY <1>3, <2>1, <2>2, <2>3
  <1>. HIDE DEF raw
  <1>. QED BY <1>1, <1>3, <1>5, <1>6

-----------------------------------------------------------------------------
(* The transaction that is decoded.                                        *)

Held(l, o, m) == Sum(Holding(l, o, m), TokenAccounts)

\* ChangesAreTrue, of changes told of a ledger before and after.
ToldHolds(raw, gross, before, after) ==
  /\ Normal(raw) /\ Normal(gross)
  /\ \A a \in C!Accounts : Gained(raw, a, "SOL") = after.lamports[a] - before.lamports[a]
  /\ Sum([a \in C!Accounts |-> Gained(gross, a, "SOL")], C!Accounts) = 0
  /\ Known(before, after) =>
       \A o \in C!Accounts : \A m \in Mints :
         Gained(raw, o, m) = Held(after, o, m) - Held(before, o, m)

\* Owners are told of all accounts after, where they were told of all before.
NamesStay(before, after) ==
  (\A a \in DOMAIN before.tokens : before.tokens[a].named) => \A a \in DOMAIN after.tokens : after.tokens[a].named

Lamports(l) == Sum(l.lamports, C!Accounts)
Unsealed == meta = C!NotMeta

\* What the fee takes is all that the accounts lose together.
LedgerInv ==
  /\ IsLedger(pre) /\ IsLedger(now) /\ DOMAIN now = {"lamports", "tokens"}
  /\ NamesStay(pre, now)
  /\ Unsealed => Lamports(now) = Lamports(pre)
  /\ ~Unsealed => /\ MetaOf(pre, now) /\ meta.fee \in Int
                  /\ Lamports(now) = Lamports(pre) - meta.fee

DecodedInv ==
  /\ decoded.kind = "changes" => ~Unsealed /\ ToldHolds(decoded.raw, decoded.gross, pre, now)

ChangesInv == LedgerInv /\ DecodedInv

LEMMA ChangesInit == C!Init => ChangesInv
  <1>. SUFFICES ASSUME C!Init PROVE ChangesInv
    OBVIOUS
  <1>1. PICK held \in SUBSET TokenAccounts, named \in BOOLEAN :
          \E owner \in [held -> C!Wallets], mint \in [held -> Mints] :
            pre = [lamports |-> [a \in C!Accounts |-> IF a \in C!Wallets THEN 2
                                                      ELSE IF a \in held THEN C!Rent ELSE 0],
                   tokens |-> [a \in held |-> C!Open(mint[a], owner[a], 1, named)]]
    BY DEF C!Init
  <1>2. PICK owner \in [held -> C!Wallets], mint \in [held -> Mints] :
          pre = [lamports |-> [a \in C!Accounts |-> IF a \in C!Wallets THEN 2
                                                    ELSE IF a \in held THEN C!Rent ELSE 0],
                 tokens |-> [a \in held |-> C!Open(mint[a], owner[a], 1, named)]]
    BY <1>1
  <1>3. now = pre /\ Unsealed /\ decoded.kind = "none"
    BY DEF C!Init, Unsealed
  <1>4. DOMAIN pre = {"lamports", "tokens"} /\ IsLedger(pre)
    BY <1>2 DEF IsLedger, C!Open, C!Rent
  <1>. QED BY <1>3, <1>4 DEF ChangesInv, LedgerInv, DecodedInv, NamesStay

\* While it runs, a transaction leaves a ledger with as many lamports, and the owners
\* that are told.
LEMMA RunHolds ==
  ASSUME ChangesInv, C!Running, NEW l, C!Moved(l),
         IsLedger(l), DOMAIN l = {"lamports", "tokens"}, Lamports(l) = Lamports(now), NamesStay(now, l)
  PROVE  ChangesInv'
  <1>1. now' = l /\ UNCHANGED <<pre, meta, decoded>> /\ Unsealed
    BY DEF C!Moved, C!Running, Unsealed
  <1>2. IsLedger(now)' /\ (DOMAIN now = {"lamports", "tokens"})'
    BY <1>1 DEF IsLedger
  <1>3. NamesStay(pre, now)' /\ (Lamports(now) = Lamports(pre))' /\ IsLedger(pre)'
    BY <1>1 DEF ChangesInv, LedgerInv, NamesStay, Lamports, IsLedger
  <1>4. Unsealed' /\ DecodedInv'
    BY <1>1 DEF ChangesInv, DecodedInv, Unsealed, C!NotMeta
  <1>. QED BY <1>2, <1>3, <1>4 DEF ChangesInv, LedgerInv

LEMMA PayHolds == ChangesInv /\ C!Pay => ChangesInv'
  <1>. SUFFICES ASSUME ChangesInv, C!Pay PROVE ChangesInv'
    OBVIOUS
  <1>1. PICK from \in C!Wallets, to \in C!Wallets :
          from # to /\ C!Moved([now EXCEPT !.lamports[from] = @ - 1, !.lamports[to] = @ + 1])
    BY DEF C!Pay
  <1>. DEFINE l == [now EXCEPT !.lamports[from] = @ - 1, !.lamports[to] = @ + 1]
              shifted == [now.lamports EXCEPT ![from] = @ - 1, ![to] = @ + 1]
  <1>2. IsLedger(now) /\ DOMAIN now = {"lamports", "tokens"} /\ from \in C!Accounts /\ to \in C!Accounts
    BY DEF ChangesInv, LedgerInv, C!Wallets
  <1>3. l.lamports = shifted /\ l.tokens = now.tokens /\ DOMAIN l = {"lamports", "tokens"}
    BY <1>2
  <1>4. shifted \in [C!Accounts -> Int] /\ Sum(shifted, C!Accounts) = Sum(now.lamports, C!Accounts)
    <2>1. now.lamports \in [C!Accounts -> Int] /\ IsFiniteSet(C!Accounts)
      BY <1>2, Keys DEF IsLedger
    <2>2. /\ shifted \in [C!Accounts -> Int]
          /\ shifted[from] = now.lamports[from] - 1 /\ shifted[to] = now.lamports[to] + 1
          /\ \A z \in C!Accounts \ {from, to} : shifted[z] = now.lamports[z]
      BY <1>1, <1>2, <2>1
    <2>. HIDE DEF shifted
    <2>. QED BY <1>1, <1>2, <2>1, <2>2, SumMoves
  <1>5. C!Moved(l) /\ C!Running
    BY <1>1 DEF C!Pay
  <1>. HIDE DEF l, shifted
  <1>6. IsLedger(l) /\ Lamports(l) = Lamports(now) /\ NamesStay(now, l)
    BY <1>2, <1>3, <1>4 DEF IsLedger, Lamports, NamesStay
  <1>. QED BY <1>3, <1>5, <1>6, RunHolds

LEMMA TransferHolds == ChangesInv /\ C!TransferTokens => ChangesInv'
  <1>. SUFFICES ASSUME ChangesInv, C!TransferTokens PROVE ChangesInv'
    OBVIOUS
  <1>1. PICK from \in DOMAIN now.tokens, to \in DOMAIN now.tokens :
          from # to /\ C!Moved([now EXCEPT !.tokens[from].amount = @ - 1, !.tokens[to].amount = @ + 1])
    BY DEF C!TransferTokens
  <1>2. IsLedger(now) /\ DOMAIN now = {"lamports", "tokens"}
    BY DEF ChangesInv, LedgerInv
  <1>. DEFINE l == [now EXCEPT !.tokens[from].amount = @ - 1, !.tokens[to].amount = @ + 1]
              t == now.tokens
              next == [t EXCEPT ![from].amount = @ - 1, ![to].amount = @ + 1]
  <1>3. l.tokens = next /\ l.lamports = now.lamports /\ DOMAIN l = {"lamports", "tokens"}
    BY <1>2
  <1>4. /\ DOMAIN next = DOMAIN t
        /\ \A a \in DOMAIN t \ {from, to} : next[a] = t[a]
        /\ next[from] = [t[from] EXCEPT !.amount = @ - 1]
        /\ next[to] = [t[to] EXCEPT !.amount = @ + 1]
    BY <1>1
  <1>. DEFINE Account == [mint : Mints, owner : C!Wallets, amount : Int, named : BOOLEAN]
  <1>5. \A a \in DOMAIN t : t[a] \in Account
    BY <1>2 DEF IsLedger
  <1>6. C!Moved(l) /\ C!Running
    BY <1>1 DEF C!TransferTokens
  <1>. HIDE DEF l, next, t
  <1>7. /\ next[from] \in Account /\ next[from].named = t[from].named
        /\ next[to] \in Account /\ next[to].named = t[to].named
    BY <1>1, <1>4, <1>5 DEF t
  <1>8. \A a \in DOMAIN t : next[a] \in Account /\ next[a].named = t[a].named
    BY <1>4, <1>5, <1>7
  <1>9. IsLedger(l) /\ Lamports(l) = Lamports(now) /\ NamesStay(now, l)
    <2>. HIDE DEF Account
    <2>1. IsLedger(l)
      BY <1>2, <1>3, <1>4, <1>8 DEF IsLedger, Account, t
    <2>. QED BY <2>1, <1>3, <1>4, <1>8 DEF Lamports, NamesStay, t
  <1>. QED BY <1>3, <1>6, <1>9, RunHolds

LEMMA OpenHolds == ChangesInv /\ C!OpenAccount => ChangesInv'
  <1>. SUFFICES ASSUME ChangesInv, C!OpenAccount PROVE ChangesInv'
    OBVIOUS
  <1>. DEFINE shifted(a) == [now.lamports EXCEPT ![C!FeePayer] = @ - C!Rent, ![a] = @ + C!Rent]
              grown(a, mint, owner) == C!With(now.tokens, a, C!Open(mint, owner, 0, TRUE))
  <1>1. PICK a \in TokenAccounts \ DOMAIN now.tokens, mint \in Mints, owner \in C!Wallets :
          C!Moved([lamports |-> shifted(a), tokens |-> grown(a, mint, owner)])
    BY DEF C!OpenAccount
  <1>. DEFINE l == [lamports |-> shifted(a), tokens |-> grown(a, mint, owner)]
              opened == C!Open(mint, owner, 0, TRUE)
  <1>2. IsLedger(now) /\ C!FeePayer \in C!Accounts /\ a \in C!Accounts /\ C!FeePayer # a
    BY AccountsAreKnown DEF ChangesInv, LedgerInv, C!Wallets
  <1>3. shifted(a) \in [C!Accounts -> Int] /\ Sum(shifted(a), C!Accounts) = Sum(now.lamports, C!Accounts)
    <2>. DEFINE h == shifted(a)
    <2>1. now.lamports \in [C!Accounts -> Int] /\ IsFiniteSet(C!Accounts) /\ C!Rent \in Int
      BY <1>2, Keys DEF IsLedger, C!Rent
    <2>. HIDE DEF C!Rent
    <2>2. /\ h \in [C!Accounts -> Int]
          /\ h[C!FeePayer] = now.lamports[C!FeePayer] - C!Rent /\ h[a] = now.lamports[a] + C!Rent
          /\ \A z \in C!Accounts \ {C!FeePayer, a} : h[z] = now.lamports[z]
      BY <1>2, <2>1
    <2>. HIDE DEF h
    <2>3. Sum(h, C!Accounts) = Sum(now.lamports, C!Accounts)
      BY <1>2, <2>1, <2>2, SumMoves
    <2>. QED BY <2>2, <2>3 DEF h
  <1>4. opened \in [mint : Mints, owner : C!Wallets, amount : Int, named : BOOLEAN] /\ opened.named
    BY DEF C!Open
  <1>5. /\ DOMAIN grown(a, mint, owner) = DOMAIN now.tokens \cup {a}
        /\ \A b \in DOMAIN now.tokens : grown(a, mint, owner)[b] = now.tokens[b]
        /\ grown(a, mint, owner)[a] = opened
    <2>. HIDE DEF opened
    <2>. QED BY DEF C!With, opened
  <1>6. /\ l.lamports = shifted(a) /\ l.tokens = grown(a, mint, owner) /\ DOMAIN l = {"lamports", "tokens"}
        /\ C!Moved(l) /\ C!Running
    BY <1>1 DEF C!OpenAccount
  <1>. HIDE DEF l, shifted, grown, opened
  <1>7. IsLedger(l)
    BY <1>2, <1>3, <1>4, <1>5, <1>6 DEF IsLedger
  <1>8. Lamports(l) = Lamports(now) /\ NamesStay(now, l)
    BY <1>3, <1>4, <1>5, <1>6 DEF Lamports, NamesStay
  <1>. QED BY <1>6, <1>7, <1>8, RunHolds

LEMMA CloseHolds == ChangesInv /\ C!CloseAccount => ChangesInv'
  <1>. SUFFICES ASSUME ChangesInv, C!CloseAccount PROVE ChangesInv'
    OBVIOUS
  <1>. DEFINE emptied(a) == [now.lamports EXCEPT ![a] = 0, ![now.tokens[a].owner] = @ + now.lamports[a]]
              left(a) == C!Without(now.tokens, a)
  <1>1. PICK a \in DOMAIN now.tokens : C!Moved([lamports |-> emptied(a), tokens |-> left(a)])
    BY DEF C!CloseAccount
  <1>. DEFINE l == [lamports |-> emptied(a), tokens |-> left(a)]
              owner == now.tokens[a].owner
              n == now.lamports[a]
              shifted == [now.lamports EXCEPT ![a] = @ - n, ![owner] = @ + n]
  <1>2. IsLedger(now) /\ owner \in C!Accounts /\ a \in C!Accounts /\ owner # a /\ n \in Int
    BY AccountsAreKnown DEF ChangesInv, LedgerInv, IsLedger, C!Wallets
  <1>3. emptied(a) = shifted
    BY <1>2 DEF IsLedger
  <1>4. shifted \in [C!Accounts -> Int] /\ Sum(shifted, C!Accounts) = Sum(now.lamports, C!Accounts)
    <2>. HIDE DEF n, owner
    <2>1. now.lamports \in [C!Accounts -> Int] /\ IsFiniteSet(C!Accounts)
      BY <1>2, Keys DEF IsLedger
    <2>2. /\ shifted \in [C!Accounts -> Int]
          /\ shifted[a] = now.lamports[a] - n /\ shifted[owner] = now.lamports[owner] + n
          /\ \A z \in C!Accounts \ {a, owner} : shifted[z] = now.lamports[z]
      BY <1>2, <2>1
    <2>. HIDE DEF shifted
    <2>. QED BY <1>2, <2>1, <2>2, SumMoves
  <1>5. /\ DOMAIN left(a) \subseteq DOMAIN now.tokens
        /\ \A b \in DOMAIN left(a) : left(a)[b] = now.tokens[b]
    BY DEF C!Without
  <1>6. /\ l.lamports = emptied(a) /\ l.tokens = left(a) /\ DOMAIN l = {"lamports", "tokens"}
        /\ C!Moved(l) /\ C!Running
    BY <1>1 DEF C!CloseAccount
  <1>. HIDE DEF l, shifted, emptied, left
  <1>7. IsLedger(l)
    BY <1>2, <1>3, <1>4, <1>5, <1>6 DEF IsLedger
  <1>8. Lamports(l) = Lamports(now) /\ NamesStay(now, l)
    BY <1>3, <1>4, <1>5, <1>6 DEF Lamports, NamesStay
  <1>. QED BY <1>6, <1>7, <1>8, RunHolds

\* The fee is taken from the payer, and the meta has the ledger before and after.
LEMMA SealHolds == ChangesInv /\ C!Seal => ChangesInv'
  <1>. SUFFICES ASSUME ChangesInv, C!Seal PROVE ChangesInv'
    OBVIOUS
  <1>1. PICK fee \in Fees :
          /\ now' = [now EXCEPT !.lamports[C!FeePayer] = @ - fee]
          /\ meta' = [fee |-> fee, preBalances |-> pre.lamports, postBalances |-> now'.lamports,
                      preTokenBalances |-> pre.tokens, postTokenBalances |-> now'.tokens]
    BY DEF C!Seal
  <1>2. Unsealed /\ UNCHANGED <<pre, decoded>>
    BY DEF C!Seal, Unsealed
  <1>3. /\ IsLedger(pre) /\ IsLedger(now) /\ DOMAIN now = {"lamports", "tokens"} /\ NamesStay(pre, now)
        /\ Lamports(now) = Lamports(pre)
    BY <1>2 DEF ChangesInv, LedgerInv
  <1>. DEFINE l == [now EXCEPT !.lamports[C!FeePayer] = @ - fee]
              paid == [now.lamports EXCEPT ![C!FeePayer] = @ - fee]
  <1>4. l.lamports = paid /\ l.tokens = now.tokens /\ DOMAIN l = {"lamports", "tokens"} /\ now' = l
    BY <1>1, <1>3
  <1>5. C!FeePayer \in C!Accounts /\ fee \in Int
    BY AccountsAreKnown DEF C!Wallets
  <1>6. /\ paid \in [C!Accounts -> Int] /\ paid[C!FeePayer] = now.lamports[C!FeePayer] - fee
        /\ \A a \in C!Accounts \ {C!FeePayer} : now.lamports[a] = paid[a]
    BY <1>3, <1>5 DEF IsLedger
  <1>. HIDE DEF l, paid
  <1>7. IsLedger(l)
    BY <1>3, <1>4, <1>6 DEF IsLedger
  <1>8. Lamports(l) = Lamports(pre) - fee
    <2>1. now.lamports \in [C!Accounts -> Int]
      BY <1>3 DEF IsLedger
    <2>2. Sum(paid, C!Accounts) = (Sum(now.lamports, C!Accounts) - now.lamports[C!FeePayer]) + paid[C!FeePayer]
      BY <1>5, <1>6, <2>1, Keys, SumChanges
    <2>3. Sum(now.lamports, C!Accounts) \in Int /\ now.lamports[C!FeePayer] \in Int
      BY <1>5, <2>1, Keys, SumIsInteger
    <2>. QED BY <1>3, <1>4, <1>5, <1>6, <2>2, <2>3 DEF Lamports
  <1>9. /\ meta'.fee = fee /\ meta'.preBalances = pre.lamports /\ meta'.postBalances = l.lamports
        /\ meta'.preTokenBalances = pre.tokens /\ meta'.postTokenBalances = l.tokens
        /\ ~Unsealed'
    BY <1>1, <1>4 DEF Unsealed, C!NotMeta
  <1>10. NamesStay(pre, l)
    BY <1>3, <1>4 DEF NamesStay
  <1>11. MetaOf(pre, now)' /\ meta'.fee \in Int
    BY <1>2, <1>4, <1>5, <1>9 DEF MetaOf
  <1>12. /\ IsLedger(pre)' /\ IsLedger(now)' /\ (DOMAIN now = {"lamports", "tokens"})' /\ NamesStay(pre, now)'
         /\ (Lamports(now) = Lamports(pre) - meta.fee)'
    BY <1>2, <1>3, <1>4, <1>7, <1>8, <1>9, <1>10 DEF IsLedger, NamesStay, Lamports
  <1>13. DecodedInv'
    BY <1>2 DEF ChangesInv, DecodedInv
  <1>. QED BY <1>9, <1>11, <1>12, <1>13 DEF ChangesInv, LedgerInv

\* What is told less the fee is what moved between the accounts.
LEMMA DecodeHolds == ChangesInv /\ C!Decode => ChangesInv'
  <1>. SUFFICES ASSUME ChangesInv, C!Decode PROVE ChangesInv'
    OBVIOUS
  <1>. DEFINE raw == C!decodeBalanceChanges
              gross == C!balanceChangesExcludingFees(raw)
              payer == C!FeePayer
              fee == meta.fee
              d == [a \in C!Accounts |-> Gained(raw, a, "SOL")]
              f == [a \in C!Accounts |-> Gained(gross, a, "SOL")]
  <1>1. /\ ~Unsealed /\ UNCHANGED <<pre, now, meta>>
        /\ decoded' = [kind |-> "changes", raw |-> raw, gross |-> gross]
    BY DEF C!Decode, Unsealed
  <1>2. /\ IsLedger(pre) /\ IsLedger(now) /\ MetaOf(pre, now) /\ fee \in Int
        /\ Lamports(now) = Lamports(pre) - fee
    BY <1>1 DEF ChangesInv, LedgerInv
  <1>3. /\ Normal(raw)
        /\ \A a \in C!Accounts : Gained(raw, a, "SOL") = now.lamports[a] - pre.lamports[a]
        /\ Known(pre, now) =>
             \A o \in C!Accounts : \A m \in Mints :
               Gained(raw, o, m) = Held(now, o, m) - Held(pre, o, m)
    BY <1>2, DecodedGains, TokensAreHeld DEF Held
  <1>. HIDE DEF raw
  <1>4. payer \in C!Accounts /\ IsFiniteSet(C!Accounts)
    BY AccountsAreKnown, Keys DEF C!Wallets
  <1>5. /\ Normal(gross)
        /\ \A v, b : Gained(gross, v, b)
                     = Gained(raw, v, b) + (IF v = payer /\ b = "SOL" THEN fee ELSE 0)
    <2>1. gross = upsert(raw, payer, "SOL", fee)
      BY SameUpsert DEF C!balanceChangesExcludingFees
    <2>. HIDE DEF fee, payer, gross
    <2>. QED BY <1>2, <1>3, <2>1, UpsertAdds
  <1>6. Sum(d, C!Accounts) = Sum(now.lamports, C!Accounts) - Sum(pre.lamports, C!Accounts)
    <2>1. \A a \in C!Accounts : /\ now.lamports[a] \in Int /\ pre.lamports[a] \in Int
                                /\ d[a] = now.lamports[a] - pre.lamports[a]
      BY <1>2, <1>3 DEF IsLedger
    <2>. HIDE DEF d
    <2>. QED BY <1>4, <2>1, SumOfDifferences
  <1>7. Sum(pre.lamports, C!Accounts) \in Int
    BY <1>2, <1>4, SumIsInteger DEF IsLedger
  <1>8. \A a \in C!Accounts : /\ d[a] \in Int /\ f[a] \in Int
                              /\ f[a] = d[a] + (IF a = payer THEN fee ELSE 0)
    <2>1. \A a : Gained(raw, a, "SOL") \in Int
      BY <1>3, GainedIsInteger
    <2>. HIDE DEF fee, payer, gross
    <2>. QED BY <1>2, <1>5, <2>1
  <1>9. Sum(f, C!Accounts) = 0
    <2>. HIDE DEF d, f, payer, fee
    <2>1. Sum(f, C!Accounts) = (Sum(d, C!Accounts) - d[payer]) + f[payer]
      BY <1>2, <1>4, <1>8, SumChanges
    <2>2. Sum(d, C!Accounts) = - fee
      BY <1>2, <1>6, <1>7 DEF Lamports
    <2>. QED BY <1>2, <1>4, <1>8, <2>1, <2>2
  <1>10. ToldHolds(raw, gross, pre, now)
    <2>. HIDE DEF gross
    <2>. QED BY <1>3, <1>5, <1>9 DEF ToldHolds
  <1>11. LedgerInv'
    BY <1>1 DEF ChangesInv, LedgerInv, IsLedger, NamesStay, Lamports, Unsealed, MetaOf
  <1>12. decoded'.raw = raw /\ decoded'.gross = gross
    BY <1>1
  <1>13. ToldHolds(decoded.raw, decoded.gross, pre, now)'
    <2>. HIDE DEF gross
    <2>. QED BY <1>1, <1>10, <1>12 DEF ToldHolds, Known, Held, Holding
  <1>14. DecodedInv'
    BY <1>1, <1>13 DEF DecodedInv, Unsealed
  <1>. QED BY <1>11, <1>14 DEF ChangesInv

LEMMA ChangesStep == ChangesInv /\ [C!Next]_changesVars => ChangesInv'
  <1>. SUFFICES ASSUME ChangesInv, [C!Next]_changesVars PROVE ChangesInv'
    OBVIOUS
  <1>1. CASE UNCHANGED changesVars
    BY <1>1 DEF changesVars, ChangesInv, LedgerInv, DecodedInv, IsLedger, NamesStay, Lamports, Unsealed,
                MetaOf, ToldHolds, Known, Held, Holding
  <1>. QED BY <1>1, PayHolds, TransferHolds, OpenHolds, CloseHolds, SealHolds, DecodeHolds DEF C!Next

LEMMA ChangesHold == ASSUME ChangesInv PROVE C!ChangesAreTrue
  <1>. SUFFICES ASSUME decoded.kind = "changes" PROVE C!ChangesAreTrue
    BY DEF C!ChangesAreTrue
  <1>. DEFINE A == C!Accounts
              f == [a \in A |-> Gained(decoded.gross, a, "SOL")]
              E(g) == [s \in SUBSET A |-> IF s = {} THEN 0
                                          ELSE C!Gained(decoded.gross, Pick(s), "SOL") + g[s \ {Pick(s)}]]
  <1>1. /\ ToldHolds(decoded.raw, decoded.gross, pre, now) /\ NamesStay(pre, now)
        /\ IsLedger(now) /\ IsLedger(pre)
    BY DEF ChangesInv, DecodedInv, LedgerInv
  <1>2. C!MapThenSumSet(LAMBDA a : C!Gained(decoded.gross, a, "SOL"), A) = (CHOOSE g : g = E(g))[A]
    BY DEF C!MapThenSumSet, C!MapThenFoldSet, Pick
  <1>3. \A g : E(g) = Unfold(f, SUBSET A, g)
    <2>1. \A s \in SUBSET A : s # {} => f[Pick(s)] = C!Gained(decoded.gross, Pick(s), "SOL")
      BY PickIsIn, SameGained
    <2>. HIDE DEF f, A
    <2>. QED BY <2>1 DEF Unfold
  <1>4. (CHOOSE g : g = E(g)) = (CHOOSE g : g = Unfold(f, SUBSET A, g))
    <2>. HIDE DEF E, f, A
    <2>. QED BY <1>3
  <1>5. Sum(f, A) = (CHOOSE g : g = Unfold(f, SUBSET A, g))[A]
    <2>. HIDE DEF f, A
    <2>. QED BY SumIsSolution
  <1>6. C!MapThenSumSet(LAMBDA a : C!Gained(decoded.gross, a, "SOL"), C!Accounts) = 0
    BY <1>1, <1>2, <1>4, <1>5 DEF ToldHolds
  <1>7. /\ C!Normal(decoded.raw) /\ C!Normal(decoded.gross)
        /\ \A a \in C!Accounts : C!Gained(decoded.raw, a, "SOL") = now.lamports[a] - pre.lamports[a]
    BY <1>1, SameGained, SameNormal DEF ToldHolds
  <1>8. ASSUME \A a \in DOMAIN pre.tokens : pre.tokens[a].named /\ C!KeepsItsOwner(a)
        PROVE  \A o \in C!Accounts, m \in Mints :
                 C!Gained(decoded.raw, o, m) = C!Tokens(now, o, m) - C!Tokens(pre, o, m)
    <2>1. Known(pre, now)
      BY <1>1, <1>8 DEF Known, NamesStay, C!KeepsItsOwner
    <2>. QED BY <1>1, <2>1, SameGained, TokensAreHeld DEF ToldHolds, Held
  <1>. QED BY <1>6, <1>7, <1>8 DEF C!ChangesAreTrue

-----------------------------------------------------------------------------
(* The scenes together.                                                    *)

\* What is told of a transaction, of its end and of what it moved, and of a bundle is
\* true, for any options, forks, accounts, mints, fees and bundles: of a status of which
\* nodes that trail tell, of changes whose accounts open and close on the way, of
\* replies with rows left out and in any order.
THEOREM StatusesHold == MCSpec => []StatusesAreTrue
  <1>. DEFINE Inv == WaitInv /\ BundleInv /\ ChangesInv
  <1>1. MCInit => Inv
    BY WaitInit, BundleInit, ChangesInit DEF MCInit
  <1>2. Inv /\ [MCNext]_allVars => Inv'
    <2>. SUFFICES ASSUME Inv, [MCNext]_allVars PROVE Inv'
      OBVIOUS
    <2>1. [W!Next]_waitVars /\ [J!Next]_bundleVars /\ [C!Next]_changesVars
      BY DEF MCNext, allVars, waitVars, bundleVars, changesVars
    <2>. QED BY <2>1, WaitStepHolds, BundleStep, ChangesStep
  <1>3. Inv => StatusesAreTrue
    BY SettledHolds, ChangesHold DEF StatusesAreTrue, BundleInv, J!BundleStatusIsTrue, InBlock
  <1>. QED BY <1>1, <1>2, <1>3, PTL DEF MCSpec
-----------------------------------------------------------------------------
(* A transfer from the request to the block.                               *)

Suffices(units) == units >= Costs.transfer + Costs.open /\ units >= Costs.transfer + Costs.opened

\* What an instruction holds was asked for, or follows from what the probe saw.
InstructionIsAsked(x) ==
  /\ x.op = "transfer" => x.amount = B!AmountOf(asked).amountMr
  /\ x.op = "open" =>
       /\ asked.token /\ (asked.via = "transfer" => ~probed.open)
       /\ x.idempotent = (asked.via # "transfer")
       /\ x.payer = IF asked.via = "transfer" THEN B!FeePayer ELSE "sender"
  /\ x.op = "limit" => x.units \in Nat

\* The transaction transfers, opens the account where it must, and has no instruction
\* twice; its limit suffices as it was built, and for the change it was estimated after.
TxInv ==
  /\ unsigned.kind = "unsigned"
  /\ DOMAIN unsigned.instructions \subseteq Nat
  /\ \A i \in DOMAIN unsigned.instructions : InstructionIsAsked(unsigned.instructions[i])
  /\ \A i, j \in DOMAIN unsigned.instructions :
       unsigned.instructions[i].op = unsigned.instructions[j].op => i = j
  /\ B!Contains(unsigned, "transfer")
  /\ asked.token /\ (asked.via = "transfer" => ~probed.open) => B!Contains(unsigned, "open")
  /\ unsigned.feePayer = B!FeePayer /\ unsigned.lastValid = unsigned.recentBlockhash
  /\ unsigned.estimatedAt \in Int /\ unsigned.estimatedAt <= changes
  /\ unsigned.estimatedAt = -1 => Suffices(B!Limit(unsigned))
  /\ outcome = B!Nothing /\ unsigned.estimatedAt = changes => B!Cost(unsigned) <= B!Limit(unsigned)

BuildInv ==
  /\ changes \in Nat
  /\ asked # B!Nothing => asked \in Requests /\ (outcome.kind # "error" => B!AmountOf(asked).kind = "exact")
  /\ probed # B!Nothing =>
       /\ asked # B!Nothing /\ probed.after \in Int /\ probed.after <= changes
       /\ outcome = B!Nothing /\ probed.after = changes => probed.open = B!Open
  /\ unsigned # B!Nothing => probed # B!Nothing /\ TxInv
  /\ signed # B!Nothing =>
       unsigned # B!Nothing /\ signed.tx = unsigned /\ signed.signatures = B!SignersOf(unsigned)
  /\ outcome = B!Nothing \/ outcome.kind = "error" \/ signed # B!Nothing
  /\ outcome.kind \in {"landed", "failed"} => signed # B!Nothing
  /\ B!LandsAsBuilt

\* The one instruction with an operation is what the chain reads of it.
LEMMA TheInstruction ==
  ASSUME NEW tx, DOMAIN tx.instructions \subseteq Nat,
         \A i, j \in DOMAIN tx.instructions : tx.instructions[i].op = tx.instructions[j].op => i = j,
         NEW op, NEW i \in DOMAIN tx.instructions, tx.instructions[i].op = op
  PROVE  B!Contains(tx, op) /\ B!First(tx, op) = tx.instructions[i] /\ B!Places(tx, op) = {i}
  <1>1. B!Places(tx, op) = {i}
    BY DEF B!Places
  <1>2. i <= i
    OBVIOUS
  <1>3. (CHOOSE p \in B!Places(tx, op) : \A q \in B!Places(tx, op) : p <= q) = i
    BY <1>1, <1>2
  <1>. QED BY <1>1, <1>3 DEF B!Contains, B!First

\* What a message s is made of: a limit l and a price p, or l, or neither; an opening o,
\* or none; and a transfer t.
MadeOf(s, budget, opening, l, p, o, t) ==
  /\ DOMAIN s \subseteq Nat
  /\ \A i, j \in DOMAIN s : s[i].op = s[j].op => i = j
  /\ \A i \in DOMAIN s : s[i] = t \/ s[i] = p \/ (s[i] = o /\ opening = <<o>>) \/ (s[i] = l /\ budget # <<>>)
  /\ \E i \in DOMAIN s : s[i] = t
  /\ opening # <<>> => \E i \in DOMAIN s : s[i] = o
  /\ budget # <<>> => \E i \in DOMAIN s : s[i] = l

LEMMA PartsTogether ==
  ASSUME NEW l, NEW p, NEW o, NEW t, l.op = "limit", p.op = "price", o.op = "open", t.op = "transfer",
         NEW budget \in {<<>>, <<l>>, <<l>> \o <<p>>}, NEW opening \in {<<>>, <<o>>}
  PROVE  MadeOf(budget \o opening \o <<t>>, budget, opening, l, p, o, t)
  <1>. DEFINE s == budget \o opening \o <<t>>
              X == {l, p, o, t}
              both == <<l>> \o <<p>>
  <1>1. /\ <<>> \in Seq(X) /\ <<l>> \in Seq(X) /\ <<p>> \in Seq(X) /\ <<o>> \in Seq(X) /\ <<t>> \in Seq(X)
        /\ Len(<<>>) = 0 /\ Len(<<l>>) = 1 /\ Len(<<p>>) = 1 /\ Len(<<o>>) = 1 /\ Len(<<t>>) = 1
    OBVIOUS
  <1>2. \A u, v \in Seq(X) :
          /\ u \o v \in Seq(X) /\ Len(u \o v) = Len(u) + Len(v)
          /\ \A i \in 1..Len(u \o v) : (u \o v)[i] = IF i <= Len(u) THEN u[i] ELSE v[i - Len(u)]
    <2>. HIDE DEF X
    <2>. QED OBVIOUS
  <1>3. both \in Seq(X) /\ Len(both) = 2 /\ both[1] = l /\ both[2] = p
    <2>1. both \in Seq(X) /\ Len(both) = 2 /\ \A i \in 1..2 : both[i] = IF i <= 1 THEN <<l>>[i] ELSE <<p>>[i - 1]
      BY <1>1, <1>2
    <2>. HIDE DEF both
    <2>. QED BY <2>1
  <1>4. budget \in Seq(X) /\ opening \in Seq(X) /\ budget \o opening \in Seq(X)
    BY <1>1, <1>2, <1>3
  <1>5. /\ s \in Seq(X) /\ Len(s) = Len(budget) + Len(opening) + 1
        /\ \A i \in 1..Len(s) :
              s[i] = IF i <= Len(budget) THEN budget[i]
                     ELSE IF i <= Len(budget) + Len(opening) THEN opening[i - Len(budget)] ELSE t
    <2>. DEFINE u == budget \o opening
    <2>1. /\ u \in Seq(X) /\ Len(u) = Len(budget) + Len(opening)
          /\ \A i \in 1..Len(u) : u[i] = IF i <= Len(budget) THEN budget[i] ELSE opening[i - Len(budget)]
      BY <1>2, <1>4
    <2>2. s = u \o <<t>>
      OBVIOUS
    <2>. HIDE DEF u, s, X
    <2>3. /\ s \in Seq(X) /\ Len(s) = Len(u) + 1
          /\ \A i \in 1..Len(s) : s[i] = IF i <= Len(u) THEN u[i] ELSE <<t>>[i - Len(u)]
      BY <1>1, <1>2, <2>1, <2>2
    <2>4. Len(budget) \in Nat /\ Len(opening) \in Nat
      BY <1>4
    <2>. QED BY <2>1, <2>3, <2>4
  <1>6. \/ budget = <<>> /\ Len(budget) = 0
        \/ Len(budget) = 1 /\ budget[1] = l
        \/ Len(budget) = 2 /\ budget[1] = l /\ budget[2] = p
    <2>1. budget = <<>> \/ budget = <<l>> \/ budget = both
      OBVIOUS
    <2>2. <<l>>[1] = l
      OBVIOUS
    <2>. HIDE DEF both
    <2>. QED BY <1>1, <1>3, <2>1, <2>2
  <1>7. \/ opening = <<>> /\ Len(opening) = 0
        \/ opening = <<o>> /\ Len(opening) = 1 /\ opening[1] = o
    OBVIOUS
  <1>8. DOMAIN s = 1..Len(s) /\ Len(<<>>) = 0
    BY <1>5
  <1>9. DOMAIN s \subseteq Nat /\ Len(budget) \in 0..2 /\ Len(opening) \in 0..1
    BY <1>4, <1>6, <1>7, <1>8
  <1>. HIDE DEF s, X
  <1>10. /\ \A i \in 1..Len(s) : s[i] = t \/ s[i] = p \/ (s[i] = o /\ opening = <<o>>) \/ (s[i] = l /\ budget # <<>>)
         /\ \A i, j \in 1..Len(s) : s[i].op = s[j].op => i = j
    BY <1>5, <1>6, <1>7, <1>8, <1>9
  <1>11. s[Len(s)] = t /\ Len(s) \in DOMAIN s
    BY <1>5, <1>8, <1>9
  <1>12. opening # <<>> => s[Len(budget) + 1] = o /\ Len(budget) + 1 \in DOMAIN s
    <2>. SUFFICES ASSUME opening # <<>> PROVE s[Len(budget) + 1] = o /\ Len(budget) + 1 \in DOMAIN s
      OBVIOUS
    <2>1. Len(opening) = 1 /\ opening[1] = o
      BY <1>7
    <2>. DEFINE n == Len(budget)
    <2>2. n \in Nat /\ n = Len(budget)
      <3>1. Len(budget) \in 0..2
        BY <1>9
      <3>. QED BY <3>1
    <2>. HIDE DEF n
    <2>3. Len(s) = n + 1 + 1
      <3>1. Len(s) = Len(budget) + Len(opening) + 1
        BY <1>5
      <3>. QED BY <2>1, <2>2, <3>1
    <2>4. n + 1 \in 1..Len(s) /\ ~(n + 1 <= n) /\ n + 1 <= n + 1 /\ (n + 1) - n = 1
      BY <2>2, <2>3
    <2>. QED BY <1>5, <1>8, <2>1, <2>2, <2>4
  <1>13. budget # <<>> => s[1] = l /\ 1 \in DOMAIN s
    BY <1>5, <1>6, <1>8, <1>9
  <1>. QED BY <1>8, <1>9, <1>10, <1>11, <1>12, <1>13 DEF s, MadeOf

\* What is built moves what was asked for, in the decimals of its mint.
LEMMA AmountIsAsked ==
  ASSUME NEW req \in Requests, B!AmountOf(req).kind = "exact"
  PROVE  B!AmountOf(req).amountMr =
           IF req.amount # <<>> THEN req.amount[1]
           ELSE (req.amountHr[1].digits * B!PowerOf10[req.decimals]) \div B!PowerOf10[req.amountHr[1].scale]
  <1>1. /\ req.amount \in Seq(Int) /\ req.amountHr \in Seq([digits : Int, scale : 0..9])
        /\ req.decimals \in 0..9
    BY RequestsAreFormed
  <1>2. CASE req.amount # <<>>
    BY <1>2 DEF B!AmountOf, B!resolveTransferAmount
  <1>3. CASE req.amount = <<>>
    <2>1. req.via = "transfer" /\ ~req.full
      BY <1>3 DEF B!AmountOf
    <2>2. B!AmountOf(req) = B!resolveTransferAmount(req, B!TokenDecimals(req))
      BY <2>1 DEF B!AmountOf
    <2>3. req.amountHr # <<>>
      <3>1. SUFFICES ASSUME req.amountHr = <<>> PROVE FALSE
        OBVIOUS
      <3>2. Len(req.amount) + Len(req.amountHr) + (IF req.full THEN 1 ELSE 0) # 1
        BY <1>3, <2>1, <3>1
      <3>3. B!AmountOf(req) = [kind |-> "refused"]
        BY <2>2, <3>2, Zenon DEF B!resolveTransferAmount
      <3>. QED BY <3>3
    <2>4. B!TokenDecimals(req) = req.decimals
      BY <2>3 DEF B!TokenDecimals
    <2>5. /\ ~(req.amountHr[1].digits < 0)
          /\ B!AmountOf(req).amountMr = B!hrDecimalToMinorUnits(req.amountHr[1], req.decimals)
      BY <1>3, <2>1, <2>2, <2>3, <2>4 DEF B!resolveTransferAmount
    <2>6. req.amountHr[1] \in [digits : Int, scale : 0..9]
      <3>. DEFINE X == [digits : Int, scale : 0..9]
      <3>1. PICK hr \in Seq(X) : hr = req.amountHr
        BY <1>1
      <3>. HIDE DEF X
      <3>2. hr[1] \in X
        BY <2>3, <3>1
      <3>. QED BY <3>1, <3>2 DEF X
    <2>7. req.amountHr[1] \in [digits : Nat, scale : 0..9]
      BY <2>5, <2>6
    <2>8. B!PowerOf10 = PowerOf10 /\ \A hr, d : B!hrDecimalToMinorUnits(hr, d) = hrDecimalToMinorUnits(hr, d)
      BY DEF B!PowerOf10, PowerOf10, B!hrDecimalToMinorUnits, hrDecimalToMinorUnits, B!Truncate, Truncate
    <2>. QED BY <1>1, <1>3, <2>5, <2>7, <2>8, MinorUnitsAreCut
  <1>. QED BY <1>2, <1>3

LEMMA AmountStays == ASSUME asked' = asked PROVE B!AmountOf(asked)' = B!AmountOf(asked)
  BY Zenon DEF B!AmountOf, B!resolveTransferAmount, B!hrDecimalToMinorUnits, B!Truncate, B!PowerOf10, B!TokenDecimals

\* Everything the builders place is as it was asked, and enough.
LEMMA BuiltIsAsked ==
  ASSUME BuildInv, probed # B!Nothing, outcome = B!Nothing,
         unsigned' = B!Unsigned(B!ComputeBudget \o B!Opening \o <<B!TransferBy(B!AmountOf(asked).amountMr)>>, blockhash),
         UNCHANGED <<account, changes, asked, probed, outcome>>
  PROVE  TxInv'
  <1>. DEFINE l == B!SetLimit(IF asked.units = 0 THEN DefaultUnits ELSE asked.units)
              p == [op |-> "price"]
              o == B!OpenAccount(IF asked.via = "transfer" THEN B!FeePayer ELSE "sender")
              t == B!TransferBy(B!AmountOf(asked).amountMr)
              budget == B!ComputeBudget
              opening == B!Opening
              s == budget \o opening \o <<t>>
  <1>1. asked \in Requests /\ asked.units \in Nat /\ asked.token \in BOOLEAN
    BY RequestsAreFormed DEF BuildInv
  <1>2. l.op = "limit" /\ p.op = "price" /\ o.op = "open" /\ t.op = "transfer"
    BY DEF B!SetLimit, B!OpenAccount, B!TransferBy
  <1>3. /\ l.units \in Nat /\ Suffices(l.units) /\ Suffices(DefaultUnits)
        /\ t.amount = B!AmountOf(asked).amountMr
        /\ o.idempotent = (asked.via # "transfer")
        /\ o.payer = IF asked.via = "transfer" THEN B!FeePayer ELSE "sender"
    <2>1. DefaultUnits \in Nat /\ Suffices(DefaultUnits)
      BY RequestsAreFormed DEF Suffices
    <2>2. asked.units # 0 => Suffices(asked.units)
      BY <1>1, RequestsAreFormed DEF Suffices
    <2>. QED BY <1>1, <2>1, <2>2 DEF B!SetLimit, B!OpenAccount, B!OpensIdempotently, B!TransferBy
  <1>4. budget \in {<<>>, <<l>>, <<l>> \o <<p>>}
    <2>1. CASE asked.via = "unsigned" \/ (asked.units = 0 /\ ~asked.price)
      BY <2>1, Zenon DEF B!ComputeBudget
    <2>2. CASE ~(asked.via = "unsigned" \/ (asked.units = 0 /\ ~asked.price)) /\ asked.price
      BY <2>2, Zenon DEF B!ComputeBudget
    <2>3. CASE ~(asked.via = "unsigned" \/ (asked.units = 0 /\ ~asked.price)) /\ ~asked.price
      <3>1. budget = <<l>> \o <<>>
        BY <2>3, Zenon DEF B!ComputeBudget
      <3>2. <<l>> \o <<>> = <<l>>
        OBVIOUS
      <3>. QED BY <3>1, <3>2, Zenon
    <2>. QED BY <2>1, <2>2, <2>3
  <1>5. opening \in {<<>>, <<o>>} /\ (opening = <<o>> <=> asked.token /\ (asked.via = "transfer" => ~probed.open))
    <2>1. <<>> # <<o>>
      OBVIOUS
    <2>2. opening = IF asked.token /\ (asked.via = "transfer" => ~probed.open) THEN <<o>> ELSE <<>>
      BY Zenon DEF B!Opening
    <2>. HIDE DEF opening, o
    <2>. QED BY <2>1, <2>2
  <1>6. unsigned' = B!Unsigned(s, blockhash)
    OBVIOUS
  <1>7. MadeOf(s, budget, opening, l, p, o, t)
    <2>. HIDE DEF l, p, o, t, budget, opening
    <2>. QED BY <1>2, <1>4, <1>5, PartsTogether
  <1>8. /\ unsigned'.kind = "unsigned" /\ unsigned'.instructions = s /\ unsigned'.feePayer = B!FeePayer
        /\ unsigned'.lastValid = unsigned'.recentBlockhash /\ unsigned'.estimatedAt = -1
    BY <1>6 DEF B!Unsigned
  <1>9. B!FeePayer' = B!FeePayer /\ B!AmountOf(asked)' = B!AmountOf(asked)
    <2>1. B!FeePayer' = B!FeePayer
      BY DEF B!FeePayer
    <2>. QED BY <2>1, AmountStays
  <1>. HIDE DEF l, p, o, t, budget, opening, s
  <1>. USE DEF MadeOf
  <1>10. ASSUME NEW i \in DOMAIN unsigned'.instructions PROVE InstructionIsAsked(unsigned.instructions[i])'
    <2>1. /\ s[i].op = "transfer" => s[i].amount = B!AmountOf(asked).amountMr
          /\ s[i].op = "open" =>
               /\ asked.token /\ (asked.via = "transfer" => ~probed.open)
               /\ s[i].idempotent = (asked.via # "transfer")
               /\ s[i].payer = IF asked.via = "transfer" THEN B!FeePayer ELSE "sender"
          /\ s[i].op = "limit" => s[i].units \in Nat
      BY <1>2, <1>3, <1>5, <1>7, <1>8 DEF InstructionIsAsked, p
    <2>2. unsigned'.instructions[i] = s[i]
      BY <1>8
    <2>. QED BY <1>9, <2>1, <2>2 DEF InstructionIsAsked
  <1>11. B!Contains(unsigned', "transfer") /\ (opening = <<o>> => B!Contains(unsigned', "open"))
    BY <1>2, <1>7, <1>8, TheInstruction
  <1>12. B!Limit(unsigned') \in {l.units, DefaultUnits}
    <2>1. CASE budget # <<>>
      <3>1. PICK i \in DOMAIN s : s[i] = l
        BY <1>7, <2>1
      <3>2. B!Contains(unsigned', "limit") /\ B!First(unsigned', "limit") = l
        BY <1>2, <1>7, <1>8, <3>1, TheInstruction
      <3>. QED BY <3>2 DEF B!Limit
    <2>2. CASE budget = <<>>
      <3>1. \A i \in DOMAIN s : s[i].op # "limit"
        BY <1>2, <1>7, <2>2
      <3>2. ~B!Contains(unsigned', "limit")
        BY <1>8, <3>1 DEF B!Contains, B!Places
      <3>. QED BY <3>2 DEF B!Limit
    <2>. QED BY <2>1, <2>2
  <1>13. Suffices(B!Limit(unsigned'))
    BY <1>3, <1>12
  <1>14. B!Contains(unsigned, "transfer")' = B!Contains(unsigned', "transfer")
         /\ B!Contains(unsigned, "open")' = B!Contains(unsigned', "open") /\ B!Limit(unsigned)' = B!Limit(unsigned')
    BY DEF B!Contains, B!Places, B!Limit, B!First
  <1>15. changes' \in Nat /\ changes' # -1
    BY DEF BuildInv
  <1>. QED BY <1>5, <1>7, <1>8, <1>9, <1>10, <1>11, <1>13, <1>14, <1>15 DEF TxInv

\* A step that keeps the transaction keeps what is so of it, if the account moves only
\* with the count of changes, or once there is an outcome.
LEMMA TxStays ==
  ASSUME BuildInv, TxInv, UNCHANGED <<asked, probed, unsigned>>, changes' \in Nat, changes' >= changes,
         outcome' = B!Nothing => outcome = B!Nothing /\ (changes' = changes => B!Open' = B!Open)
  PROVE  TxInv'
  <1>1. B!AmountOf(asked)' = B!AmountOf(asked) /\ B!FeePayer' = B!FeePayer
    BY AmountStays DEF B!FeePayer
  <1>2. \A op : B!Contains(unsigned, op)' = B!Contains(unsigned, op)
    BY DEF B!Contains, B!Places
  <1>3. B!Limit(unsigned)' = B!Limit(unsigned)
    BY <1>2 DEF B!Limit, B!First, B!Places, B!Contains
  <1>4. B!Open' = B!Open => B!Cost(unsigned)' = B!Cost(unsigned)
    BY <1>2 DEF B!Cost, B!Contains, B!Places
  <1>5. \A i \in DOMAIN unsigned.instructions : InstructionIsAsked(unsigned.instructions[i])'
    <2>. TAKE i \in DOMAIN unsigned.instructions
    <2>1. InstructionIsAsked(unsigned.instructions[i])
      BY DEF TxInv
    <2>. QED BY <1>1, <2>1 DEF InstructionIsAsked
  <1>6. unsigned.estimatedAt \in Int /\ changes \in Nat
    BY DEF TxInv, BuildInv
  <1>7. /\ B!Contains(unsigned, "transfer")'
        /\ (asked.token /\ (asked.via = "transfer" => ~probed.open) => B!Contains(unsigned, "open"))'
    BY <1>2 DEF TxInv, B!Contains, B!Places
  <1>8. (outcome = B!Nothing /\ unsigned.estimatedAt = changes => B!Cost(unsigned) <= B!Limit(unsigned))'
    <2>. SUFFICES ASSUME (outcome = B!Nothing)', unsigned.estimatedAt = changes' PROVE (B!Cost(unsigned) <= B!Limit(unsigned))'
      OBVIOUS
    <2>1. outcome' = B!Nothing
      BY DEF B!Nothing
    <2>2. changes' = changes /\ unsigned.estimatedAt = changes
      BY <1>6 DEF TxInv
    <2>3. B!Cost(unsigned) <= B!Limit(unsigned) /\ B!Open' = B!Open
      BY <2>1, <2>2 DEF TxInv
    <2>. QED BY <1>3, <1>4, <2>3
  <1>9. (unsigned.estimatedAt = -1 => Suffices(B!Limit(unsigned)))'
    BY <1>3 DEF TxInv, Suffices
  <1>. QED BY <1>1, <1>5, <1>6, <1>7, <1>8, <1>9 DEF TxInv

\* The estimate leaves every other instruction as it is, and the limit is enough for
\* what was consumed.
LEMMA EstimateHolds == BuildInv /\ B!estimateAndApplyCu => BuildInv'
  <1>. SUFFICES ASSUME BuildInv, B!estimateAndApplyCu PROVE BuildInv'
    OBVIOUS
  <1>. DEFINE old == unsigned.instructions
              new == unsigned'.instructions
              units == B!RightSized(B!Cost(unsigned))
  <1>1. /\ unsigned # B!Nothing /\ signed = B!Nothing /\ B!Contains(unsigned, "limit")
        /\ UNCHANGED <<account, changes, blockhash, read, asked, probed, signed, outcome>>
    BY DEF B!estimateAndApplyCu, B!Pending, B!Others
  <1>2. TxInv /\ asked \in Requests /\ probed # B!Nothing
    BY <1>1 DEF BuildInv
  <1>3. unsigned' = [unsigned EXCEPT
          !.instructions = [i \in DOMAIN old |-> IF old[i].op = "limit" THEN B!SetLimit(units) ELSE old[i]],
          !.estimatedAt = changes]
    BY DEF B!estimateAndApplyCu
  <1>4. Costs.transfer \in Nat /\ Costs.open \in Nat /\ Costs.opened \in Nat
    BY RequestsAreFormed
  <1>5. B!Cost(unsigned) \in Nat /\ units \in Nat /\ units >= B!Cost(unsigned)
    <2>1. B!Cost(unsigned) \in Nat
      BY <1>4 DEF B!Cost
    <2>2. PICK c \in Nat : c = B!Cost(unsigned)
      BY <2>1
    <2>3. (11 * c + 9) \div 10 \in Nat /\ (11 * c + 9) \div 10 >= c
      OBVIOUS
    <2>. QED BY <2>2, <2>3 DEF B!RightSized
  <1>6. /\ DOMAIN new = DOMAIN old
        /\ \A i \in DOMAIN old : new[i] = IF old[i].op = "limit" THEN B!SetLimit(units) ELSE old[i]
        /\ unsigned'.estimatedAt = changes /\ unsigned'.kind = unsigned.kind
        /\ unsigned'.feePayer = unsigned.feePayer /\ unsigned'.lastValid = unsigned.lastValid
        /\ unsigned'.recentBlockhash = unsigned.recentBlockhash
    BY <1>3
  <1>. HIDE DEF units
  <1>7. \A i \in DOMAIN old : new[i].op = old[i].op
    BY <1>6 DEF B!SetLimit
  <1>8. \A op : B!Places(unsigned', op) = B!Places(unsigned, op) /\ B!Contains(unsigned', op) = B!Contains(unsigned, op)
    BY <1>6, <1>7 DEF B!Places, B!Contains
  <1>9. B!Limit(unsigned') = units
    <2>1. PICK i \in DOMAIN old : old[i].op = "limit"
      BY <1>1 DEF B!Contains, B!Places
    <2>2. new[i] = B!SetLimit(units) /\ new[i].op = "limit"
      BY <1>6, <1>7, <2>1
    <2>3. B!Contains(unsigned', "limit") /\ B!First(unsigned', "limit") = new[i]
      <3>1. DOMAIN new \subseteq Nat /\ \A j, k \in DOMAIN new : new[j].op = new[k].op => j = k
        BY <1>2, <1>6, <1>7 DEF TxInv
      <3>2. i \in DOMAIN new
        BY <1>6
      <3>. QED BY <2>2, <3>1, <3>2, TheInstruction
    <2>. QED BY <2>2, <2>3 DEF B!Limit, B!SetLimit
  <1>10. /\ B!Contains(unsigned, "transfer")' = B!Contains(unsigned', "transfer")
         /\ B!Contains(unsigned, "open")' = B!Contains(unsigned', "open")
         /\ B!Limit(unsigned)' = B!Limit(unsigned')
    BY DEF B!Contains, B!Places, B!Limit, B!First
  <1>11. B!Cost(unsigned)' = B!Cost(unsigned)
    <2>1. B!Open' = B!Open
      BY <1>1 DEF B!Open, B!Closed
    <2>. QED BY <1>8, <1>10, <2>1 DEF B!Cost
  <1>12. B!AmountOf(asked)' = B!AmountOf(asked) /\ B!FeePayer' = B!FeePayer
    BY <1>1, AmountStays DEF B!FeePayer
  <1>13. ASSUME NEW i \in DOMAIN new PROVE InstructionIsAsked(unsigned.instructions[i])'
    <2>1. InstructionIsAsked(old[i])
      BY <1>2, <1>6 DEF TxInv
    <2>2. new[i] = old[i] \/ (new[i].op = "limit" /\ new[i].units \in Nat)
      BY <1>5, <1>6 DEF B!SetLimit
    <2>. QED BY <1>1, <1>12, <2>1, <2>2 DEF InstructionIsAsked
  <1>14. changes \in Nat /\ changes' = changes
    BY <1>1 DEF BuildInv
  <1>15. TxInv'
    <2>1. \A i, j \in DOMAIN new : new[i].op = new[j].op => i = j
      BY <1>2, <1>6, <1>7 DEF TxInv
    <2>2. (asked.token /\ (asked.via = "transfer" => ~probed.open) => B!Contains(unsigned, "open"))'
      BY <1>1, <1>2, <1>8, <1>10 DEF TxInv
    <2>. QED BY <1>1, <1>2, <1>5, <1>6, <1>8, <1>9, <1>10, <1>11, <1>12, <1>13, <1>14, <2>1, <2>2 DEF TxInv
  <1>16. outcome.kind \notin {"landed", "failed"}
    BY <1>1 DEF BuildInv
  <1>17. B!LandsAsBuilt'
    BY <1>1, <1>16 DEF B!LandsAsBuilt, B!LandsUnlessChanged, B!BuiltAsAsked
  <1>18. B!Open' = B!Open
    BY <1>1 DEF B!Open, B!Closed
  <1>. QED BY <1>1, <1>12, <1>15, <1>17, <1>18 DEF BuildInv

\* What lands is what was asked for, and what fails was changed by others.
LEMMA ExecuteHolds == BuildInv /\ B!Execute => BuildInv'
  <1>. SUFFICES ASSUME BuildInv, B!Execute PROVE BuildInv'
    OBVIOUS
  <1>. DEFINE tx == signed.tx
  <1>1. /\ signed # B!Nothing /\ outcome = B!Nothing
        /\ UNCHANGED <<changes, blockhash, read, asked, probed, unsigned, signed>>
    BY DEF B!Execute
  <1>2. /\ tx = unsigned /\ TxInv /\ signed.signatures = B!SignersOf(unsigned)
        /\ probed # B!Nothing /\ asked # B!Nothing /\ unsigned # B!Nothing
    BY <1>1 DEF BuildInv
  <1>3. asked \in Requests /\ B!AmountOf(asked).kind = "exact"
    BY <1>1, <1>2 DEF BuildInv, B!Nothing
  <1>4. /\ outcome'.kind = (IF B!Fails(tx) THEN "failed" ELSE "landed") /\ outcome'.after = changes
        /\ outcome'.moved = B!First(tx, "transfer").amount /\ outcome'.feeBy = tx.feePayer
        /\ outcome'.rentBy = IF B!Contains(tx, "open") /\ ~B!Open THEN B!First(tx, "open").payer ELSE "none"
    BY DEF B!Execute
  <1>5. outcome' # B!Nothing
    BY <1>4 DEF B!Nothing
  <1>6. TxInv'
    BY <1>1, <1>2, <1>5, TxStays DEF BuildInv
  <1>7. ASSUME NEW op, B!Contains(unsigned, op)
        PROVE  \E i \in DOMAIN unsigned.instructions :
                 /\ unsigned.instructions[i].op = op /\ InstructionIsAsked(unsigned.instructions[i])
                 /\ B!First(unsigned, op) = unsigned.instructions[i] /\ B!Places(unsigned, op) = {i}
    <2>1. PICK i \in DOMAIN unsigned.instructions : unsigned.instructions[i].op = op
      BY <1>7 DEF B!Contains, B!Places
    <2>2. /\ DOMAIN unsigned.instructions \subseteq Nat
          /\ \A j, k \in DOMAIN unsigned.instructions :
               unsigned.instructions[j].op = unsigned.instructions[k].op => j = k
          /\ InstructionIsAsked(unsigned.instructions[i])
      BY <1>2, <2>1 DEF TxInv
    <2>3. B!First(unsigned, op) = unsigned.instructions[i] /\ B!Places(unsigned, op) = {i}
      BY <2>1, <2>2, TheInstruction
    <2>. QED BY <2>1, <2>2, <2>3
  <1>8. ~(\E i, j \in B!Places(unsigned, "limit") : i # j)
    BY <1>7 DEF B!Contains
  <1>9. asked.via \in {"transfer", "instructions", "unsigned"} /\ asked.token \in BOOLEAN
    BY <1>3, RequestsAreFormed
  <1>10. B!LandsUnlessChanged'
    <2>. SUFFICES ASSUME B!Fails(unsigned), ~(asked.via = "transfer" /\ asked.token /\ probed.after # changes),
                         unsigned.estimatedAt \in {-1, changes}
                  PROVE  FALSE
      BY <1>1, <1>2, <1>4 DEF B!LandsUnlessChanged
    <2>1. asked.via = "transfer" /\ asked.token => probed.open = B!Open
      BY <1>1, <1>2 DEF BuildInv
    <2>2. ~(asked.token /\ ~B!Open /\ ~B!Contains(unsigned, "open"))
      BY <1>2, <2>1 DEF TxInv
    <2>3. ~(B!Contains(unsigned, "open") /\ ~B!First(unsigned, "open").idempotent /\ B!Open)
      BY <1>7, <1>9, <2>1 DEF InstructionIsAsked
    <2>4. B!Cost(unsigned) <= B!Limit(unsigned)
      <3>1. CASE unsigned.estimatedAt = changes
        BY <1>1, <1>2, <3>1 DEF TxInv
      <3>2. CASE unsigned.estimatedAt = -1
        <4>1. Suffices(B!Limit(unsigned))
          BY <1>2, <3>2 DEF TxInv
        <4>2. Costs.transfer \in Nat /\ Costs.open \in Nat /\ Costs.opened \in Nat
          BY RequestsAreFormed
        <4>3. B!Limit(unsigned) \in Int
          <5>1. B!Contains(unsigned, "limit") => B!First(unsigned, "limit").units \in Nat
            BY <1>7 DEF InstructionIsAsked
          <5>. QED BY <5>1, RequestsAreFormed DEF B!Limit
        <4>. QED BY <4>1, <4>2, <4>3 DEF Suffices, B!Cost
      <3>. QED BY <3>1, <3>2
    <2>5. B!Cost(unsigned) \in Int /\ B!Limit(unsigned) \in Int
      <3>1. B!Contains(unsigned, "limit") => B!First(unsigned, "limit").units \in Nat
        BY <1>7 DEF InstructionIsAsked
      <3>2. Costs.transfer \in Nat /\ Costs.open \in Nat /\ Costs.opened \in Nat
        BY RequestsAreFormed
      <3>. QED BY <3>1, <3>2, RequestsAreFormed DEF B!Limit, B!Cost
    <2>. QED BY <1>8, <2>2, <2>3, <2>4, <2>5 DEF B!Fails
  <1>11. outcome'.moved = B!AmountOf(asked).amountMr
    BY <1>2, <1>4, <1>7 DEF InstructionIsAsked, TxInv
  <1>12. outcome'.moved =
           IF asked.amount # <<>> THEN asked.amount[1]
           ELSE (asked.amountHr[1].digits * B!PowerOf10[asked.decimals]) \div B!PowerOf10[asked.amountHr[1].scale]
    BY <1>3, <1>11, AmountIsAsked
  <1>13. outcome'.rentBy \in {"none", IF asked.via = "transfer" THEN B!FeePayer ELSE "sender"}
    BY <1>2, <1>4, <1>7 DEF InstructionIsAsked
  <1>14. B!PowerOf10' = B!PowerOf10 /\ B!FeePayer' = B!FeePayer
    BY <1>1 DEF B!PowerOf10, B!FeePayer
  <1>15. B!BuiltAsAsked'
    BY <1>1, <1>2, <1>4, <1>12, <1>13, <1>14 DEF B!BuiltAsAsked, TxInv, B!SignersOf
  <1>16. B!AmountOf(asked)' = B!AmountOf(asked)
    BY <1>1, AmountStays
  <1>17. outcome' # B!Nothing' /\ signed' # B!Nothing' /\ B!Nothing' = B!Nothing
    BY <1>1, <1>5 DEF B!Nothing
  <1>18. signed'.signatures = B!SignersOf(unsigned)'
    BY <1>1, <1>2 DEF B!SignersOf
  <1>. QED BY <1>1, <1>2, <1>3, <1>6, <1>10, <1>15, <1>16, <1>17, <1>18 DEF BuildInv, B!LandsAsBuilt

LEMMA BuildInit == B!Init => BuildInv
  BY DEF B!Init, BuildInv, B!LandsAsBuilt, B!LandsUnlessChanged, B!BuiltAsAsked, B!Nothing

\* A step that leaves the transaction, or builds it, while nothing came of it yet.
LEMMA OpenStep ==
  ASSUME BuildInv, UNCHANGED <<account, changes, asked, outcome>>, outcome.kind \notin {"landed", "failed"},
         probed' # B!Nothing =>
           (asked # B!Nothing /\ probed' = probed) \/
           (asked # B!Nothing /\ probed'.after = changes /\ probed'.open = B!Open),
         unsigned' # B!Nothing => probed' # B!Nothing /\ TxInv',
         signed' # B!Nothing =>
           unsigned' # B!Nothing /\ signed'.tx = unsigned' /\ signed'.signatures = B!SignersOf(unsigned'),
         outcome = B!Nothing \/ outcome.kind = "error"
  PROVE  BuildInv'
  <1>1. B!AmountOf(asked)' = B!AmountOf(asked) /\ B!Open' = B!Open /\ B!Nothing' = B!Nothing
    BY AmountStays DEF B!Open, B!Closed, B!Nothing
  <1>2. B!LandsAsBuilt'
    BY DEF B!LandsAsBuilt, B!LandsUnlessChanged, B!BuiltAsAsked
  <1>3. B!SignersOf(unsigned)' = B!SignersOf(unsigned')
    BY DEF B!SignersOf
  <1>4. changes \in Int /\ changes <= changes
    BY DEF BuildInv
  <1>. QED BY <1>1, <1>2, <1>3, <1>4 DEF BuildInv

\* What finalizeAndSerialize takes of the two who may have to sign.
LEMMA WhoSigns ==
  ASSUME NEW a, NEW b
  PROVE  SubSeq(<<a, b>>, 2, 2) = <<b>> /\ SubSeq(<<a, b>>, 1, 2) = <<a, b>>
  <1>. DEFINE X == {a, b}
  <1>1. PICK s : s = <<a, b>>
    OBVIOUS
  <1>2. s \in Seq(X) /\ Len(s) = 2 /\ s[1] = a /\ s[2] = b
    BY <1>1
  <1>3. \A u \in Seq(X) : u = [i \in 1..Len(u) |-> u[i]]
    <2>. HIDE DEF X
    <2>. QED OBVIOUS
  <1>4. SubSeq(s, 2, 2) = <<b>>
    <2>. DEFINE u == SubSeq(s, 2, 2)
    <2>1. u \in Seq(X) /\ Len(u) = 1 /\ u[1] = s[2]
      <3>. HIDE DEF X
      <3>. QED BY <1>2
    <2>. HIDE DEF u
    <2>2. u = [i \in 1..1 |-> u[i]] /\ \A i \in 1..1 : u[i] = b
      BY <1>2, <1>3, <2>1
    <2>3. [i \in 1..1 |-> u[i]] = <<b>>
      BY <2>2
    <2>. QED BY <2>2, <2>3 DEF u
  <1>5. SubSeq(s, 1, 2) = s
    <2>1. PICK u \in Seq(X) : u = SubSeq(s, 1, 2) /\ Len(u) = 2 /\ u[1] = s[1] /\ u[2] = s[2]
      <3>. HIDE DEF X
      <3>. QED BY <1>2
    <2>2. \A i \in 1..2 : u[i] = s[i]
      BY <2>1
    <2>3. u = [i \in 1..2 |-> u[i]] /\ s = [i \in 1..2 |-> s[i]]
      BY <1>2, <1>3, <2>1
    <2>4. [i \in 1..2 |-> u[i]] = [i \in 1..2 |-> s[i]]
      BY <2>2
    <2>. QED BY <2>1, <2>3, <2>4
  <1>. QED BY <1>1, <1>4, <1>5

LEMMA BuildSteps == BuildInv /\ [B!Next]_buildVars => BuildInv'
  <1>. SUFFICES ASSUME BuildInv, [B!Next]_buildVars PROVE BuildInv'
    OBVIOUS
  <1>. DEFINE Fixed == UNCHANGED <<asked, probed, unsigned, signed, outcome>>
  <1>1. ASSUME Fixed, changes' \in Nat, changes' >= changes, changes' = changes => account' = account PROVE BuildInv'
    <2>1. /\ changes' = changes => B!Open' = B!Open
          /\ B!AmountOf(asked)' = B!AmountOf(asked) /\ B!Nothing' = B!Nothing
      BY <1>1, AmountStays DEF B!Open, B!Closed, B!Nothing
    <2>2. unsigned' # B!Nothing' => TxInv'
      BY <1>1, <2>1, TxStays DEF BuildInv
    <2>3. B!LandsAsBuilt'
      <3>1. B!LandsAsBuilt
        BY DEF BuildInv
      <3>. QED BY <1>1, <3>1
           DEF B!LandsAsBuilt, B!LandsUnlessChanged, B!BuiltAsAsked, B!SignersOf, B!FeePayer, B!PowerOf10
    <2>4. B!SignersOf(unsigned)' = B!SignersOf(unsigned)
      BY <1>1 DEF B!SignersOf
    <2>5. probed # B!Nothing => probed.after \in Int /\ changes \in Nat
      BY DEF BuildInv
    <2>6. (probed # B!Nothing =>
             /\ asked # B!Nothing /\ probed.after \in Int /\ probed.after <= changes
             /\ outcome = B!Nothing /\ probed.after = changes => probed.open = B!Open)'
      BY <1>1, <2>1, <2>5 DEF BuildInv
    <2>. QED BY <1>1, <2>1, <2>2, <2>3, <2>4, <2>6 DEF BuildInv
  <1>2. CASE B!Ask
    <2>1. /\ asked = B!Nothing /\ UNCHANGED <<account, changes, probed, unsigned, signed>>
          /\ asked' \in Requests
          /\ outcome' = IF B!AmountOf(asked').kind = "exact" THEN B!Nothing ELSE B!Error("InvalidArgument")
      BY <1>2 DEF B!Ask, B!Others
    <2>2. probed = B!Nothing /\ unsigned = B!Nothing /\ signed = B!Nothing
      BY <2>1 DEF BuildInv
    <2>3. outcome'.kind \in {"nothing", "error"} /\ (outcome'.kind # "error" => B!AmountOf(asked').kind = "exact")
          /\ (outcome' = B!Nothing \/ outcome'.kind = "error")
      BY <2>1 DEF B!Nothing, B!Error
    <2>4. B!LandsAsBuilt'
      BY <2>3 DEF B!LandsAsBuilt, B!LandsUnlessChanged, B!BuiltAsAsked
    <2>5. B!AmountOf(asked)' = B!AmountOf(asked')
      BY Zenon DEF B!AmountOf, B!resolveTransferAmount, B!hrDecimalToMinorUnits, B!Truncate, B!PowerOf10, B!TokenDecimals
    <2>6. B!Nothing' = B!Nothing
      BY DEF B!Nothing
    <2>. QED BY <2>1, <2>2, <2>3, <2>4, <2>5, <2>6 DEF BuildInv
  <1>3. CASE B!Probe
    <2>1. /\ asked # B!Nothing /\ outcome = B!Nothing /\ probed = B!Nothing
          /\ probed'.open = B!Open /\ probed'.after = changes
          /\ UNCHANGED <<account, changes, asked, unsigned, signed, outcome>>
      BY <1>3 DEF B!Probe, B!Others
    <2>2. unsigned = B!Nothing /\ signed = B!Nothing
      BY <2>1 DEF BuildInv
    <2>. QED BY <2>1, <2>2, OpenStep DEF B!Nothing
  <1>4. CASE B!Build
    <2>1. /\ probed # B!Nothing /\ unsigned = B!Nothing /\ outcome = B!Nothing
          /\ UNCHANGED <<account, changes, asked, probed, signed>>
      BY <1>4 DEF B!Build, B!Others
    <2>2. asked # B!Nothing /\ signed = B!Nothing /\ asked \in Requests
      BY <2>1 DEF BuildInv
    <2>3. CASE outcome' = outcome /\ unsigned' = B!Unsigned(B!ComputeBudget \o B!Opening
                                        \o <<B!TransferBy(B!AmountOf(asked).amountMr)>>, blockhash)
      <3>1. TxInv'
        BY <2>1, <2>3, BuiltIsAsked
      <3>. QED BY <2>1, <2>2, <2>3, <3>1, OpenStep DEF B!Nothing
    <2>4. CASE unsigned' = unsigned /\ \E kind \in {"TransactionTooLarge", "RpcError"} : outcome' = B!Error(kind)
      <3>1. outcome'.kind = "error"
        BY <2>4 DEF B!Error
      <3>2. B!LandsAsBuilt'
        BY <3>1 DEF B!LandsAsBuilt, B!LandsUnlessChanged, B!BuiltAsAsked
      <3>3. B!Nothing' = B!Nothing /\ outcome' # B!Nothing /\ B!AmountOf(asked)' = B!AmountOf(asked)
        BY <2>1, <3>1, AmountStays DEF B!Nothing
      <3>. QED BY <2>1, <2>2, <2>4, <3>1, <3>2, <3>3 DEF BuildInv
    <2>. QED BY <1>4, <2>3, <2>4 DEF B!Build
  <1>5. CASE B!estimateAndApplyCu
    BY <1>5, EstimateHolds
  <1>6. CASE B!refreshBlockhash
    <2>1. /\ unsigned # B!Nothing /\ signed = B!Nothing
          /\ unsigned' = [unsigned EXCEPT !.recentBlockhash = blockhash, !.lastValid = blockhash]
          /\ UNCHANGED <<account, changes, asked, probed, signed, outcome>>
      BY <1>6 DEF B!refreshBlockhash, B!Pending, B!Others
    <2>2. TxInv /\ probed # B!Nothing /\ asked # B!Nothing /\ outcome.kind \notin {"landed", "failed"}
          /\ (outcome = B!Nothing \/ outcome.kind = "error")
      BY <2>1 DEF BuildInv
    <2>3. /\ unsigned'.kind = unsigned.kind /\ unsigned'.instructions = unsigned.instructions
          /\ unsigned'.feePayer = unsigned.feePayer /\ unsigned'.estimatedAt = unsigned.estimatedAt
          /\ unsigned'.lastValid = unsigned'.recentBlockhash
      BY <2>1
    <2>4. TxInv'
      <3>1. \A i \in DOMAIN unsigned.instructions : InstructionIsAsked(unsigned.instructions[i])'
        <4>1. TAKE i \in DOMAIN unsigned.instructions
        <4>2. InstructionIsAsked(unsigned.instructions[i]) /\ B!AmountOf(asked)' = B!AmountOf(asked)
          BY <2>1, <2>2, AmountStays DEF TxInv
        <4>. QED BY <2>1, <2>3, <4>2 DEF InstructionIsAsked, B!FeePayer
      <3>2. /\ \A op : B!Contains(unsigned, op)' = B!Contains(unsigned, op)
            /\ B!Limit(unsigned)' = B!Limit(unsigned)
        BY <2>3 DEF B!Contains, B!Places, B!Limit, B!First
      <3>3. B!Cost(unsigned)' = B!Cost(unsigned)
        BY <2>1, <2>3 DEF B!Cost, B!Contains, B!Places, B!Open, B!Closed
      <3>4. /\ B!Contains(unsigned, "transfer")'
            /\ (asked.token /\ (asked.via = "transfer" => ~probed.open) => B!Contains(unsigned, "open"))'
        BY <2>1, <2>2, <2>3 DEF TxInv, B!Contains, B!Places
      <3>. QED BY <2>1, <2>2, <2>3, <3>1, <3>2, <3>3, <3>4 DEF TxInv, Suffices, B!FeePayer
    <2>. QED BY <2>1, <2>2, <2>4, OpenStep DEF B!Nothing
  <1>7. CASE B!finalizeAndSerialize
    <2>1. /\ unsigned # B!Nothing /\ signed = B!Nothing
          /\ UNCHANGED <<account, changes, asked, probed, unsigned, outcome>>
          /\ \E n \in 1..2 :
               /\ n = Len(B!SignersOf(unsigned))
               /\ signed' = [kind |-> "signed", tx |-> unsigned, signatures |-> SubSeq(<<"sponsor", "sender">>, 3 - n, 2)]
      BY <1>7 DEF B!finalizeAndSerialize, B!Pending, B!Others
    <2>2. TxInv /\ probed # B!Nothing /\ asked # B!Nothing /\ outcome.kind \notin {"landed", "failed"}
          /\ (outcome = B!Nothing \/ outcome.kind = "error")
      BY <2>1 DEF BuildInv
    <2>3. unsigned.feePayer \in {"sponsor", "sender"}
      BY <2>2 DEF TxInv, B!FeePayer
    <2>4. signed'.tx = unsigned /\ signed'.signatures = B!SignersOf(unsigned)
      <3>1. CASE unsigned.feePayer = "sender"
        <4>1. B!SignersOf(unsigned) = <<"sender">>
          BY <3>1 DEF B!SignersOf
        <4>2. SubSeq(<<"sponsor", "sender">>, 2, 2) = <<"sender">>
          BY WhoSigns
        <4>. QED BY <2>1, <4>1, <4>2
      <3>2. CASE unsigned.feePayer = "sponsor"
        <4>1. B!SignersOf(unsigned) = <<"sponsor", "sender">>
          BY <3>2 DEF B!SignersOf
        <4>2. SubSeq(<<"sponsor", "sender">>, 1, 2) = <<"sponsor", "sender">>
          BY WhoSigns
        <4>. QED BY <2>1, <4>1, <4>2
      <3>. QED BY <2>3, <3>1, <3>2
    <2>5. TxInv'
      BY <2>1, <2>2, TxStays DEF BuildInv, B!Open, B!Closed
    <2>. QED BY <2>1, <2>2, <2>4, <2>5, OpenStep DEF B!Nothing
  <1>8. CASE B!Execute
    BY <1>8, ExecuteHolds
  <1>9. CASE B!OthersMove
    <2>1. Fixed /\ changes' = changes + 1
      BY <1>9 DEF B!OthersMove
    <2>2. changes \in Nat
      BY DEF BuildInv
    <2>. QED BY <1>1, <2>1, <2>2
  <1>10. CASE B!NextBlockhash \/ B!ReadAccount \/ UNCHANGED buildVars
    <2>1. Fixed /\ changes' = changes /\ account' = account
      BY <1>10 DEF B!NextBlockhash, B!ReadAccount, buildVars
    <2>2. changes \in Nat
      BY DEF BuildInv
    <2>. QED BY <1>1, <2>1, <2>2
  <1>. QED BY <1>2, <1>3, <1>4, <1>5, <1>6, <1>7, <1>8, <1>9, <1>10 DEF B!Next, buildVars

\* A transfer that was built lands as it was asked for, in the mint's units and at its
\* payers' expense, unless others changed the recipient's account in between: for any
\* requests and prices of computing, whenever and however often the account changes.
THEOREM BuildsLand == MCSpec => []LandsAsBuilt
  <1>1. MCInit => BuildInv
    BY BuildInit DEF MCInit
  <1>2. BuildInv /\ [MCNext]_allVars => BuildInv'
    <2>1. [MCNext]_allVars => [B!Next]_buildVars
      BY DEF MCNext, allVars, buildVars
    <2>. QED BY <2>1, BuildSteps
  <1>3. BuildInv => LandsAsBuilt
    BY DEF BuildInv, LandsAsBuilt
  <1>. QED BY <1>1, <1>2, <1>3, PTL DEF MCSpec
=============================================================================
