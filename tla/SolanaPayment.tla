--------------------------- MODULE SolanaPayment ---------------------------
(***************************************************************************)
(* One payment on Solana and the transactions signed for it: SolanaChain   *)
(* builds with a finalized blockhash, broadcasts, reads the status and the *)
(* height, and refreshes the blockhash for a transaction signed anew.      *)
(*                                                                         *)
(* Nodes behind one endpoint trail the chain by up to Lag blocks; each     *)
(* read and each broadcast meets a node of its own.                        *)
(***************************************************************************)
EXTENDS Integers, FiniteSets

CONSTANTS
  Txs,          \* 1 .. n: the transactions in the order they are built
  Window,       \* blocks a blockhash stays valid
  FinalLag,     \* blocks from a block to its finality
  Lag,          \* blocks a node is behind at most
  Margin,       \* blocks past lastValidBlockHeight the caller waits for
  Paths,        \* opts.via: "direct", "jito"
  Rule,         \* what lets the caller sign anew: "expiry" or "error"
  BuildUntil,   \* bound: no transaction is built above this height
  MaxHeight     \* bound: the chain's height

ASSUME SolanaAssumption ==
  /\ {Window, FinalLag, Lag, Margin, BuildUntil, MaxHeight} \subseteq Nat
  /\ FinalLag <= MaxHeight
  /\ Txs \subseteq Nat \ {0}
  /\ Paths \subseteq {"direct", "jito"}
  /\ Rule \in {"expiry", "error"}

VARIABLES
  height,   \* the chain's block height
  born,     \* per transaction: the height of its blockhash, -1 before it is built
  sent,     \* transactions some leader may have
  landed,   \* per transaction: its block, 0 before
  fate,     \* per transaction: whether its instructions succeeded there
  past,     \* transactions whose caller saw the chain past their last block
  told      \* per transaction: the answers its caller has had and acts on

chainVars == <<height, landed, fate>>
vars == <<chainVars, born, sent, past, told>>

Answers == {"success", "failed", "expired", "rejected", "dead"}

Built(k) == born[k] >= 0
LastValid(k) == born[k] + Window
OnChain(k) == landed[k] > 0
Views == {v \in 0 .. height : height <= v + Lag}

-----------------------------------------------------------------------------
(* The chain.                                                              *)

\* What the leader of the next block may include.
CanLand(k) == Built(k) /\ k \in sent /\ ~OnChain(k) /\ height < LastValid(k)

Block ==
  /\ height < MaxHeight
  /\ height' = height + 1
  /\ \E S \in SUBSET {k \in Txs : CanLand(k)}, ok \in BOOLEAN :
       /\ landed' = [k \in Txs |-> IF k \in S THEN height + 1 ELSE landed[k]]
       /\ fate' = [k \in Txs |-> IF k \in S THEN ok ELSE fate[k]]
  /\ UNCHANGED <<born, sent, past, told>>

SeenIn(k, v) == OnChain(k) /\ landed[k] <= v

-----------------------------------------------------------------------------
(* Building and signing.                                                   *)

\* Slip: the newest blockhash a node has.
NewestBlockhashes == Views

\* getLatestBlockhash('finalized') of a node.
Blockhashes == {v - FinalLag : v \in {w \in Views : w >= FinalLag}}

\* Slip: any answer will do.
AnyAnswer(k) == told[k] # {}

\* isBlockhashExpiredError: "and a refresh is needed".
MayReplace(k) ==
  \/ told[k] \cap {"failed", "dead"} # {}
  \/ Rule = "error" /\ "expired" \in told[k]

Earlier(k) == {j \in Txs : j < k}

\* createTransferUnsignedTransaction, then refreshBlockhash, which gives the
\* same transaction back under the same blockhash.
Build(k) ==
  /\ height <= BuildUntil
  /\ ~Built(k)
  /\ \A j \in Earlier(k) : Built(j) /\ MayReplace(j) /\ "success" \notin told[j]
  /\ \E b \in Blockhashes :
       /\ \A j \in Earlier(k) : born[j] # b
       /\ born' = [born EXCEPT ![k] = b]
  /\ UNCHANGED <<chainVars, sent, past, told>>

-----------------------------------------------------------------------------
(* Broadcast.                                                              *)

Tell(k, answers) == told' = [told EXCEPT ![k] = @ \cup answers]

\* The kinds a caller acts on.  A signature and an RpcError tell it to ask for
\* the status.
Direct(reply) == IF reply = "blockhashNotFound" THEN {"expired"} ELSE {}

\* submitJitoBundle: an error in the reply is a rejection.
Jito(reply) == IF reply = "alreadyProcessed" THEN {"rejected"} ELSE {}

\* A node checks the blockhash before it looks for the signature.
Preflight(k, v) ==
  IF v < born[k] \/ v > LastValid(k) THEN "blockhashNotFound"
  ELSE IF SeenIn(k, v) THEN "alreadyProcessed" ELSE "accepted"

\* The block engine leaves the blockhash to the leader.
Engine(k, v) == IF SeenIn(k, v) THEN "alreadyProcessed" ELSE "accepted"

Broadcast(k) ==
  /\ Built(k)
  /\ \E v \in Views, path \in Paths :
       LET reply == IF path = "direct" THEN Preflight(k, v) ELSE Engine(k, v)
       IN  /\ sent' = IF reply = "accepted" THEN sent \cup {k} ELSE sent
           /\ Tell(k, IF path = "direct" THEN Direct(reply) ELSE Jito(reply))
  /\ UNCHANGED <<chainVars, born, past>>

\* The transport fails once a node or the engine has the bytes.
BroadcastFails(k) ==
  /\ Built(k)
  /\ sent' = sent \cup {k}
  /\ UNCHANGED <<chainVars, born, past, told>>

-----------------------------------------------------------------------------
(* Status and expiry.                                                      *)

\* Slip: the last block is already past.
AtLast(k, tip) == tip >= LastValid(k)

\* getChainTipHeight() > lastValidBlockHeight, by the caller's margin.
Past(k, tip) == tip > LastValid(k) + Margin

SeesPast(k) ==
  /\ Built(k)
  /\ k \notin past
  /\ \E tip \in Views : Past(k, tip)
  /\ past' = past \cup {k}
  /\ UNCHANGED <<chainVars, born, sent, told>>

Settled(k) == IF fate[k] THEN "success" ELSE "failed"

\* getTransaction and getSignatureStatus, from a node each; a pruned ledger has
\* no transaction.
StatusOnce(k, tx, sig, pruned) ==
  IF SeenIn(k, tx) /\ ~pruned THEN Settled(k)
  ELSE IF ~SeenIn(k, sig) THEN "notFound"
  ELSE IF fate[k] THEN "pending" ELSE "failed"

\* Slips: NotFound is final, at any height; it never is.
NotFoundIsFinal(k, status) ==
  IF status = "notFound" THEN {"dead"} ELSE {status} \ {"pending"}
NotFoundIsNothing(k, status) == {status} \ {"pending", "notFound"}

\* What a caller acts on: NotFound only past the last block.
Verdict(k, status) ==
  IF status = "notFound" THEN {"dead" : j \in {k} \cap past} ELSE {status} \ {"pending"}

ReadStatus(k) ==
  /\ Built(k)
  /\ \E tx \in Views, sig \in Views, pruned \in BOOLEAN :
       Tell(k, Verdict(k, StatusOnce(k, tx, sig, pruned)))
  /\ UNCHANGED <<chainVars, born, sent, past>>

-----------------------------------------------------------------------------
Init ==
  /\ height = FinalLag
  /\ born = [k \in Txs |-> -1]
  /\ sent = {}
  /\ landed = [k \in Txs |-> 0]
  /\ fate = [k \in Txs |-> FALSE]
  /\ past = {}
  /\ told = [k \in Txs |-> {}]

Next ==
  \/ Block
  \/ \E k \in Txs :
       Build(k) \/ Broadcast(k) \/ BroadcastFails(k) \/ SeesPast(k) \/ ReadStatus(k)

Spec == Init /\ [][Next]_vars

\* Blocks come, and the caller keeps asking.
FairSpec ==
  /\ Spec
  /\ WF_vars(Block)
  /\ \A k \in Txs : SF_vars(SeesPast(k)) /\ SF_vars(ReadStatus(k) /\ told' # told)

-----------------------------------------------------------------------------
(* Properties.                                                             *)

\* Every variable holds a value of its kind; what is on the chain was sent.
TypeOK ==
  /\ height \in FinalLag .. MaxHeight
  /\ born \in [Txs -> -1 .. MaxHeight]
  /\ sent \in SUBSET Txs
  /\ landed \in [Txs -> 0 .. MaxHeight]
  /\ fate \in [Txs -> BOOLEAN]
  /\ past \in SUBSET Txs
  /\ told \in [Txs -> SUBSET Answers]
  /\ \A k \in Txs : OnChain(k) => Built(k) /\ k \in sent

\* However often the payment was signed, broadcast and signed anew, it is made
\* once at most.
PaidOnce == Cardinality({k \in Txs : OnChain(k) /\ fate[k]}) <= 1

\* The blocks past the last valid one make up for a node that trails.
MarginCovers == Lag <= Margin + 1

\* A caller that waited for the height and then found nothing may sign anew:
\* the transaction is not on the chain, seen or unseen, and never will be.
DeadNeverLands == MarginCovers => \A k \in Txs : "dead" \in told[k] => ~OnChain(k)

\* BlockhashExpired: the same bytes can no longer land, though they may have.
\* No node is so far behind that it does not know a finalized blockhash.
ExpiredIsOver ==
  [][Lag <= FinalLag => \A k \in Txs : "expired" \in told[k] => landed'[k] = landed[k]]_vars

Holders == {k \in Txs : Built(k) /\ ~OnChain(k) /\ height < LastValid(k)}

Once == INSTANCE PaymentOnce WITH
  Requests <- Txs,
  Payments <- {"payment"},
  holders <- [p \in {"payment"} |-> Holders],
  times <- [p \in {"payment"} |-> Cardinality({k \in Txs : OnChain(k) /\ fate[k]})]

\* The documented way implements the promise PaymentOnce states.
PaysAtMostOnce == Once!Spec

\* A built transaction's caller comes to know what became of it.
Decided ==
  \A k \in Txs : Built(k) ~> told[k] \cap {"success", "failed", "dead"} # {}
=============================================================================
