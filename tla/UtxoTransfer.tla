----------------------------- MODULE UtxoTransfer -----------------------------
(***************************************************************************)
(* Transactions of a UTXO wallet, from the request to the reply of the     *)
(* node: UtxoChain.createTransferUnsignedTransaction and                   *)
(* assembleTransaction, UnsignedUtxoTransaction.signWith and finalize, and *)
(* UtxoChain.broadcast (utxo_chain.ts, unsigned_utxo_transaction.ts).      *)
(* Several transfers may be under way at once, over one list of coins.     *)
(*                                                                         *)
(* A coin is one output of a parent transaction of its own.  What a        *)
(* provider, or the caller of assembleTransaction, says of a coin is a     *)
(* claim: its value, its owner and the parent it came with may be wrong.   *)
(***************************************************************************)
EXTENDS UtxoCoins

CONSTANTS
    Transfers,      \* the transactions
    Coins,          \* the coins there are
    Owner,          \* the address that owns a coin
    Sender,         \* the `from` of a transfer
    ScriptType,     \* the script type of every address of the wallet
    Worths,         \* values the coins may have: functions on Coins
    Requests,       \* requests of createTransferUnsignedTransaction
    Assemblies,     \* requests of assembleTransaction: coins, outputs, op_returns
    Faults,         \* what may be wrong in a claim: "value", "owner", "parent"
    Rates,          \* answers of the fee estimator
    LongTermRate,   \* longTermFeeRateSatsPerVByte
    Dust,           \* params.dustValueSats
    MaxMemo,        \* OP_RETURN_MAX_BYTES
    MaxIterations,  \* of the branch and bound
    Tainted,        \* the coins that carry an inscription, as the index lists them
    PageSize,       \* pageSize and
    MaxPages,       \* maxPages of the inscription index
    Replies         \* what a node's reply may read as

VARIABLES
    worth,          \* the value of each coin
    tx,             \* what is known of each transaction
    pool,           \* the transactions in the node's mempool
    chain,          \* the transactions in a block
    outcome         \* what broadcast returned or threw, for each transaction

vars == <<worth, tx, pool, chain, outcome>>

Owners == {Owner[c] : c \in Coins}
ParentOf(c) == c
NoTx == [step |-> "idle"]

Truth(c) == [coin |-> c, value |-> worth[c], type |-> ScriptType, owner |-> Owner[c], parent |-> c]

\* A claim about c: the truth, or with one fault.
Claims(c) ==
    {Truth(c)}
    \cup (IF "value" \in Faults THEN {[Truth(c) EXCEPT !.value = @ + 1000]} ELSE {})
    \cup (IF "owner" \in Faults THEN {[Truth(c) EXCEPT !.owner = o] : o \in Owners} ELSE {})
    \cup (IF "parent" \in Faults THEN {[Truth(c) EXCEPT !.parent = p] : p \in Coins} ELSE {})

Total(claims) == MapThenSumSet(LAMBDA x : x.value, claims)
RealTotal(claims) == MapThenSumSet(LAMBDA x : worth[x.coin], claims)
SumOf(amounts) == FoldSeq(+, 0, amounts)
SpentBy(S) == UNION {{x.coin : x \in tx[t].ins} : t \in S}

\* A record that goes on with other and more fields.
With(r, fields) ==
    [f \in DOMAIN r \cup DOMAIN fields |-> IF f \in DOMAIN fields THEN fields[f] ELSE r[f]]

Advance(t, record) == tx' = [tx EXCEPT ![t] = record]
Fail(t) == Advance(t, [step |-> "failed"])

(***************************************************************************)
(* createTransferUnsignedTransaction.                                      *)
(***************************************************************************)
\* buildTransfer up to its first await: what it refuses of a request.
RefusesRequest(req) ==
    \/ req.form \notin {"single", "outputs"}
    \/ req.amounts = <<>>
    \/ \E i \in DOMAIN req.amounts : req.amounts[i] < Dust
    \/ req.memo > MaxMemo

BuildTransfer(t, req) ==
    /\ tx[t].step = "idle"
    /\ IF RefusesRequest(req) THEN Fail(t)
       ELSE Advance(t, [step |-> "rate", req |-> req])
    /\ UNCHANGED <<worth, pool, chain, outcome>>

\* resolveFeeRate: the caller's rate if it is one, or the estimator's answer
\* (0 where the caller gave none).
ResolveFeeRate(t) ==
    /\ tx[t].step = "rate"
    /\ IF tx[t].req.rate < 0 THEN Fail(t)
       ELSE \E rate \in (IF tx[t].req.rate > 0 THEN {tx[t].req.rate} ELSE Rates) :
                Advance(t, With(tx[t], [step |-> "coins", rate |-> rate]))
    /\ UNCHANGED <<worth, pool, chain, outcome>>

\* UnisatIndex.outpointsWithInscriptions: pages from a cursor, until the last one
\* or maxPages of them.
Indexed ==
    LET page[k \in 0..MaxPages] ==
            IF k = 0 THEN 0 ELSE Min({page[k - 1] + PageSize, Len(Tainted)})
    IN  {Tainted[i] : i \in 1..page[MaxPages]}

\* BtcChain.getUtxos: the coins listed for the address, without those that carry
\* an asset where the caller asks for that.
SpendableOf(listed, req) ==
    IF req.exclude THEN {x \in listed : x.coin \notin Indexed} ELSE listed

\* fixed size of the outputs, as buildTransfer counts it: the memo and its header
FixedSize(req) ==
    Len(req.amounts) * OUTPUT_SIZE[ScriptType] + (IF req.memo > 0 THEN 2 * (req.memo + 11) ELSE 0)

\* runCoinSelection over the claims that were listed.
SelectionFor(claims, req, rate) ==
    selectCoins(claims, SumOf(req.amounts), rate, ScriptType, FixedSize(req),
                costOfChangeSats(ScriptType, rate, LongTermRate), MaxIterations)

\* getUtxos and the selection behind it.  The provider may not have come to what
\* was spent last.
SelectFrom(t, listed) ==
    LET claims == SpendableOf(listed, tx[t].req)
        selection == SelectionFor(claims, tx[t].req, tx[t].rate)
    IN  IF claims = {} \/ selection.outcome # "success" THEN Fail(t)
        ELSE Advance(t, With(tx[t], [step |-> "parents", listed |-> claims,
                                     selection |-> selection]))

ListCoins(t) ==
    /\ tx[t].step = "coins"
    /\ \E seen \in SUBSET (pool \cup chain) :
           LET unspent == {c \in Coins : Owner[c] = Sender} \ SpentBy(seen)
           IN  \/ SelectFrom(t, {Truth(c) : c \in unspent})
               \/ \E c \in unspent, f \in Faults \cap {"value"} :
                      SelectFrom(t, {Truth(d) : d \in unspent \ {c}}
                                    \cup {[Truth(c) EXCEPT !.value = @ + 1000]})
    /\ UNCHANGED <<worth, pool, chain, outcome>>

\* What fetchParentTransactions makes of the coins: each has the parent it asked
\* for, or one has another.
WithParents(selected) ==
    {selected}
    \cup (IF "parent" \notin Faults THEN {}
          ELSE {(selected \ {x}) \cup {[x EXCEPT !.parent = p]} : x \in selected, p \in Coins})

\* The PSBT of the selected coins, and what is known of it: the fee is the
\* selection's, the outputs are the rest.
Built(t, ins) ==
    With(tx[t], [step |-> "built", by |-> "transfer", ins |-> ins, fee |-> tx[t].selection.fee,
                 paid |-> tx[t].selection.total - tx[t].selection.fee, sigs |-> {},
                 checked |-> FALSE])

FetchParents(t) ==
    /\ tx[t].step = "parents"
    /\ \/ \E ins \in WithParents(tx[t].selection.selected) : Advance(t, Built(t, ins))
       \/ Fail(t)
    /\ UNCHANGED <<worth, pool, chain, outcome>>

(***************************************************************************)
(* assembleTransaction: one synchronous call.                              *)
(***************************************************************************)
\* A checkPsbtInput that does not compare the script with the owner's address.
AnyOwner(x) == x.parent = ParentOf(x.coin) /\ x.value = worth[x.coin]

\* checkPsbtInput: what a claim says against the parent it comes with.
InputHolds(x) == x.parent = ParentOf(x.coin) /\ x.value = worth[x.coin] /\ x.owner = Owner[x.coin]

\* resolvePsbtOutput
OutputsHold(asm) == asm.opReturns <= 1 /\ \A i \in DOMAIN asm.outputs : asm.outputs[i] >= Dust

\* assembleTransaction's checks of the whole.
RefusesAssembly(claims, asm) ==
    \/ claims = {}
    \/ asm.outputs = <<>> /\ asm.opReturns = 0
    \/ \E x \in claims : ~InputHolds(x)
    \/ ~OutputsHold(asm)
    \/ SumOf(asm.outputs) > Total(claims)

AssembleTransaction(t, asm) ==
    /\ tx[t].step = "idle"
    /\ \E claims \in {{f[c] : c \in asm.coins} :
                         f \in {g \in [asm.coins -> UNION {Claims(c) : c \in asm.coins}] :
                                  \A c \in asm.coins : g[c] \in Claims(c)}} :
           IF RefusesAssembly(claims, asm) THEN Fail(t)
           ELSE Advance(t, [step |-> "built", by |-> "assembly", ins |-> claims,
                            fee |-> Total(claims) - SumOf(asm.outputs),
                            paid |-> SumOf(asm.outputs), sigs |-> {}, checked |-> FALSE])
    /\ UNCHANGED <<worth, pool, chain, outcome>>

(***************************************************************************)
(* signWith and finalize.                                                  *)
(***************************************************************************)
\* A verifiedPrevouts that takes the amounts a segwit input declares as they are.
DeclaredAmounts(t) ==
    /\ \A x \in tx[t].ins : x.parent = ParentOf(x.coin)
    /\ Total(tx[t].ins) - tx[t].paid = tx[t].fee

\* verifiedPrevouts: each input against its parent (only a segwit input declares
\* an amount and a script of its own), and the fee they leave.
PrevoutsHold(t) ==
    /\ \A x \in tx[t].ins :
          /\ x.parent = ParentOf(x.coin)
          /\ ScriptType = "p2wpkh" => x.value = worth[x.coin] /\ x.owner = Owner[x.coin]
    /\ RealTotal(tx[t].ins) - tx[t].paid = tx[t].fee

\* inputIndicesOwnedBy
OwnedBy(t, owner) == {x \in tx[t].ins : Owner[x.coin] = owner}

\* A signer that owns none of the inputs is refused and changes nothing.  The
\* result of the first check is kept by what signWith returns.
SignWith(t, owner) ==
    /\ tx[t].step = "built"
    /\ owner \notin tx[t].sigs
    /\ IF ~tx[t].checked /\ ~PrevoutsHold(t)
       THEN Advance(t, [tx[t] EXCEPT !.step = "refused"])
       ELSE /\ OwnedBy(t, owner) # {}
            /\ Advance(t, [tx[t] EXCEPT !.sigs = @ \cup {owner}, !.checked = TRUE])
    /\ UNCHANGED <<worth, pool, chain, outcome>>

Finalize(t) ==
    /\ tx[t].step = "built"
    /\ IF ~tx[t].checked /\ ~PrevoutsHold(t)
       THEN Advance(t, [tx[t] EXCEPT !.step = "refused"])
       ELSE /\ \A x \in tx[t].ins : Owner[x.coin] \in tx[t].sigs
            /\ Advance(t, [tx[t] EXCEPT !.step = "final", !.checked = TRUE])
    /\ UNCHANGED <<worth, pool, chain, outcome>>

(***************************************************************************)
(* broadcast.  The node takes the transaction, has it already, or does     *)
(* not; then its reply comes back, or something else does.                 *)
(***************************************************************************)
\* The replies the node may give in each case (external).  "reset" stands for
\* the transport failures broadcast knows by name, "timeout" for that of axios.
RepliesWhen(event) ==
    Replies \cap (IF event = "taken" THEN {"txid", "reset", "timeout"}
                  ELSE IF event = "known" THEN {"known", "reset", "timeout"}
                  ELSE {"refused", "funds", "reset", "timeout"})

\* A broadcast that takes a lost connection for the node's own refusal.
ResetIsRefusal(reply) ==
    IF reply \in {"txid", "known"} THEN "sent" ELSE "BroadcastRejected"

\* How broadcast reads a reply.
ReadReply(reply) ==
    IF reply \in {"txid", "known"} THEN "sent"
    ELSE IF reply = "reset" THEN "RpcError"
    ELSE IF reply = "funds" THEN "InsufficientFunds"
    ELSE "BroadcastRejected"

Conflicts(t) == \E u \in (pool \cup chain) \ {t} : SpentBy({u}) \cap SpentBy({t}) # {}

\* Told: the reply as it was read, with what the node did.
Reply(t, event) ==
    \E reply \in RepliesWhen(event) :
        outcome' = [outcome EXCEPT ![t] = [said |-> ReadReply(reply), node |-> event]]

Broadcast(t) ==
    /\ tx[t].step = "final"
    /\ \/ /\ t \notin pool \cup chain
          /\ ~Conflicts(t)
          /\ pool' = pool \cup {t}
          /\ Reply(t, "taken")
       \/ /\ t \in pool \cup chain
          /\ Reply(t, "known")
          /\ UNCHANGED pool
       \/ /\ t \notin pool \cup chain
          /\ Reply(t, "untaken")
          /\ UNCHANGED pool
    /\ UNCHANGED <<worth, tx, chain>>

\* A miner takes a transaction from the mempool.
Mine(t) ==
    /\ t \in pool
    /\ pool' = pool \ {t}
    /\ chain' = chain \cup {t}
    /\ UNCHANGED <<worth, tx, outcome>>

Init ==
    /\ worth \in Worths
    /\ tx = [t \in Transfers |-> NoTx]
    /\ pool = {}
    /\ chain = {}
    /\ outcome = [t \in Transfers |-> [said |-> "nothing", node |-> "unasked"]]

Next ==
    \E t \in Transfers :
        \/ \E req \in Requests : BuildTransfer(t, req)
        \/ ResolveFeeRate(t)
        \/ ListCoins(t)
        \/ FetchParents(t)
        \/ \E asm \in Assemblies : AssembleTransaction(t, asm)
        \/ \E owner \in Owners : SignWith(t, owner)
        \/ Finalize(t)
        \/ Broadcast(t)
        \/ Mine(t)

Spec == Init /\ [][Next]_vars
-----------------------------------------------------------------------------
Selected == {t \in Transfers : "selection" \in DOMAIN tx[t]}

(***************************************************************************)
(* What is finalized pays the fee it reported, whatever the providers said *)
(* of the coins and whatever parents they served (docs/utxo.md: the        *)
(* reported fee is the fee the chain will charge); and what                *)
(* assembleTransaction built passes the checks of signWith and finalize:   *)
(* the two sets of checks agree.                                           *)
(***************************************************************************)
PaysReportedFee ==
    \A t \in Transfers :
        tx[t].step = "final" => RealTotal(tx[t].ins) - tx[t].paid = tx[t].fee
AssembledSigns == \A t \in Transfers : tx[t].step = "refused" => tx[t].by = "transfer"
SignsAndPays == PaysReportedFee /\ AssembledSigns

(***************************************************************************)
(* The selection is sound and its exact match the best there is.  What is  *)
(* selected pays the target, the change and the fee, and the fee pays for  *)
(* every input and output it adds.  Of all sets of listed coins whose      *)
(* effective values lie between the target and the target plus the cost of *)
(* change none is nearer to the target than what the branch and bound      *)
(* found, and such a match leaves no change.                               *)
(***************************************************************************)
SelectionSound ==
    \A t \in Selected :
        LET s == tx[t].selection
            rate == tx[t].rate
            target == SumOf(tx[t].req.amounts)
            size == FixedSize(tx[t].req)
                    + MapThenSumSet(LAMBDA x : INPUT_SIZE[x.type], s.selected)
                    + (IF s.hasChange THEN OUTPUT_SIZE[ScriptType] ELSE 0)
            sum(S) == MapThenSumSet(LAMBDA x : effectiveValueSats(x, rate), S)
            useful == {x \in tx[t].listed : effectiveValueSats(x, rate) > 0}
            matches == {S \in SUBSET useful : sum(S) \in
                          target..(target + costOfChangeSats(ScriptType, rate, LongTermRate))}
        IN  /\ Total(s.selected) = target + s.change + s.fee
            /\ 2 * s.fee >= size * rate
            /\ s.hasChange <=> s.change > 0
            /\ s.algorithm = "bnb" <=> matches # {}
            /\ s.algorithm = "bnb" => ~s.hasChange /\ \A S \in matches : sum(s.selected) <= sum(S)

(***************************************************************************)
(* "If change after fee would be under dust (546 sats by default), the     *)
(* selector absorbs the surplus into the fee instead of emitting a         *)
(* sub-dust change output that the network would reject."                  *)
(* (docs/utxo.md:367)                                                      *)
(***************************************************************************)
ChangeIsRelayed ==
    \A t \in Selected : tx[t].selection.hasChange => tx[t].selection.change >= Dust

(***************************************************************************)
(* What broadcast says is true: a hash is of a transaction the node has,   *)
(* and BroadcastRejected or InsufficientFunds of one it was asked to take  *)
(* and did not (CHANGELOG.md: "chain says no; do not retry, do not         *)
(* re-sign").                                                              *)
(***************************************************************************)
AnswersAreTrue ==
    \A t \in Transfers :
        /\ outcome[t].said = "sent" => t \in pool \cup chain
        /\ outcome[t].said \in {"BroadcastRejected", "InsufficientFunds"} =>
               outcome[t].node = "untaken"
=============================================================================
