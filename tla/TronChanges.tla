---------------------------- MODULE TronChanges ----------------------------
(***************************************************************************)
(* What getTransactionStatus tells of a Tron transaction that is in a      *)
(* block: the balance changes, the fees, and the price of energy that the  *)
(* fees are checked against (tron_chain.ts, tron_transaction_status.ts).   *)
(*                                                                         *)
(* The transaction itself and what became of it are two reads.  The price  *)
(* is read once in the life of a TronChain; the chain may change it.       *)
(***************************************************************************)
EXTENDS BalanceChanges, SequencesExt

CONSTANTS
    Transactions,   \* what is executed: [contract, internals, logs, burned, result]
    Filters,        \* [wallets, assets]
    Prices          \* prices of a unit of energy

VARIABLES
    transaction,
    filter,
    price,          \* the price of energy now
    executedAt,     \* and when the transaction was executed; 0 before
    parameters,     \* _chainParameters: the price that was read; 0 stands for null
    told            \* the status

vars == <<transaction, filter, price, executedAt, parameters, told>>

None == [status |-> "none"]
Delta(wallet, asset, amount) == [wallet |-> wallet, asset |-> asset, amount |-> amount]
Move(from, to, asset, amount) == <<Delta(from, asset, -amount), Delta(to, asset, amount)>>

Passes(d) == d.wallet \in filter.wallets /\ d.asset \in filter.assets
Merge(deltas) == FoldSeq(LAMBDA d, changes : upsert(changes, d.wallet, d.asset, d.amount), NoChanges, deltas)

\* _nativeTransferOfContract: the amount of a TransferContract, the call value of a
\* TriggerSmartContract.  Other contracts move no TRX.
nativeTransferOfContract(c) ==
    IF c.type \in {"TransferContract", "TriggerSmartContract"}
    THEN Move(c.owner, c.to, "TRX", c.amount) ELSE <<>>

AnyInternal(i) == IF i.trx > 0 THEN Move(i.from, i.to, "TRX", i.trx) ELSE <<>>

\* _trxPaidByInternalTransaction: not of one that was rejected, and of calls and
\* self-destructions only; TRC-10 amounts are not added.
trxPaidByInternalTransaction(i) ==
    IF ~i.rejected /\ i.note \in {"call", "suicide"} /\ i.trx > 0
    THEN Move(i.from, i.to, "TRX", i.trx) ELSE <<>>

\* _parseTrc20TransferLog: of a log with the topic and the words of a transfer.  The
\* asset is the contract that logged it.
trc20TransferOfLog(l) ==
    IF l.topic = "Transfer" /\ l.value > 0 THEN Move(l.from, l.to, l.contract, l.value) ELSE <<>>

Fee == transaction.burned * executedAt

\* _balanceChangesFromInfo: of the contracts when the transaction itself was found,
\* of the internal transactions and logs in any case.
balanceChangesFromInfo(found) ==
    LET contracts == IF found THEN <<transaction.contract>> ELSE <<>>
        deltas ==
            FlattenSeq([i \in DOMAIN contracts |-> nativeTransferOfContract(contracts[i])]
                       \o [i \in DOMAIN transaction.internals |-> trxPaidByInternalTransaction(transaction.internals[i])]
                       \o [i \in DOMAIN transaction.logs |-> trc20TransferOfLog(transaction.logs[i])])
        fee == IF found /\ Fee > 0 THEN <<Delta(transaction.contract.owner, "TRX", -Fee)>> ELSE <<>>
    IN  Merge(SelectSeq(deltas \o fee, Passes))

\* TronTransactionFees's constructor: the energy that the fee bought at the price
\* must be the energy that was burned.
FeesHold(atPrice) == Fee \div atPrice = transaction.burned

(***************************************************************************)
(* Actions.                                                                *)
(***************************************************************************)
Init ==
    /\ transaction \in Transactions /\ filter \in Filters
    /\ price \in Prices /\ executedAt = 0 /\ parameters = 0 /\ told = None

Execute ==
    /\ executedAt = 0 /\ executedAt' = price
    /\ UNCHANGED <<transaction, filter, price, parameters, told>>

ChangePrice ==
    /\ price' \in Prices \ {price}
    /\ UNCHANGED <<transaction, filter, executedAt, parameters, told>>

\* getChainParameters, for another status: the first promise that is kept is kept.
GetChainParameters ==
    /\ parameters = 0 /\ parameters' = price
    /\ UNCHANGED <<transaction, filter, price, executedAt, told>>

\* getTransactionStatusOnce of a transaction that is in a block.
GetTransactionStatus ==
    /\ executedAt # 0 /\ told = None
    /\ parameters' = IF parameters = 0 THEN price ELSE parameters
    /\ \E found \in BOOLEAN :
           told' = IF ~FeesHold(parameters') THEN [status |-> "throws"]
                   ELSE IF transaction.result # "SUCCESS" THEN [status |-> "Failed"]
                   ELSE [status |-> "Success", found |-> found, changes |-> balanceChangesFromInfo(found)]
    /\ UNCHANGED <<transaction, filter, price, executedAt>>

Next == Execute \/ ChangePrice \/ GetChainParameters \/ GetTransactionStatus

Spec == Init /\ [][Next]_vars

(***************************************************************************)
(* Properties.                                                             *)
(***************************************************************************)
\* What the chain moved: [from, to, asset, amount] of each item that `moved` names.
Moved == Merge(SelectSeq(
    FlattenSeq([i \in DOMAIN transaction.moved |-> Move(transaction.moved[i][1], transaction.moved[i][2],
                                                       transaction.moved[i][3], transaction.moved[i][4])])
    \o <<Delta(transaction.contract.owner, "TRX", -Fee)>>, Passes))

\* The changes of a success are what the chain moved, under any filter.  When the
\* transaction itself was not found, they still credit nobody with more than arrived.
ChangesAreTrue ==
    told.status = "Success" =>
        /\ Normal(told.changes)
        /\ told.found => told.changes = Moved
        /\ ~told.found => \A w \in filter.wallets \ {transaction.contract.owner}, a \in filter.assets :
                             Gained(told.changes, w, a) <= Gained(Moved, w, a)
=============================================================================
