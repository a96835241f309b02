--------------------------- MODULE StellarChanges ---------------------------
(***************************************************************************)
(* What a Stellar transaction changes, told twice: simulateTransaction     *)
(* predicts it from the operations, getTransactionStatus reads it from the *)
(* effects that Horizon lists of the transaction that was applied, or from *)
(* the transfer events of a contract call (stellar_chain.ts).              *)
(*                                                                         *)
(* An operation, an effect and an event are records; an account may stand  *)
(* for itself under a muxed address, which reads as the account.           *)
(***************************************************************************)
EXTENDS BalanceChanges, FiniteSets, FiniteSetsExt

CONSTANTS
    Operations,     \* operations a transaction may have
    MaxOperations,  \* bound: and how many
    Source,         \* the account of the transaction, which pays its fee
    MaxFee,         \* the fee it offers
    Charged,        \* fees it may be charged
    WalletFilters,  \* filteredWallets: sets of wallets; everyone is no filter
    AssetFilters,   \* filteredAssets
    PageLimit       \* effects on one page of Horizon

VARIABLES
    ops,            \* the operations, classic ones or one call of a contract
    filter,         \* [wallets, assets]
    fee,            \* what was charged; 0 before
    predicted,      \* simulateTransaction's balance changes
    told            \* getTransactionStatus's

vars == <<ops, filter, fee, predicted, told>>

None == [status |-> "none"]

\* The rows of a sequence of sequences, each at its place <<i, k>>.
Flat(lists) ==
    [p \in UNION {{<<i, k>> : k \in DOMAIN lists[i]} : i \in DOMAIN lists} |-> lists[p[1]][p[2]]]

\* Deltas, [wallet, asset, amount], by their places: those that pass a filter are added
\* up, which comes to the same in any order.
Passes(d, by) == d.wallet \in by.wallets /\ d.asset \in by.assets
Filtered(deltas, by) ==
    FoldSet(LAMBDA p, changes : IF Passes(deltas[p], by)
                                THEN upsert(changes, deltas[p].wallet, deltas[p].asset, deltas[p].amount)
                                ELSE changes,
            NoChanges, DOMAIN deltas)
Delta(wallet, asset, amount) == [wallet |-> wallet, asset |-> asset, amount |-> amount]

\* upsertFee: the fee is taken whatever the filters say.
upsertFee(changes, stroops) == upsert(changes, Source, "native", -stroops)

TransactionSource(op) == Source

\* The account of an operation: its own source or the transaction's.
SourceOf(op) == IF op.source = "none" THEN Source ELSE op.source

\* _balanceChangesFromOperations: payments, and path payments by the amounts they
\* are bounded with.  Other operations are taken to change nothing.
deltasOfOperation(op) ==
    CASE op.type = "payment" ->
            <<Delta(SourceOf(op), op.asset, -op.amount), Delta(op.destination, op.asset, op.amount)>>
      [] op.type = "pathPaymentStrictSend" ->
            <<Delta(SourceOf(op), op.asset, -op.amount), Delta(op.destination, op.destAsset, op.destMin)>>
      [] op.type = "pathPaymentStrictReceive" ->
            <<Delta(SourceOf(op), op.asset, -op.sendMax), Delta(op.destination, op.destAsset, op.amount)>>
      [] OTHER -> <<>>

\* getTransfersFromDiagnosisEvents, and what each transfer moves.  An event that is
\* no transfer, or of no contract, is passed over.
deltasOfEvent(e) ==
    IF e.type # "transfer" THEN <<>>
    ELSE <<Delta(e.source, e.asset, -e.amount), Delta(e.destination, e.asset, e.amount)>>

IsCall == Len(ops) = 1 /\ ops[1].type = "invokeHostFunction"
EventsOf(op) == op.events

balanceChangesFromOperations == Filtered(Flat([i \in DOMAIN ops |-> deltasOfOperation(ops[i])]), filter)
balanceChangesFromEvents ==
    Filtered(Flat([i \in DOMAIN EventsOf(ops[1]) |-> deltasOfEvent(EventsOf(ops[1])[i])]), filter)

\* What Horizon lists of an operation that was applied.  A path payment gives and
\* gets within its bounds, and trades on the way.
Effect(type, account, asset, amount) ==
    [type |-> type, account |-> account, asset |-> asset, amount |-> amount]

Debited(op) == IF op.source = "none" THEN Source ELSE op.source

EffectsOf(op) ==
    CASE op.type = "payment" ->
            <<Effect("account_credited", op.destination, op.asset, op.amount),
              Effect("account_debited", Debited(op), op.asset, op.amount)>>
      [] op.type \in {"pathPaymentStrictSend", "pathPaymentStrictReceive"} ->
            <<Effect("account_credited", op.destination, op.destAsset, op.got),
              Effect("account_debited", Debited(op), op.asset, op.gave),
              Effect("trade", Debited(op), op.asset, op.gave)>>
      [] op.type = "createAccount" ->
            <<Effect("account_created", op.destination, "native", op.amount),
              Effect("account_debited", Debited(op), "native", op.amount)>>
      [] OTHER -> <<>>

\* The effects of the operations, the i-th operation's at the places <<i, k>>.
Listed == Flat([i \in DOMAIN ops |-> EffectsOf(ops[i])])
Fits == Cardinality(DOMAIN Listed) <= PageLimit

\* _effectsToBalanceChanges: of the first page.
Before(p, q) == p[1] < q[1] \/ (p[1] = q[1] /\ p[2] < q[2])
FirstPage(list) ==
    [p \in {q \in DOMAIN list : Cardinality({r \in DOMAIN list : Before(r, q)}) < PageLimit} |-> list[p]]

\* The starting balance of an account is passed over where the same operation also
\* credits it, as the events of a contract's transfer do.
nativelyCredited(page, p) ==
    \E q \in DOMAIN page : page[q].type = "account_credited" /\ page[q].asset = "native"
                           /\ q[1] = p[1] /\ page[q].account = page[p].account

Credits == {"account_credited", "contract_credited"}
Debits == {"account_debited", "contract_debited"}

CreationIsNoCredit(page, p) == page[p].type \in Credits \cup Debits

Counts(page, p) ==
    \/ page[p].type \in Credits \cup Debits
    \/ page[p].type = "account_created" /\ ~nativelyCredited(page, p)

deltaOfEffect(e) == Delta(e.account, e.asset, IF e.type \in Debits THEN -e.amount ELSE e.amount)

\* The deltas of the effects on a page that count.
deltasOfPage(page) == [p \in {q \in DOMAIN page : Counts(page, q)} |-> deltaOfEffect(page[p])]

effectsToBalanceChanges == Filtered(deltasOfPage(FirstPage(Listed)), filter)

(***************************************************************************)
(* The two calls, and the ledger between them.                             *)
(***************************************************************************)
Init ==
    /\ ops \in UNION {[1..n -> Operations] : n \in 1..MaxOperations}
    /\ (\E i \in DOMAIN ops : ops[i].type = "invokeHostFunction") => Len(ops) = 1
    /\ filter \in [wallets : WalletFilters, assets : AssetFilters]
    /\ fee = 0 /\ predicted = None /\ told = None

\* simulateTransaction.  Of a contract call the events are taken as they are, and
\* the fee is told beside them.
Simulate ==
    /\ predicted = None /\ fee = 0
    /\ \/ predicted' = [status |-> "Success",
                        changes |-> IF IsCall THEN balanceChangesFromEvents
                                    ELSE upsertFee(balanceChangesFromOperations, MaxFee)]
       \/ IsCall /\ predicted' = [status |-> "Failed"]
    /\ UNCHANGED <<ops, filter, fee, told>>

Apply ==
    /\ fee = 0 /\ fee' \in Charged
    /\ UNCHANGED <<ops, filter, predicted, told>>

\* getTransactionStatusOnce of a transaction that was applied: a contract call is
\* read from Soroban's events, or where it has none from Stellar Expert's; without
\* either the call throws.
GetTransactionStatus ==
    /\ fee # 0 /\ told = None
    /\ \/ told' = [status |-> "Success",
                   changes |-> upsertFee(IF IsCall THEN balanceChangesFromEvents
                                         ELSE effectsToBalanceChanges, fee)]
       \/ told' = [status |-> "RpcError"]
    /\ UNCHANGED <<ops, filter, fee, predicted>>

Next == Simulate \/ Apply \/ GetTransactionStatus

Spec == Init /\ [][Next]_vars

(***************************************************************************)
(* Properties.                                                             *)
(***************************************************************************)
Only(types) == \A i \in DOMAIN ops : ops[i].type \in types

\* What was predicted is what is told, under any filter and with any number of
\* operations on one account, up to the part of the offered fee that was not
\* charged (the prediction of a contract call leaves the fee out).  Of payments and
\* contract calls to the unit, and never more than a page of effects holds; of path
\* payments it is a bound.
PredictionHolds ==
    predicted.status = "Success" /\ told.status = "Success" =>
        LET foreseen == upsertFee(predicted.changes, fee - (IF IsCall THEN 0 ELSE MaxFee))
        IN  /\ Only({"payment", "invokeHostFunction"}) => told.changes = foreseen
            /\ Only({"payment", "pathPaymentStrictSend", "pathPaymentStrictReceive"}) /\ Fits =>
                  \A w \in filter.wallets, a \in filter.assets :
                      Gained(told.changes, w, a) >= Gained(foreseen, w, a)

\* Nothing comes from nowhere: unfiltered, what accounts gained and lost of the
\* native asset comes to the fee, also where an account was created.
Everything == \E w \in WalletFilters, a \in AssetFilters :
    /\ filter = [wallets |-> w, assets |-> a]
    /\ \A v \in WalletFilters : v \subseteq w
    /\ \A b \in AssetFilters : b \subseteq a

ChangesAddUp ==
    told.status = "Success" /\ Everything /\ Fits /\ Only({"payment", "createAccount", "invokeHostFunction"}) =>
        /\ Normal(told.changes)
        /\ MapThenSumSet(LAMBDA w : Gained(told.changes, w, "native"), DOMAIN told.changes) = -fee

\* The changes that are told: those that were foreseen, and they add up.
ChangesHold == PredictionHolds /\ ChangesAddUp
=============================================================================
