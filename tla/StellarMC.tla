------------------------------ MODULE StellarMC ------------------------------
(***************************************************************************)
(* The Stellar modules for TLC, in scenes that share no state: payments of *)
(* one account, the cache of tokens, the changes of a transaction, and a   *)
(* trust line.  A state of one scene keeps the others at their start.      *)
(***************************************************************************)
EXTENDS StellarPayment, TLC

CONSTANTS
    p1, p2, t1, t2,                                     \* StellarPayment
    Contracts, MaxPromises, CacheSize,                  \* StellarTokens
    Operations, MaxOperations, Source, MaxFee, Charged,
    WalletFilters, AssetFilters, PageLimit,             \* StellarChanges
    Callers, Calls, FirstLimit,                         \* StellarTrust
    Scenes          \* which of the scenes a run plays

VARIABLES
    scene,
    cache, promise,
    ops, filter, fee, predicted, said,
    call, step, loaded, view, answer, entries, shown, held

tokenVars == <<cache, promise>>
changeVars == <<ops, filter, fee, predicted, said>>
trustVars == <<call, step, loaded, view, answer, entries, shown, held>>

K == INSTANCE StellarTokens
C == INSTANCE StellarChanges WITH told <- said
L == INSTANCE StellarTrust WITH told <- answer, ledger <- entries, ingested <- shown, pool <- held

MCRequest ==
    (p1 :> [asset |-> "native", to |-> "account", memo |-> FALSE])
    @@ (p2 :> [asset |-> "token", to |-> "account", memo |-> FALSE])

Pay(type, source, to, amount) ==
    [type |-> type, source |-> source, destination |-> to, asset |-> "native", amount |-> amount]

Path(type, amount, bound, gave, got) ==
    [type |-> type, source |-> "none", destination |-> "bob", asset |-> "native", amount |-> amount,
     destAsset |-> "usd", destMin |-> bound, sendMax |-> bound, gave |-> gave, got |-> got]

MCOperations == {
    Pay("payment", "none", "bob", 5), Pay("payment", "bob", "alice", 5), Pay("payment", "none", "alice", 3),
    Pay("createAccount", "none", "carol", 4),
    Path("pathPaymentStrictSend", 5, 2, 5, 3), Path("pathPaymentStrictReceive", 2, 6, 4, 2),
    [type |-> "setOptions", source |-> "none"],
    [type |-> "invokeHostFunction", source |-> "none",
     events |-> <<[type |-> "transfer", source |-> "alice", destination |-> "bob", asset |-> "native", amount |-> 5],
                  [type |-> "mint", source |-> "alice", destination |-> "bob", asset |-> "native", amount |-> 9],
                  [type |-> "transfer", source |-> "bob", destination |-> "carol", asset |-> "native", amount |-> 5]>>]}

MCWallets == {{"alice"}, {"alice", "bob", "carol"}}
MCAssets == {{"usd"}, {"native", "usd"}}

Sac == [kind |-> "swap", asset |-> "sac"]
MCCalls == {
    <<Sac, [kind |-> "close"], [kind |-> "transfer", asset |-> "sac", receiver |-> "account", memo |-> TRUE]>>,
    <<Sac, Sac, [kind |-> "close"]>>,
    <<Sac, [kind |-> "foreign"], [kind |-> "ensure", limit |-> 2]>>,
    <<[kind |-> "swap", asset |-> "native"], [kind |-> "ensure", limit |-> 2],
      [kind |-> "transfer", asset |-> "token", receiver |-> "account", memo |-> TRUE]>>}

MCInit ==
    /\ scene \in Scenes
    /\ Init /\ K!Init /\ C!Init /\ L!Init
    /\ scene # "changes" =>
          /\ ops = <<Pay("payment", "none", "bob", 5)>>
          /\ filter = [wallets |-> {"alice"}, assets |-> {"usd"}]
    /\ scene # "trust" => call = CHOOSE c \in Calls : TRUE

MCNext ==
    \/ scene = "payment" /\ Next /\ UNCHANGED <<scene, tokenVars, changeVars, trustVars>>
    \/ scene = "tokens" /\ K!Next /\ UNCHANGED <<scene, vars, changeVars, trustVars>>
    \/ scene = "changes" /\ C!Next /\ UNCHANGED <<scene, vars, tokenVars, trustVars>>
    \/ scene = "trust" /\ L!Next /\ UNCHANGED <<scene, vars, tokenVars, changeVars>>

MCSpec == MCInit /\ [][MCNext]_<<scene, vars, tokenVars, changeVars, trustVars>>

Sym == Permutations(Txs)

\* The limit that opens a line is above what the callers under way can pay, one unit
\* each, and a limit is an amount.
ASSUME LimitIsFar == IsFiniteSet(Callers) /\ Cardinality(Callers) <= L!MaxLimit
ASSUME LimitsAreAmounts ==
    FirstLimit \in Nat /\ \A f \in Calls, c \in Callers : f[c].kind = "ensure" => f[c].limit \in Nat

\* A page holds the effects of all payments that fit in a transaction; the ledger keeps a
\* path payment within its bounds; and who asks for no filter sees every wallet.
ASSUME PageHoldsPayments ==
    MaxOperations \in Nat /\ PageLimit \in Nat /\ 2 * MaxOperations <= PageLimit
ASSUME FeesAreNumbers == MaxFee \in Int /\ Charged \subseteq Int
ASSUME OperationsAreFormed ==
    \A op \in Operations :
        /\ op.type \in {"payment", "createAccount"} => op.amount \in Int
        /\ op.type = "pathPaymentStrictSend" =>
              {op.amount, op.destMin, op.gave, op.got} \subseteq Int /\ op.gave = op.amount /\ op.got >= op.destMin
        /\ op.type = "pathPaymentStrictReceive" =>
              {op.amount, op.sendMax, op.gave, op.got} \subseteq Int /\ op.gave <= op.sendMax /\ op.got = op.amount
        /\ op.type = "invokeHostFunction" =>
              /\ op.events = [i \in 1..Len(op.events) |-> op.events[i]] /\ Len(op.events) \in Nat
              /\ \A i \in 1..Len(op.events) : op.events[i].type = "transfer" => op.events[i].amount \in Int
\* The accounts an operation names.
Accounts(op) ==
    CASE op.type \in {"payment", "createAccount"} -> {C!SourceOf(op), op.destination}
      [] op.type = "invokeHostFunction" ->
            UNION {{e.source, e.destination} : e \in {x \in {op.events[i] : i \in DOMAIN op.events} : x.type = "transfer"}}
      [] OTHER -> {}
ASSUME NoFilterIsEverything ==
    \A by \in [wallets : WalletFilters, assets : AssetFilters] :
        /\ \A v \in WalletFilters : v \subseteq by.wallets
        /\ \A b \in AssetFilters : b \subseteq by.assets
        => "native" \in by.assets /\ UNION {Accounts(op) : op \in Operations} \subseteq by.wallets

\* A cache has room for a token.
ASSUME CacheHasRoom == CacheSize \in Nat \ {0}

\* The properties of StellarTokens, StellarChanges and StellarTrust: see there.
CacheHolds == K!CacheHolds
ChangesHold == C!ChangesHold
LineHoldsUntilChanged == L!LineHoldsUntilChanged
=============================================================================
