\* Two payments over two transactions; four promises of tokens over a cache of two;
\* transactions of up to two operations; one trust line and three callers.
CONSTANTS
    p1 = p1
    p2 = p2
    t1 = t1
    t2 = t2
    Payments = {p1, p2}
    Txs = {t1, t2}
    Request <- MCRequest
    Fees = {50}
    Pricing = "FAST"
    Rule = "any"
    Contracts = {1, 2, 3}
    MaxPromises = 4
    CacheSize = 2
    Operations <- MCOperations
    MaxOperations = 2
    Source = "alice"
    MaxFee = 3
    Charged = {1, 3}
    WalletFilters <- MCWallets
    AssetFilters <- MCAssets
    PageLimit = 5
    Callers = {1, 2, 3}
    Calls <- MCCalls
    FirstLimit = 1
    Scenes = {"payment", "tokens", "changes", "trust"}
SPECIFICATION MCSpec
CHECK_DEADLOCK FALSE
SYMMETRY Sym
INVARIANTS
    PaidAgainOnlyIfShown
    AnswersHold
    ChangesHold
    LineHoldsUntilChanged
PROPERTY CacheHolds
