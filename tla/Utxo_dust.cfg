\* The transfers alone, of a coin whose change is worth less than the dust limit.
CONSTANTS
    t1 = t1
    t2 = t2
    a1 = a1
    a2 = a2
    a3 = a3
    b1 = b1
    c1 = c1
    c2 = c2
    Transfers = {t1, t2}
    Coins = {a1, a2, a3, b1}
    Owner <- MCOwner
    Sender = "alice"
    ScriptType = "p2wpkh"
    Worths <- MCWorthsAtDust
    Requests <- MCRequests
    Assemblies <- MCAssemblies
    Faults = {"value", "owner", "parent"}
    Rates = {1, 3}
    LongTermRate = 5
    Dust = 546
    MaxMemo = 80
    MaxIterations = 100000
    Tainted <- MCTainted
    PageSize = 1
    MaxPages = 3
    Replies = {"txid", "known", "refused", "funds", "reset"}
    Inputs <- MCInputs
    Outputs <- MCOutputs
    Coinbase = FALSE
    Unhydrated = {1}
    Tools = {"esplora", "core", "bareCore"}
    Callers = {c1, c2}
    MaxTip = 4
    ChainIds <- MCChainIds
    SeedFamily <- MCSeedFamily
    SeedParams <- MCSeedParams
    Families = {"BTC", "SOLANA"}
    Shapes = {"mainnet", "custom"}
    MaxChains = 2
    Items = 1
    Concurrency = 1
    Polls = FALSE
    Scenes = {"transfers"}
SPECIFICATION MCSpec
CHECK_DEADLOCK FALSE
INVARIANTS
    ChangeIsRelayed
