\* Two transfers of alice over three coins, with one claim of a provider or a
\* caller that may be wrong; and a status read beside two callers of getUtxos;
\* chains constructed for a reserved id, a free one and an EVM one; and five hashes
\* for three workers, under fetches that poll until a deadline (wait: true of
\* EvmChain and SolanaChain; one that ends at its first read is of the others).
CONSTANTS
    t1 = t1
    t2 = t2
    a1 = a1
    a2 = a2
    a3 = a3
    b1 = b1
    c1 = c1
    c2 = c2
    Transfers = {t1, t2}
    Coins = {a1, a2, a3, b1}
    Owner <- MCOwner
    Sender = "alice"
    ScriptType = "p2wpkh"
    Worths <- MCWorths
    Requests <- MCRequests
    Assemblies <- MCAssemblies
    Faults = {"value", "owner", "parent"}
    Rates = {1, 3}
    LongTermRate = 5
    Dust = 546
    MaxMemo = 80
    MaxIterations = 100000
    Tainted <- MCTainted
    PageSize = 1
    MaxPages = 3
    Replies = {"txid", "known", "refused", "funds", "reset"}
    Inputs <- MCInputs
    Outputs <- MCOutputs
    Coinbase = FALSE
    Unhydrated = {1}
    Tools = {"esplora", "core", "bareCore"}
    Callers = {c1, c2}
    MaxTip = 4
    ChainIds <- MCChainIds
    SeedFamily <- MCSeedFamily
    SeedParams <- MCSeedParams
    Families = {"BTC", "SOLANA"}
    Shapes = {"mainnet", "custom"}
    MaxChains = 2
    Items = 5
    Concurrency = 3
    Polls = TRUE
    Scenes = {"transfers", "reads", "registries", "batch"}
SPECIFICATION MCSpec
CHECK_DEADLOCK FALSE
INVARIANTS
    SignsAndPays
    SelectionSound
    AnswersAreTrue
    ReadsAreTrue
    ParsesAsBuilt
    BatchHolds
PROPERTIES
    NoReadAfterAbort
    BatchEnds
