\* getBalance of a token account while its node may fail to answer.
CONSTANTS
    Txs = {1, 2}
    Window = 2
    FinalLag = 1
    Lag = 1
    Margin = 0
    Paths = {"direct", "jito"}
    Rule = "expiry"
    BuildUntil = 6
    MaxHeight = 10
    Options <- MCOptions
    MaxForks = 1
    Requests <- MCRequests
    Costs <- MCCosts
    DefaultUnits = 100
    MaxChanges = 2
    MaxBlockhash = 2
    StaticKeys <- MCStaticKeys
    LoadedKeys <- MCLoadedKeys
    TokenAccounts = {"tokens1", "tokens2"}
    Mints = {"usdc", "usdt"}
    Steps = 4
    Fees = {1}
    Bundles = {"b1", "b2"}
    MaxAsked = 2
    Scenes = {"build"}
SPECIFICATION MCSpec
CHECK_DEADLOCK FALSE
INVARIANT ReadsAreTrue
