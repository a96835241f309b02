\* Two transactions for one payment, over nodes one block behind, signed anew by the
\* height and the status; a call of getTransactionStatus over a fork; transfers
\* whose recipient's account others change twice; four steps of a transaction over two
\* token accounts; and two bundles.
CONSTANTS
    Txs = {1, 2}
    Window = 2
    FinalLag = 1
    Lag = 1
    Margin = 0
    Paths = {"direct", "jito"}
    Rule = "expiry"
    BuildUntil = 6
    MaxHeight = 10
    Options <- MCOptions
    MaxForks = 1
    Requests <- MCRequests
    Costs <- MCCosts
    DefaultUnits = 100
    MaxChanges = 2
    MaxBlockhash = 2
    StaticKeys <- MCStaticKeys
    LoadedKeys <- MCLoadedKeys
    TokenAccounts = {"tokens1", "tokens2"}
    Mints = {"usdc", "usdt"}
    Steps = 4
    Fees = {1}
    Bundles = {"b1", "b2"}
    MaxAsked = 2
    Scenes = {"payment", "wait", "build", "changes", "bundles"}
SPECIFICATION MCFairSpec
CHECK_DEADLOCK FALSE
INVARIANTS
    PaidOnce
    DeadNeverLands
    StatusesAreTrue
    LandsAsBuilt
PROPERTIES
    ExpiredIsOver
    PaysAtMostOnce
    Decided
    WaitEnds
