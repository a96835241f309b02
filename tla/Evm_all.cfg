\* A wait whose four confirmations cover a reorganisation of one block, a node one
\* block behind and one block between the two reads; two payments with three
\* transactions over two nodes; transactions with and without internal transfers; and
\* what is built of every kind of request.
SPECIFICATION MCFairSpec
CONSTANTS
    Confirmations = 4  MaxReorg = 1  Lag = 1  Drift = 1  MaxTip = 6
    Payments = {p1, p2}
    Txs = {1, 2, 3}
    Nodes = {n1, n2}
    Faults = {"lost", "gateway", "rate_limited"}
    Executions <- MCExecutions
    HasL1Fee = TRUE
    HasTraces = TRUE
    Chains <- MCChains
    Histories <- MCHistories
    Multipliers = {100, 120, 150}
    FallbackTip = 20
    Floor = 5
    WaitBlocks = 5
    Transfers <- MCTransfers
    Calls <- MCCalls
    Scenes = {"wait", "payment", "changes", "build"}
INVARIANTS
    SuccessIsFinal
    PaidOnce
    AnswersHold
    ChangesAreTrue
    BuiltToLast
PROPERTY WaitEnds
CHECK_DEADLOCK FALSE
