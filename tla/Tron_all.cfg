\* Payments of two kinds, one of a key and one of a permission, with two transactions
\* each way; an approval with and without a reset; transactions of every kind; and
\* transfers from the request or from JSON.
SPECIFICATION MCSpec
CONSTANTS
    p1 = p1  p2 = p2  t1 = t1  t2 = t2  k1 = k1  k2 = k2
    Payments = {p1, p2}
    Txs = {t1, t2}
    Keys = {k1, k2}
    Permission <- MCPermission
    Threshold = 2
    Lifetime = 1
    MaxSkew = 1
    MaxLag = 1
    Grace = 2
    MaxTime = 4
    Amounts = {0, 1, 2}
    Prerequisites <- MCPrerequisites
    SleepBlocks = 3
    ExpiryBlocks = 20
    Transactions <- MCTransactions
    Filters <- MCFilters
    Prices = {2, 3}
    Requests <- MCRequests
    Raws <- MCRaws
    FeeReserve = 30
    Decimals <- MCDecimals
    Balance <- MCBalance
    Scenes = {"payment", "approve", "changes", "transfer"}
SYMMETRY Sym
INVARIANTS
    PaidOnce
    ApprovesInOrder
    ChangesAreTrue
    SignedIsShown
CHECK_DEADLOCK FALSE
