\* One W5 request, TonAPI behind TON Center and clocks a step off; two of a W5 wallet
\* for one payment; one of a v3r2 or v4r2 wallet under fair polling of one provider;
\* and the traces of five requests, of up to six transactions and two masterchain
\* blocks, read in any state of either provider.  Reads trail the head by up to one
\* step and the head moves by up to one during a call: the most the strict comparisons
\* allow with no margin.
CONSTANTS
    Requests = {r1, r2}
    Payments = {p1}
    None = None
    Version = "w5"
    HasFallback = TRUE
    TTL = 1
    ClockSkews <- Skewed
    Margin = 0
    StateLag = 1
    Drift = 1
    RelayHashes = FALSE
    SignUntil = 1
    MaxTime = 4
    Owners = {"wallet", "bob"}
    MinDepths = {0, 1}
    MaxHead = 2
    RefLag = 1
    Faults = {"gap", "left_out", "altered"}
    Scenes = {"requests", "replaced", "decided", "trace"}
SPECIFICATION MCFairSpec
CHECK_DEADLOCK FALSE
INVARIANTS
    PaidOnce
    ConsumedIsPast
    FailedNeverPays
    AnswersAreFinal
    DefiniteRefusalSentNothing
    FinalTransfersStay
    VerdictIsTrue
PROPERTIES
    PaysAtMostOnce
    OldWalletDecides
