------------------------------ MODULE EvmBuild ------------------------------
(***************************************************************************)
(* What EvmChain builds for a caller to sign: suggestGas, the request for  *)
(* a transfer (createTransferUnsignedTransaction) and the general one      *)
(* (createUnsignedTransaction) with its EIP-7702 authorizations            *)
(* (evm_chain.ts, evm_gas_estimate.ts, evm_gas_pricing.ts).                *)
(***************************************************************************)
EXTENDS BalanceChanges, FiniteSets

CONSTANTS
    Chains,         \* [id, eip1559, eip7702]
    Histories,      \* [gasPrice, base, tips]: what a node reports of its fees
    Multipliers,    \* GAS_MULTIPLIER_PCT
    FallbackTip,    \* EMPTY_REWARD_FALLBACK_TIP
    Floor,          \* MIN_GAS_PRICE_FLOOR
    WaitBlocks,     \* a transaction waits for so many blocks at most
    Decimals,       \* of the tokens' contracts, and of Native
    Transfers,      \* [token, valid, priced, and what resolveTransferAmount reads]
    Calls           \* [valid, fees, auths]; auths is empty or holds a list

VARIABLES
    chain, history,
    gas,        \* the suggestion
    base,       \* the base fee of the next block
    waited,     \* blocks since the suggestion
    request,    \* the request, and who reads it: [by, req]
    unsigned    \* what is built of it: [kind: "none", "throws", "call" or "transfer"]

vars == <<chain, history, gas, base, waited, request, unsigned>>

Native == "native"
None == [kind |-> "none"]
Throws == [kind |-> "throws"]
AtLeast(a, b) == IF a < b THEN b ELSE a

Init ==
    /\ chain \in Chains /\ history \in Histories
    /\ gas = None /\ base = history.base /\ waited = 0
    /\ request \in [by : {"call"}, req : Calls] \cup [by : {"transfer"}, req : Transfers]
    /\ unsigned = None

(***************************************************************************)
(* Fees.                                                                   *)
(***************************************************************************)
\* A price of nothing is the floor, and so is one below it.
legacyGas(multiplier) ==
    LET hint == IF history.gasPrice > 0 THEN history.gasPrice ELSE Floor
    IN  [kind |-> "legacy", gasPrice |-> AtLeast((hint * multiplier) \div 100, Floor)]

\* What stands at a place, counted from 0, once the list is sorted.
Sorted(list, place) ==
    CHOOSE v \in {list[i] : i \in DOMAIN list} :
        /\ Cardinality({i \in DOMAIN list : list[i] < v}) <= place
        /\ place < Cardinality({i \in DOMAIN list : list[i] <= v})

\* The tip at the 90th percentile of those of the last blocks.
selectedTip ==
    IF history.tips = <<>> THEN FallbackTip
    ELSE LET n == Len(history.tips)
             at == (n * 90) \div 100
         IN  Sorted(history.tips, IF at < n - 1 THEN at ELSE n - 1)

\* Slip: no room for a base fee that rises.
NoRoom == LET tip == AtLeast(selectedTip, Floor)
          IN  [kind |-> "eip1559", tip |-> tip, maxFee |-> history.base + tip]

eip1559Gas ==
    LET tip == AtLeast(selectedTip, Floor)
    IN  [kind |-> "eip1559", tip |-> tip, maxFee |-> 2 * history.base + tip]

suggestGas ==
    /\ gas = None
    /\ IF chain.eip1559 THEN gas' = eip1559Gas
       ELSE \E m \in Multipliers : gas' = legacyGas(m)
    /\ UNCHANGED <<chain, history, base, waited, request, unsigned>>

\* A base fee rises by an eighth at most, and by one at least if it rises.
Block ==
    /\ gas # None /\ waited < WaitBlocks
    /\ waited' = waited + 1 /\ base' \in {base, base + AtLeast(base \div 8, 1)}
    /\ UNCHANGED <<chain, history, gas, request, unsigned>>

(***************************************************************************)
(* Transactions.                                                           *)
(***************************************************************************)
\* Slip: the balance changes' defensive read, which puts 0 for what it cannot read.
Defensive(token, readable) == IF readable THEN <<Decimals[token]>> ELSE <<0>>
\* resolveErc20DecimalsStrict; the native token's are declared.
resolveDecimals(token, readable) ==
    IF token = Native \/ readable THEN <<Decimals[token]>> ELSE <<>>

\* Fees and a full balance are refused; decimals are read only for an amountHr.
createTransfer(req, readable) ==
    LET decimals == IF req.amountHr = <<>> THEN <<0>> ELSE resolveDecimals(req.token, readable)
        amount == resolveTransferAmount(req, decimals[1])
    IN  IF ~req.valid \/ req.priced \/ req.full THEN Throws
        ELSE IF decimals = <<>> THEN Throws
        ELSE IF amount.kind = "refused" THEN Throws
        ELSE [kind |-> "transfer", token |-> req.token,
              value |-> IF req.token = Native THEN amount.amountMr ELSE 0,
              amount |-> amount.amountMr]

\* An authorization for another chain, one for every chain, or a signature that the EVM
\* would skip.
AuthorizationHolds(auth) ==
    /\ auth.chain = chain.id
    /\ auth.nonce >= 0 /\ auth.s = "low"

\* createUnsignedTransaction, with the suggestion's fees if the caller passes them.
createUnsigned(req) ==
    LET fees == req.fees /\ gas.kind = "eip1559"
        auths == IF req.auths = <<>> THEN {} ELSE req.auths[1]
    IN  IF ~req.valid THEN Throws
        ELSE IF req.auths # <<>> /\ (auths = {} \/ ~chain.eip7702) THEN Throws
        ELSE IF \E a \in auths : ~AuthorizationHolds(a) THEN Throws
        ELSE IF fees /\ ~chain.eip1559 THEN Throws
        ELSE [kind |-> "call", auths |-> auths, fees |-> IF fees THEN <<gas>> ELSE <<>>,
              type |-> IF req.auths # <<>> THEN 4 ELSE IF chain.eip1559 THEN 2 ELSE 0]

Build ==
    /\ unsigned = None /\ gas # None
    /\ IF request.by = "call" THEN unsigned' = createUnsigned(request.req)
       ELSE \E readable \in BOOLEAN : unsigned' = createTransfer(request.req, readable)
    /\ UNCHANGED <<chain, history, gas, base, waited, request>>

Next == suggestGas \/ Block \/ Build

Spec == Init /\ [][Next]_vars

(***************************************************************************)
(* Properties.                                                             *)
(***************************************************************************)
\* The suggested fees pay for a block as long as "caller may wait multiple blocks": the
\* base fee may rise all the while.  Nine in ten of the sampled blocks took the tip, and
\* the fees are such as EvmGasPricing and a node accept.
FeesLast ==
    /\ gas.kind = "eip1559" =>
        /\ base <= gas.maxFee /\ Floor <= gas.tip /\ gas.tip <= gas.maxFee
        /\ LET paid == {i \in DOMAIN history.tips : history.tips[i] <= gas.tip}
           IN  10 * Cardinality(paid) >= 9 * Len(history.tips)
    /\ gas.kind = "legacy" => gas.gasPrice >= Floor /\ gas.gasPrice >= history.gasPrice

\* What is built does what was asked or nothing is: a transfer moves the amount in the
\* token's own decimals, and every authorization is one the EVM applies.
BuiltAsAsked ==
    /\ unsigned.kind = "transfer" =>
        LET asked == resolveTransferAmount(request.req, Decimals[unsigned.token])
        IN  /\ asked.kind = "exact" /\ unsigned.amount = asked.amountMr
            /\ unsigned.token = request.req.token
    /\ unsigned.kind = "call" =>
        /\ \A a \in unsigned.auths : a.chain \in {0, chain.id} /\ a.s = "low"
        /\ unsigned.auths # {} => unsigned.type = 4
        /\ unsigned.type \in {2, 4} \/ unsigned.fees = <<>>

\* What is built is what was asked for, and can be included when it is signed.
BuiltToLast == FeesLast /\ BuiltAsAsked
=============================================================================
