--------------------------- MODULE BalanceChanges ---------------------------
(***************************************************************************)
(* Balance changes and amounts, shared by all chains: NestedBalanceChanges *)
(* with AssetBalanceChange.upsert, the invariants of TransactionStatus,    *)
(* the conversion between minor units and human-readable decimals          *)
(* (transaction_status.ts), and resolveTransferAmount (chain.base.ts).     *)
(*                                                                         *)
(* A NestedBalanceChanges is a function from wallets to functions from     *)
(* assets to amounts of minor units.  An asset is its key, the chain and   *)
(* the identifier: symbol and decimals tell no two assets apart.           *)
(***************************************************************************)
EXTENDS Integers, Sequences

Has(f, x) == x \in DOMAIN f
Without(f, x) == [y \in DOMAIN f \ {x} |-> f[y]]
With(f, x, v) == [y \in DOMAIN f \cup {x} |-> IF y = x THEN v ELSE f[y]]

NoChanges == [w \in {} |-> 0]

RowOf(changes, wallet) == IF Has(changes, wallet) THEN changes[wallet] ELSE NoChanges

\* What the changes say a wallet gained of an asset.
Gained(changes, wallet, asset) ==
    IF Has(RowOf(changes, wallet), asset) THEN RowOf(changes, wallet)[asset] ELSE 0

\* Slip: a net of zero is passed over, as a change of zero is.
PassesOverZero(changes, wallet, asset, change) ==
    LET net == Gained(changes, wallet, asset) + change
    IN  IF net = 0 THEN changes ELSE With(changes, wallet, With(RowOf(changes, wallet), asset, net))

\* AssetBalanceChange.upsert: a row, and a wallet, that come to nothing are dropped.
upsert(changes, wallet, asset, change) ==
    LET net == Gained(changes, wallet, asset) + change
        row == IF net = 0 THEN Without(RowOf(changes, wallet), asset)
                          ELSE With(RowOf(changes, wallet), asset, net)
    IN  IF DOMAIN row = {} THEN Without(changes, wallet) ELSE With(changes, wallet, row)

\* What is always so of changes that upsert made: no empty row, no amount of zero.
Normal(changes) ==
    \A w \in DOMAIN changes :
        /\ DOMAIN changes[w] # {}
        /\ \A a \in DOMAIN changes[w] : changes[w][a] \in Int \ {0}

\* TransactionStatus's constructor: which verdicts go with balance changes and
\* with an error.  It throws on any other.
StatusHolds(status, hasChanges, hasError) ==
    \/ status = "Success" /\ hasChanges /\ ~hasError
    \/ status = "Failed" /\ ~hasChanges /\ hasError
    \/ status = "NotFound" /\ ~hasChanges
    \/ status = "Pending" /\ ~hasChanges /\ ~hasError

(***************************************************************************)
(* Amounts.  A decimal is a whole number of digits and how many of them    *)
(* stand behind the point: [digits |-> 125, scale |-> 2] is 1.25.          *)
(***************************************************************************)
PowerOf10[n \in 0..9] == IF n = 0 THEN 1 ELSE 10 * PowerOf10[n - 1]

\* Division that drops what is left over, towards zero.
Truncate(a, b) == IF a < 0 THEN -((-a) \div b) ELSE a \div b

\* Digits behind the point that the asset does not have are dropped.
hrDecimalToMinorUnits(hr, decimals) ==
    IF decimals >= hr.scale THEN hr.digits * PowerOf10[decimals - hr.scale]
    ELSE Truncate(hr.digits, PowerOf10[hr.scale - decimals])

\* Trailing zeros behind the point are dropped.
minorUnitsToHr(mr, decimals) ==
    LET strip[k \in 0..decimals] ==
            IF k < decimals /\ mr % PowerOf10[k + 1] = 0 THEN strip[k + 1]
            ELSE [digits |-> Truncate(mr, PowerOf10[k]), scale |-> decimals - k]
    IN  strip[0]

\* resolveTransferAmount: exactly one of amount, amountHr and isFullBalance.  A
\* field the request leaves out is an empty sequence.
resolveTransferAmount(req, decimals) ==
    LET given == Len(req.amount) + Len(req.amountHr) + (IF req.full THEN 1 ELSE 0)
        asked == IF req.amount # <<>> THEN req.amount[1]
                 ELSE hrDecimalToMinorUnits(req.amountHr[1], decimals)
    IN  IF given # 1 THEN [kind |-> "refused"]
        ELSE IF req.full THEN [kind |-> "full"]
        ELSE IF (IF req.amountHr # <<>> THEN req.amountHr[1].digits < 0 ELSE FALSE) \/ asked <= 0
             THEN [kind |-> "refused"]
        ELSE [kind |-> "exact", amountMr |-> asked]
=============================================================================
