---------------------------- MODULE TronTransfer ----------------------------
(***************************************************************************)
(* A Tron transfer from the request to the bytes that are signed:          *)
(* createTransferUnsignedTransaction and createTransferTransaction         *)
(* (tron_chain.ts), the JSON it may travel in, verifiedTxid                *)
(* (tron_transaction_builder.ts), encodeTronRawData (tron_raw_data.ts) and *)
(* the canonical transaction that is shown (tron_canonical_transaction.ts).*)
(*                                                                         *)
(* Raw data is [type, value, extra]: the contract and one key more that    *)
(* may stand anywhere in it.  A value is a function of the names of its    *)
(* fields, and each field a pair of its JSON type and what it says.  A     *)
(* transaction id is the encoding it is the hash of.                       *)
(***************************************************************************)
EXTENDS BalanceChanges, SequencesExt

CONSTANTS
    Requests,       \* [asset, amount, amountHr, full]
    Decimals,       \* per asset
    Balance,        \* per asset
    Raws,           \* raw data that a JSON transaction may carry
    FeeReserve      \* DEFAULT_TRX_FEE_LIMIT_SUN

VARIABLES
    req,
    carried,        \* the TronTransaction: [raw, txid]
    shown,          \* its canonical transaction, when it was asked for
    signed          \* the encoding that was signed

vars == <<req, carried, shown, signed>>

Nothing == <<>>

(***************************************************************************)
(* The amount.                                                             *)
(***************************************************************************)
\* createTransferTransaction's amount: the human-readable amount is read back, and a
\* native full balance keeps a reserve for the fee.
AmountOf(r) ==
    LET decimals == Decimals[r.asset]
        resolved == resolveTransferAmount(r, decimals)
        hr == minorUnitsToHr(IF resolved.kind = "exact" THEN resolved.amountMr ELSE Balance[r.asset], decimals)
    IN  hrDecimalToMinorUnits(hr, decimals)
            - (IF resolved.kind = "full" /\ r.asset = "TRX" THEN FeeReserve ELSE 0)

Raw(type, value) == [type |-> type, value |-> value, extra |-> FALSE]

\* TronTrx.transfer and TronContractMethod.call.
RawOf(r) ==
    IF r.asset = "TRX"
    THEN Raw("TransferContract",
             [owner_address |-> <<"str", "alice">>, to_address |-> <<"str", "bob">>, amount |-> <<"int", AmountOf(r)>>])
    ELSE Raw("TriggerSmartContract",
             [owner_address |-> <<"str", "alice">>, contract_address |-> <<"str", r.asset>>,
              data |-> <<"call", AmountOf(r)>>, call_value |-> <<"int", 0>>,
              call_token_value |-> <<"int", 0>>, token_id |-> <<"int", 0>>])

(***************************************************************************)
(* The encoding.                                                           *)
(***************************************************************************)
\* CONTRACT_SPECS: the fields in their order, and their kinds.
Fields(type) ==
    CASE type = "TransferContract" ->
            <<<<"owner_address", "address">>, <<"to_address", "address">>, <<"amount", "int64">>>>
      [] type = "TriggerSmartContract" ->
            <<<<"owner_address", "address">>, <<"contract_address", "address">>, <<"call_value", "int64">>,
              <<"data", "bytes">>, <<"call_token_value", "mustBeZero">>, <<"token_id", "mustBeZero">>>>
      [] OTHER -> <<>>

Supported(type) == Fields(type) # <<>>

TakesAnyToken(kind, v) ==
    CASE kind = "address" -> v[1] = "str"
      [] kind = "bytes" -> v[1] = "call"
      [] OTHER -> v[1] = "int" /\ v[2] >= 0

Zero(v) == v[1] = "int" /\ v[2] = 0

\* encodeField: what it throws of, and what it writes, under the field's number.  A field
\* that is not there and one that is zero are the same.
TakesField(kind, v) ==
    CASE kind = "address" -> v[1] = "str"
      [] kind = "bytes" -> v[1] = "call"
      [] kind = "int64" -> v[1] = "int" /\ v[2] >= 0
      [] kind = "mustBeZero" -> Zero(v)

encodeField(i, field, value) ==
    IF field[1] \notin DOMAIN value THEN {}
    ELSE IF field[2] = "mustBeZero" \/ Zero(value[field[1]]) THEN {}
    ELSE {<<i, value[field[1]][2]>>}

\* encodeTronRawData throws on a contract it does not know, a key it does not know, and
\* a value that is not of its kind.
Encodable(raw) ==
    /\ Supported(raw.type) /\ ~raw.extra
    /\ DOMAIN raw.value \subseteq {f[1] : f \in ToSet(Fields(raw.type))}
    /\ \A f \in ToSet(Fields(raw.type)) : f[1] \in DOMAIN raw.value => TakesField(f[2], raw.value[f[1]])

\* The fields stand in the order of their numbers: which are there tells the bytes.
encodeTronRawData(raw) ==
    <<raw.type, UNION {encodeField(i, Fields(raw.type)[i], raw.value) : i \in DOMAIN Fields(raw.type)}>>

(***************************************************************************)
(* The canonical transaction.                                              *)
(***************************************************************************)
Required(type) ==
    CASE type = "TransferContract" -> {"owner_address", "to_address", "amount"}
      [] type = "TransferAssetContract" -> {"owner_address", "to_address", "amount", "asset_name"}
      [] OTHER -> {"owner_address", "contract_address", "data"}

Numbers == {"amount", "call_value", "call_token_value", "token_id"}

\* Validator.int: a number, a boolean or the digits of a number.
Reads(name, v) == IF name \in Numbers THEN v[1] \in {"int", "bool", "digits"} ELSE v[1] \in {"str", "call"}

Parses(raw) ==
    /\ Required(raw.type) \subseteq DOMAIN raw.value
    /\ \A name \in DOMAIN raw.value : Reads(name, raw.value[name])

\* parseTronCanonicalTransaction, up to what a number that is not there means.
parseTronCanonicalTransaction(raw) ==
    [type |-> raw.type,
     says |-> {<<name, raw.value[name][2]>> : name \in {n \in DOMAIN raw.value : n \in Numbers => raw.value[n][2] # 0}}]

(***************************************************************************)
(* Actions.                                                                *)
(***************************************************************************)
NoRequest == [asset |-> "none"]

Init == req = NoRequest /\ carried = Nothing /\ shown = Nothing /\ signed = Nothing

\* createTransferUnsignedTransaction: refused, or built, which takes the transaction id
\* of the raw data: verifiedTxid throws where it cannot be encoded.
Create ==
    /\ carried = Nothing
    /\ req' \in Requests
    /\ resolveTransferAmount(req', Decimals[req'.asset]).kind # "refused"
    /\ Encodable(RawOf(req'))
    /\ carried' = <<[raw |-> RawOf(req'), txid |-> encodeTronRawData(RawOf(req'))]>>
    /\ UNCHANGED <<shown, signed>>

\* tronTransactionFromJson: any raw data, under no transaction id, its own or another's.
FromJson ==
    /\ signed = Nothing
    /\ \E raw, other \in Raws :
           /\ Encodable(other)
           /\ \E txid \in {<<>>, encodeTronRawData(other)} : carried' = <<[raw |-> raw, txid |-> txid]>>
    /\ req' = NoRequest /\ shown' = Nothing /\ UNCHANGED signed

Show ==
    /\ carried # Nothing /\ shown = Nothing /\ Parses(carried[1].raw)
    /\ shown' = <<parseTronCanonicalTransaction(carried[1].raw)>>
    /\ UNCHANGED <<req, carried, signed>>

\* verifiedTxid: the id that is carried must be that of the raw data.
verifiedTxid(c) == Encodable(c.raw) /\ c.txid \in {<<>>, encodeTronRawData(c.raw)}

\* TronTransaction.sign: the id of the raw data is signed, never the one that came.
Sign ==
    /\ carried # Nothing /\ verifiedTxid(carried[1])
    /\ signed' = encodeTronRawData(carried[1].raw)
    /\ UNCHANGED <<req, carried, shown>>

Next == Create \/ FromJson \/ Show \/ Sign

Spec == Init /\ [][Next]_vars

(***************************************************************************)
(* Property.                                                               *)
(***************************************************************************)
\* What is signed can only be read as what was shown: no other raw data with the same
\* encoding says anything else.  And it pays what was asked for, to the minor unit,
\* never more than the balance when all of it was asked for.
SignedIsShown ==
    signed # Nothing =>
        /\ shown # Nothing =>
              \A raw \in Raws \cup {carried[1].raw} :
                  Encodable(raw) /\ encodeTronRawData(raw) = signed /\ Parses(raw)
                      => parseTronCanonicalTransaction(raw) = shown[1]
        /\ req # NoRequest =>
              IF req.full THEN AmountOf(req) \in 0..Balance[req.asset]
              ELSE IF req.amount # <<>> THEN AmountOf(req) = req.amount[1]
              ELSE AmountOf(req) * PowerOf10[req.amountHr[1].scale]
                       <= req.amountHr[1].digits * PowerOf10[Decimals[req.asset]]
=============================================================================
