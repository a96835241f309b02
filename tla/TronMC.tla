------------------------------- MODULE TronMC -------------------------------
(***************************************************************************)
(* The Tron modules for TLC, in scenes that share no state: payments, an   *)
(* approve prerequisite, the changes of a transaction, and a transfer from *)
(* the request to the signature.  A state of one scene keeps the others at *)
(* their start.                                                            *)
(***************************************************************************)
EXTENDS TronPayment, TLC

CONSTANTS
    p1, p2, t1, t2, k1, k2,                                 \* TronPayment
    Amounts, Prerequisites, SleepBlocks, ExpiryBlocks,      \* TronApprove
    Transactions, Filters, Prices,                          \* TronChanges
    Requests, Raws, FeeReserve, Decimals, Balance,          \* TronTransfer
    Scenes          \* which of the scenes a run plays

ASSUME BlocksAreNatural == ExpiryBlocks \in Nat /\ SleepBlocks \in Nat
ASSUME RequestsAreFormed ==
    /\ FeeReserve \in Nat
    /\ \A r \in Requests :
          /\ r.asset # "none" /\ Decimals[r.asset] \in 0..9 /\ Balance[r.asset] \in Nat
          /\ r.full \in BOOLEAN /\ r.amount \in Seq(Int) /\ r.amountHr \in Seq([digits : Int, scale : 0..9])
ASSUME AmountsAreNatural == Amounts \subseteq Nat /\ \A p \in Prerequisites : p.amount \in Nat

VARIABLES
    scene,
    allowance, asked, step, slept, held, done, response,
    transaction, filter, price, executedAt, parameters, status,
    req, carried, shown, signed

approveVars == <<allowance, asked, step, slept, held, done, response>>
changeVars == <<transaction, filter, price, executedAt, parameters, status>>
transferVars == <<req, carried, shown, signed>>

MCDecimals == ("TRX" :> 2) @@ ("usdt" :> 0)
MCBalance == ("TRX" :> 250) @@ ("usdt" :> 7)

A == INSTANCE TronApprove WITH pool <- held, told <- response
C == INSTANCE TronChanges WITH told <- status
T == INSTANCE TronTransfer

MCPermission == (p1 :> {}) @@ (p2 :> {k1, k2})

MCPrerequisites ==
    {[amount |-> 2, own |-> TRUE, flagged |-> TRUE, strict |-> TRUE],
     [amount |-> 2, own |-> TRUE, flagged |-> TRUE, strict |-> FALSE],
     [amount |-> 2, own |-> FALSE, flagged |-> FALSE, strict |-> FALSE]}

Contract(type, to, amount) == [type |-> type, owner |-> "alice", to |-> to, amount |-> amount]
Internal(note, rejected, trx, trc10) ==
    [note |-> note, rejected |-> rejected, from |-> "pool", to |-> "bob", trx |-> trx, trc10 |-> trc10]
Log(topic, from, to, value) ==
    [topic |-> topic, from |-> from, to |-> to, contract |-> "usdt", value |-> value]

MCTransactions == {
    [contract |-> Contract("TransferContract", "bob", 5), internals |-> <<>>, logs |-> <<>>, burned |-> 0,
     result |-> "SUCCESS", moved |-> <<<<"alice", "bob", "TRX", 5>>>>],
    [contract |-> Contract("TriggerSmartContract", "pool", 4),
     internals |-> <<Internal("call", FALSE, 3, 0), Internal("call", TRUE, 9, 0), Internal("call", FALSE, 0, 8),
                     Internal("freezeBalanceV2ForEnergy", FALSE, 7, 0), Internal("suicide", FALSE, 1, 2)>>,
     logs |-> <<Log("Transfer", "pool", "alice", 6), Log("Approval", "alice", "pool", 9),
                Log("Transfer", "alice", "alice", 2), Log("Transfer", "alice", "bob", 0)>>,
     burned |-> 2, result |-> "SUCCESS",
     moved |-> <<<<"alice", "pool", "TRX", 4>>, <<"pool", "bob", "TRX", 3>>, <<"pool", "bob", "TRX", 1>>,
                 <<"pool", "alice", "usdt", 6>>>>],
    [contract |-> Contract("FreezeBalanceV2Contract", "alice", 5), internals |-> <<>>, logs |-> <<>>, burned |-> 0,
     result |-> "SUCCESS", moved |-> <<>>],
    [contract |-> Contract("TriggerSmartContract", "usdt", 0), internals |-> <<>>, logs |-> <<>>,
     burned |-> 3, result |-> "OUT_OF_ENERGY", moved |-> <<>>]}

MCFilters == {[wallets |-> w, assets |-> a] : w \in {{"alice", "bob", "pool"}, {"bob"}},
                                             a \in {{"TRX", "usdt"}, {"usdt"}}}

Request(asset, amount, amountHr, full) ==
    [asset |-> asset, amount |-> amount, amountHr |-> amountHr, full |-> full]
Hr(digits, scale) == <<[digits |-> digits, scale |-> scale]>>

MCRequests ==
    {Request("TRX", <<n>>, <<>>, FALSE) : n \in {0, 7, 10, 200}}
    \cup {Request(a, <<>>, Hr(d, s), FALSE) : a \in {"TRX", "usdt"}, d \in {-5, 5, 129}, s \in {0, 1, 3}}
    \cup {Request(a, <<>>, <<>>, TRUE) : a \in {"TRX", "usdt"}}
    \cup {Request("TRX", <<1>>, <<>>, TRUE)}

Value(type, fields) == [type |-> type, value |-> fields, extra |-> FALSE]
Owned == ("owner_address" :> <<"str", "alice">>)
ToBob == ("to_address" :> <<"str", "bob">>)
CallOf == ("contract_address" :> <<"str", "usdt">>) @@ ("data" :> <<"call", 5>>)

MCRaws ==
    {Value("TransferContract", Owned @@ ToBob @@ ("amount" :> v)) :
        v \in {<<"int", 0>>, <<"int", 1>>, <<"bool", 1>>, <<"digits", 1>>, <<"int", -1>>}}
    \cup {Value("TransferContract", Owned @@ ToBob), Value("TransferContract", Owned @@ ("amount" :> <<"int", 1>>)),
          [Value("TransferContract", Owned @@ ToBob @@ ("amount" :> <<"int", 1>>)) EXCEPT !.extra = TRUE],
          Value("TransferAssetContract", Owned @@ ToBob @@ ("amount" :> <<"int", 1>>) @@ ("asset_name" :> <<"str", "x">>))}
    \cup {Value("TriggerSmartContract", Owned @@ CallOf @@ more) :
             more \in {<<>>, ("call_value" :> <<"int", 0>>), ("call_value" :> <<"int", 5>>),
                       ("call_token_value" :> <<"int", 5>>), ("call_token_value" :> <<"int", 0>>),
                       ("token_id" :> <<"int", 5>>) @@ ("call_token_value" :> <<"int", 5>>),
                       ("amount" :> <<"int", 5>>)}}

MCInit ==
    /\ scene \in Scenes
    /\ Init /\ A!Init /\ C!Init /\ T!Init
    /\ scene # "payment" => skew = 0
    /\ scene # "approve" => allowance = 0 /\ asked = CHOOSE a \in Prerequisites : TRUE
    /\ scene # "changes" =>
          /\ transaction = CHOOSE x \in Transactions : TRUE
          /\ filter = CHOOSE f \in Filters : TRUE
          /\ price = CHOOSE p \in Prices : TRUE

MCNext ==
    \/ scene = "payment" /\ Next /\ UNCHANGED <<scene, approveVars, changeVars, transferVars>>
    \/ scene = "approve" /\ A!Next /\ UNCHANGED <<scene, vars, changeVars, transferVars>>
    \/ scene = "changes" /\ C!Next /\ UNCHANGED <<scene, vars, approveVars, transferVars>>
    \/ scene = "transfer" /\ T!Next /\ UNCHANGED <<scene, vars, approveVars, changeVars>>

MCSpec == MCInit /\ [][MCNext]_<<scene, vars, approveVars, changeVars, transferVars>>

Sym == Permutations(Txs)

\* The properties of TronApprove, TronChanges and TronTransfer: see there.
ApprovesInOrder == A!ApprovesInOrder
ResetComesFirst == A!ResetComesFirst
ChangesAreTrue == C!ChangesAreTrue
SignedIsShown == T!SignedIsShown
=============================================================================
