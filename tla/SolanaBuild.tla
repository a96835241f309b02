----------------------------- MODULE SolanaBuild -----------------------------
(***************************************************************************)
(* A transfer on Solana from the request to the block: how SolanaChain     *)
(* builds it (createTransferUnsignedTransaction, or the instructions of    *)
(* buildNativeTransferInstruction and buildSplTransferInstructions under   *)
(* one of the two builders of raw transactions), sets its compute limit    *)
(* (estimateAndApplyCu), renews its blockhash (refreshBlockhash) and has   *)
(* it signed (finalizeAndSerialize); and what getBalance and               *)
(* getTokenAccount read of the recipient's token account meanwhile.        *)
(*                                                                         *)
(* That account may be opened, filled or closed by others at any time.     *)
(***************************************************************************)
EXTENDS BalanceChanges

CONSTANTS
    Requests,       \* [via, token, decimals, amount, amountHr, full, sponsor, units, price]
    Costs,          \* compute units: [transfer, open, opened]
    DefaultUnits,   \* DEFAULT_COMPUTE_UNIT_LIMIT
    MaxChanges,     \* bound: changes of the recipient's account by others
    MaxBlockhash    \* bound: blockhashes

VARIABLES
    account,        \* what the recipient's token account holds; Closed
    changes,        \* how often others changed it
    blockhash,      \* the last one that is finalized
    asked,          \* the request
    probed,         \* what the builder saw of the account, after which change
    unsigned,       \* the transaction that was built
    signed,         \* the bytes
    outcome,        \* what came of it
    read            \* what getBalance and getTokenAccount told last

buildVars == <<account, changes, blockhash, asked, probed, unsigned, signed, outcome, read>>

Closed == -1
Open == account # Closed
Nothing == [kind |-> "nothing"]
Error(kind) == [kind |-> "error", error |-> kind]
Others == <<account, changes, blockhash, read>>

(***************************************************************************)
(* What the chain does with a transaction.                                 *)
(***************************************************************************)
Places(tx, op) == {i \in DOMAIN tx.instructions : tx.instructions[i].op = op}
Contains(tx, op) == Places(tx, op) # {}
First(tx, op) == tx.instructions[CHOOSE i \in Places(tx, op) : \A j \in Places(tx, op) : i <= j]
Limit(tx) == IF Contains(tx, "limit") THEN First(tx, "limit").units ELSE DefaultUnits
Cost(tx) ==
    Costs.transfer +
    (IF ~Contains(tx, "open") THEN 0 ELSE IF Open THEN Costs.opened ELSE Costs.open)
Fails(tx) ==
    \/ \E i, j \in Places(tx, "limit") : i # j
    \/ Contains(tx, "open") /\ ~First(tx, "open").idempotent /\ Open
    \/ asked.token /\ ~Open /\ ~Contains(tx, "open")
    \/ Cost(tx) > Limit(tx)

(***************************************************************************)
(* The builders.                                                           *)
(***************************************************************************)
SetLimit(units) == [op |-> "limit", units |-> units]
TransferBy(amount) == [op |-> "transfer", amount |-> amount]

\* The price never goes without a limit; createUnsignedTransaction adds neither.
ComputeBudget ==
    IF asked.via = "unsigned" \/ (asked.units = 0 /\ ~asked.price) THEN <<>>
    ELSE <<SetLimit(IF asked.units = 0 THEN DefaultUnits ELSE asked.units)>>
         \o (IF asked.price THEN <<[op |-> "price"]>> ELSE <<>>)

\* A transfer opens the account when its probe found none; for raw instructions the
\* chain looks.  The first has the fee payer pay the rent, the second the sender.
OpensBlindly == FALSE       \* a slip: the raw instructions open the account as the transfer does
OpensIdempotently == asked.via # "transfer"
OpenAccount(payer) == [op |-> "open", idempotent |-> OpensIdempotently, payer |-> payer]
FeePayer == IF asked.sponsor THEN "sponsor" ELSE "sender"
Opening ==
    IF ~asked.token THEN <<>>
    ELSE IF asked.via # "transfer" THEN <<OpenAccount("sender")>>
    ELSE IF probed.open THEN <<>> ELSE <<OpenAccount(FeePayer)>>

\* The decimals of the mint are read only for an amount that needs them.
NoDecimals(req) == IF req.token THEN 0 ELSE req.decimals   \* a slip: amountHr before the mint is read
TokenDecimals(req) == IF req.amountHr = <<>> THEN 0 ELSE req.decimals

\* The raw builders take a positive amount of minor units; no builder takes a
\* full balance.
AmountOf(req) ==
    IF req.via = "transfer" /\ ~req.full THEN resolveTransferAmount(req, TokenDecimals(req))
    ELSE IF ~req.full /\ req.amount # <<>> /\ req.amount[1] > 0
    THEN [kind |-> "exact", amountMr |-> req.amount[1]] ELSE [kind |-> "refused"]

Unsigned(instructions, hash) ==
    [kind |-> "unsigned", feePayer |-> FeePayer, instructions |-> instructions, recentBlockhash |-> hash,
     lastValid |-> hash, estimatedAt |-> -1]

Ask ==
    /\ asked = Nothing /\ read = Nothing
    /\ \E req \in Requests :
          /\ asked' = req
          /\ outcome' = IF AmountOf(req).kind = "exact" THEN Nothing ELSE Error("InvalidArgument")
    /\ UNCHANGED <<Others, probed, unsigned, signed>>

\* getAccountInfo of the account, an await before the blockhash.
Probe ==
    /\ asked # Nothing /\ outcome = Nothing /\ probed = Nothing
    /\ probed' = [open |-> Open, after |-> changes]
    /\ UNCHANGED <<Others, asked, unsigned, signed, outcome>>

\* The transaction may be too large, and the blockhash not be had.
Build ==
    /\ probed # Nothing /\ unsigned = Nothing /\ outcome = Nothing
    /\ \/ /\ unsigned' = Unsigned(ComputeBudget \o Opening \o <<TransferBy(AmountOf(asked).amountMr)>>, blockhash)
          /\ UNCHANGED outcome
       \/ /\ \E kind \in {"TransactionTooLarge", "RpcError"} : outcome' = Error(kind)
          /\ UNCHANGED unsigned
    /\ UNCHANGED <<Others, asked, probed, signed>>

Pending == unsigned # Nothing /\ signed = Nothing

Tight(consumed) == (9 * consumed) \div 10               \* a slip: a tenth less, not more
RightSized(consumed) == (11 * consumed + 9) \div 10

\* A simulation that fails throws; a transaction without a limit stays as it is.
estimateAndApplyCu ==
    /\ Pending /\ ~Fails(unsigned) /\ Contains(unsigned, "limit")
    /\ unsigned' = [unsigned EXCEPT
          !.instructions = [i \in DOMAIN @ |-> IF @[i].op = "limit" THEN SetLimit(RightSized(Cost(unsigned))) ELSE @[i]],
          !.estimatedAt = changes]
    /\ UNCHANGED <<Others, asked, probed, signed, outcome>>

refreshBlockhash ==
    /\ Pending /\ blockhash # unsigned.recentBlockhash
    /\ unsigned' = [unsigned EXCEPT !.recentBlockhash = blockhash, !.lastValid = blockhash]
    /\ UNCHANGED <<Others, asked, probed, signed, outcome>>

\* finalizeAndSerialize: as many signatures as the message requires, the fee payer's
\* first.
SignersOf(tx) == IF tx.feePayer = "sender" THEN <<"sender">> ELSE <<tx.feePayer, "sender">>
finalizeAndSerialize ==
    /\ Pending
    /\ \E n \in 1..2 :
          /\ n = Len(SignersOf(unsigned))
          /\ signed' = [kind |-> "signed", tx |-> unsigned, signatures |-> SubSeq(<<"sponsor", "sender">>, 3 - n, 2)]
    /\ UNCHANGED <<Others, asked, probed, unsigned, outcome>>

(***************************************************************************)
(* The chain and the others.                                               *)
(***************************************************************************)
Execute ==
    /\ signed # Nothing /\ outcome = Nothing
    /\ LET tx == signed.tx
           amount == First(tx, "transfer").amount
           opened == Contains(tx, "open") /\ ~Open
       IN  /\ outcome' = [kind |-> IF Fails(tx) THEN "failed" ELSE "landed", after |-> changes,
                          moved |-> amount, feeBy |-> tx.feePayer,
                          rentBy |-> IF opened THEN First(tx, "open").payer ELSE "none"]
           /\ account' = IF Fails(tx) \/ ~asked.token THEN account
                         ELSE (IF Open THEN account ELSE 0) + amount
    /\ UNCHANGED <<changes, blockhash, read, asked, probed, unsigned, signed>>

OthersMove ==
    /\ changes < MaxChanges
    /\ changes' = changes + 1
    /\ account' \in {Closed, 0, 5} \ {account}
    /\ UNCHANGED <<blockhash, read, asked, probed, unsigned, signed, outcome>>

NextBlockhash ==
    /\ blockhash < MaxBlockhash
    /\ blockhash' = blockhash + 1
    /\ UNCHANGED <<account, changes, read, asked, probed, unsigned, signed, outcome>>

(***************************************************************************)
(* Reads of the recipient's token account.  A node may fail to answer.     *)
(***************************************************************************)
getTokenAccount(answered) ==
    IF ~answered THEN Error("RpcError") ELSE [kind |-> "account", exists |-> Open, balance |-> IF Open THEN account ELSE 0]

\* Whatever keeps getAccount from answering reads as no account.
getBalance(answered) == [kind |-> "balance", balance |-> IF answered /\ Open THEN account ELSE 0]

\* A caller reads, or asks for a transfer.
ReadAccount ==
    /\ asked = Nothing
    /\ \E answered \in BOOLEAN : \E told \in {getTokenAccount(answered), getBalance(answered)} :
          read' = [told |-> told, account |-> account]
    /\ UNCHANGED <<account, changes, blockhash, asked, probed, unsigned, signed, outcome>>

Init ==
    /\ account \in {Closed, 0} /\ changes = 0 /\ blockhash = 1
    /\ asked = Nothing /\ probed = Nothing /\ unsigned = Nothing /\ signed = Nothing
    /\ outcome = Nothing /\ read = Nothing

Next ==
    \/ Ask \/ Probe \/ Build \/ estimateAndApplyCu \/ refreshBlockhash \/ finalizeAndSerialize
    \/ Execute \/ OthersMove \/ NextBlockhash \/ ReadAccount

Spec == Init /\ [][Next]_buildVars

(***************************************************************************)
(* Properties.                                                             *)
(***************************************************************************)

\* A transfer that lands fails only because the recipient's account changed: after the
\* probe, when the transaction opens the account as the probe found it; or after the
\* compute units were estimated.  Raw instructions with the limit they were given land
\* whatever happens to the account.
LandsUnlessChanged ==
    outcome.kind = "failed" =>
        \/ asked.via = "transfer" /\ asked.token /\ probed.after # outcome.after
        \/ signed.tx.estimatedAt \notin {-1, outcome.after}

\* A transfer that lands moved what was asked for, in the units that the mint has, under
\* the blockhash and the signatures it was built for; the fee was its fee payer's to
\* pay, and so was the rent, but that raw instructions have the sender pay it.
BuiltAsAsked ==
    outcome.kind = "landed" =>
        /\ IF asked.amount # <<>> THEN outcome.moved = asked.amount[1]
           ELSE outcome.moved = (asked.amountHr[1].digits * PowerOf10[asked.decimals]) \div PowerOf10[asked.amountHr[1].scale]
        /\ signed.tx.lastValid = signed.tx.recentBlockhash
        /\ signed.signatures = SignersOf(signed.tx)
        /\ outcome.feeBy = FeePayer
        /\ outcome.rentBy \in {"none", IF asked.via = "transfer" THEN FeePayer ELSE "sender"}

\* What was built does as it was asked, or a change by others keeps it from it.
LandsAsBuilt == LandsUnlessChanged /\ BuiltAsAsked

\* solana_chain.ts of getBalance, "No ATA -> balance 0": and of an account, what it holds.
ReadsAreTrue ==
    read # Nothing /\ read.told.kind # "error" =>
        read.told.balance = IF read.account = Closed THEN 0 ELSE read.account
=============================================================================
