----------------------------- MODULE EvmChanges -----------------------------
(***************************************************************************)
(* What EvmChain.getTransactionStatus tells of a transaction: its verdict, *)
(* its fees and its balance changes, from reads that different nodes of an *)
(* endpoint answer (getTransactionStatusOnce, decodeBalanceChanges and     *)
(* getInternalTransfers of evm_chain.ts; evm_transaction_status.ts).       *)
(***************************************************************************)
EXTENDS BalanceChanges, SequencesExt

CONSTANTS
    Executions,     \* [from, to, value, gas, l1Fee, ok, logs, trace, moved]; `moved`
                    \* is what the chain moved: sequence of <<from, to, asset, amount>>
    HasL1Fee,       \* hasL1Fee of the chain
    HasTraces       \* the endpoint has debug_traceTransaction

VARIABLES
    exec,       \* the transaction
    mined,
    internal,   \* includeInternalTransfers
    step,       \* what the call reads next
    got,        \* what it has read: [tx, receipt, l1Fee]
    told        \* the status

vars == <<exec, mined, internal, step, got, told>>

Native == "native"
Silent == [status |-> "none"]
Move(from, to, asset, amount) == <<<<from, asset, -amount>>, <<to, asset, amount>>>>
Moves(list) == FlattenSeq([i \in DOMAIN list |-> Move(list[i][1], list[i][2], list[i][3], list[i][4])])
AddUp(rows) == FoldSeq(LAMBDA r, changes : upsert(changes, r[1], r[2], r[3]), NoChanges, rows)

Init ==
    /\ exec \in Executions /\ internal \in BOOLEAN
    /\ mined = FALSE /\ step = "read"
    /\ got = [tx |-> FALSE, receipt |-> FALSE, l1Fee |-> <<>>] /\ told = Silent

Mine == ~mined /\ mined' = TRUE /\ UNCHANGED <<exec, internal, step, got, told>>

Answers(status) == told' = status /\ step' = "done"
Fails == step # "done" /\ Answers([status |-> "throws"]) /\ UNCHANGED <<exec, mined, internal, got>>

\* Slip: a receipt is enough.
ReceiptIsEnough(tx, receipt) == receipt
Readable(tx, receipt) == tx /\ receipt

\* The transaction and the receipt, from a node each.
ReadBoth ==
    /\ step = "read"
    /\ \E tx \in BOOLEAN, receipt \in {FALSE, mined} :
        /\ got' = [got EXCEPT !.tx = tx, !.receipt = receipt]
        /\ IF ~tx /\ ~receipt THEN Answers([status |-> "NotFound"])
           ELSE IF ~Readable(tx, receipt) THEN Answers([status |-> "Pending"])
           ELSE step' = "l1Fee" /\ UNCHANGED told
    /\ UNCHANGED <<exec, mined, internal>>

\* The raw receipt's fee of the data on layer 1, where the chain has one: a read that
\* fails or leaves it out leaves it unknown.
ReadL1Fee ==
    /\ step = "l1Fee"
    /\ \E fee \in {<<>>} \cup (IF HasL1Fee THEN {<<exec.l1Fee>>} ELSE {}) :
           got' = [got EXCEPT !.l1Fee = fee]
    /\ step' = "decode" /\ UNCHANGED <<exec, mined, internal, told>>

\* EvmTransactionGasFees.totalNativeDebitWei.
totalNativeDebit == exec.gas + (IF got.l1Fee = <<>> THEN 0 ELSE got.l1Fee[1])

\* Slip: a call that failed is walked into.
NoneReverts(trace) == [i \in DOMAIN trace |-> TRUE]
\* walkTraceForEthTransfers: not below a frame that failed.
Reached(trace) ==
    LET reached[i \in DOMAIN trace] ==
            ~trace[i].failed /\ (IF trace[i].parent = 0 THEN TRUE ELSE reached[trace[i].parent])
    IN  reached

walkTrace(trace) ==
    FlattenSeq([i \in DOMAIN trace |->
        IF Reached(trace)[i] /\ trace[i].type \in {"CALL", "CALLCODE"} /\ trace[i].value > 0
        THEN Move(trace[i].from, trace[i].to, Native, trace[i].value) ELSE <<>>])

\* A log of three topics whose first is Transfer; what the data holds else is skipped.
transfersOf(logs) ==
    FlattenSeq([i \in DOMAIN logs |->
        IF logs[i].topics = 3 /\ logs[i].topic = "Transfer" /\ logs[i].amount # <<>>
        THEN Move(logs[i].from, logs[i].to, logs[i].contract, logs[i].amount[1]) ELSE <<>>])

\* The sender pays the fees and the value, and who it is for gains the value; with
\* internal transfers the trace has both, the outermost call among them.
decodeBalanceChanges(value, to) ==
    LET paid == IF internal THEN <<<<exec.from, Native, -totalNativeDebit>>>>
                ELSE <<<<exec.from, Native, -(value + totalNativeDebit)>>>>
        gained == IF internal \/ value = 0 \/ to = "none" THEN <<>> ELSE <<<<to, Native, value>>>>
        traced == IF internal THEN walkTrace(exec.trace) ELSE <<>>
    IN  AddUp(paid \o gained \o traced \o transfersOf(exec.logs))

\* getInternalTransfers throws where the endpoint has no traces.
TracesFail == internal /\ ~HasTraces

\* A transaction without its body has no value and no recipient but the receipt's.
Decode ==
    /\ step = "decode"
    /\ IF ~exec.ok
       THEN Answers([status |-> "Failed", fees |-> totalNativeDebit, error |-> "REVERTED"])
       ELSE IF TracesFail THEN Answers([status |-> "throws"])
       ELSE Answers([status |-> "Success", fees |-> totalNativeDebit,
                     changes |-> decodeBalanceChanges(IF got.tx THEN exec.value ELSE 0, exec.to)])
    /\ UNCHANGED <<exec, mined, internal, got>>

Next == Mine \/ Fails \/ ReadBoth \/ ReadL1Fee \/ Decode

Spec == Init /\ [][Next]_vars

(***************************************************************************)
(* Properties.                                                             *)
(***************************************************************************)
\* What moved outside of the trace that the receipt lacks.
Seen(list) == SelectSeq(list, LAMBDA m : m[3] # Native \/ internal)
Outermost == IF internal \/ exec.value = 0 \/ exec.to = "none" THEN <<>>
             ELSE <<<<exec.from, exec.to, Native, exec.value>>>>

\* What rows come to, summed for each wallet and asset; what comes to nothing is not there.
NetOf(rows) ==
    LET wallets == {rows[i][1] : i \in DOMAIN rows}
        assets == {rows[i][2] : i \in DOMAIN rows}
        net(w, a) == MapThenSumSet(LAMBDA i : rows[i][3],
                                   {i \in DOMAIN rows : rows[i][1] = w /\ rows[i][2] = a})
    IN  [w \in {x \in wallets : \E a \in assets : net(x, a) # 0} |->
            [a \in {b \in assets : net(w, b) # 0} |-> net(w, a)]]

\* The changes of a success are what moved less the fees that are told, summed up: all of
\* it with internal transfers, and all but those without.  No node's delay leaves a leg out,
\* no leg is lost behind legs that came to nothing, and only a fee of layer 1 that could not
\* be read is missing from the fees.  Every status has the fields its verdict goes with.
ChangesAreTrue ==
    /\ told.status = "Success" =>
        /\ mined /\ exec.ok
        /\ told.changes = NetOf(<<<<exec.from, Native, -told.fees>>>> \o Moves(Outermost \o Seen(exec.moved)))
    /\ told.status \in {"Success", "Failed"} =>
        told.fees = exec.gas + (IF got.l1Fee = <<>> THEN 0 ELSE exec.l1Fee)
    /\ told.status \notin {"none", "throws"} =>
        StatusHolds(told.status, "changes" \in DOMAIN told, "error" \in DOMAIN told)
=============================================================================
