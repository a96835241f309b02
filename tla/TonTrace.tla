------------------------------ MODULE TonTrace ------------------------------
(***************************************************************************)
(* What became of a request on TON: the trace of transactions that its     *)
(* message set off, how TON Center and TonAPI give it (ton_toncenter.ts,   *)
(* ton_tonapi.ts), the checks that a reply passes (ton_provider.ts), the   *)
(* judgment of the request (ton_transaction_status.ts), and an account's   *)
(* transfers in a trace (ton_chain.ts).                                    *)
(*                                                                         *)
(* A transaction is named by its place in the trace: the root is <<>>, and *)
(* Append(p, i) took the i-th message that p sent.  The name stands for    *)
(* the hash, and for the (source, created_lt) of the message it received.  *)
(* While the trace runs, a caller asks once, for the status of the request *)
(* or for the transfers of an account; the answer is then held against     *)
(* what the trace became.                                                  *)
(***************************************************************************)
EXTENDS BalanceChanges, FiniteSetsExt, SequencesExt, Functions

CONSTANTS
    Owners,         \* the accounts whose transfers are asked for
    MinDepths,      \* minMasterchainDepth
    MaxHead,        \* bound: masterchain blocks
    RefLag,         \* how many blocks master_ref may lie before the committing block
    Faults          \* what a reply of a provider may suffer

VARIABLES
    chain,      \* the transactions that ran: from their places
    head,       \* the masterchain's last block
    coins,      \* what each account gained, in nanotons
    jettons,    \* what each owner gained of the jetton
    read,       \* the trace that a status has read, before it reads the head
    answer      \* what the caller was told

traceVars == <<chain, head, coins, jettons, read, answer>>

(***************************************************************************)
(* The chain.  A message carries value and pays fwd on top of it; names is *)
(* the recipient that a jetton transfer names.                             *)
(***************************************************************************)
Accounts == {"wallet", "vault", "bob", "jwallet", "jbob", "fake", "fakebob"}
Message(from, to, op, value, bounce) ==
    [from |-> from, to |-> to, op |-> op, value |-> value, fwd |-> 1, bounce |-> bounce,
     bounced |-> FALSE, names |-> "bob"]
Bounce(m) == [Message(m.to, m.from, "none", m.value - 1, FALSE) EXCEPT !.bounced = TRUE]

\* A transaction's phases: compute, then action, only if compute went through; an
\* account without code skips compute.
Phases(compute, action, skipped, aborted, outs) ==
    [compute |-> compute, action |-> action, skipped |-> skipped, aborted |-> aborted, outs |-> outs]
Ran(outs) == Phases("ok", "ok", 0, FALSE, outs)
Skipped == Phases("ok", "ok", 1, FALSE, <<>>)
\* A failed compute phase, or no code, sends a bounceable message back; a failed action
\* keeps its value.
Returned(m) == IF m.bounce THEN <<Bounce(m)>> ELSE <<>>
Failed(m) == Phases("failed", "none", 0, TRUE, Returned(m))
NoCode(m) == Phases("no_state", "none", 0, TRUE, Returned(m))
ActionFailed == Phases("ok", "failed", 0, TRUE, <<>>)
tonTransactionOutcome(ran) ==
    [success |-> ran.compute \in {"ok", "no_state"} /\ ran.action # "failed" /\ ran.skipped = 0]

\* What the account a message reaches may do with it.  A jetton wallet takes an
\* internal_transfer only from a wallet of its own jetton.
Reactions(m) ==
    CASE m.bounced \/ m.op \in {"notification", "excesses"} -> {Ran(<<>>)}
      [] m.op = "signed_internal" ->
            {Ran(<<Message("vault", "bob", "none", 2, TRUE)>>), Ran(<<>>), Failed(m), NoCode(m), ActionFailed}
      [] m.op = "transfer" /\ m.to = "jwallet" ->
            {Ran(<<Message("jwallet", "jbob", "internal_transfer", 4, TRUE)>>), Ran(<<>>), Failed(m)}
      [] m.op = "transfer" /\ m.to = "fake" ->
            {Ran(<<Message("fake", j, "internal_transfer", 4, TRUE)>>) : j \in {"jbob", "fakebob"}}
      [] m.op = "internal_transfer" /\ m.from = "fake" /\ m.to = "jbob" -> {Failed(m)}
      [] m.op = "internal_transfer" /\ ~(m.from = "fake" /\ m.to = "jbob") ->
            {Ran(<<Message(m.to, "bob", "notification", 1, FALSE), Message(m.to, "wallet", "excesses", 1, FALSE)>>),
             Skipped, Failed(m)}
      [] OTHER ->
            {Ran(<<>>), Skipped, NoCode(m), ActionFailed}
            \cup (IF m.from = "wallet" THEN {Ran(<<Message(m.to, "wallet", "none", 1, FALSE)>>)} ELSE {})

Parent(p) == Front(p)
ChildrenOf(txs, p) == {q \in DOMAIN txs : q # <<>> /\ Parent(q) = p}
Fee == 1
SentBy(outs) == FoldFunction(+, 0, [i \in DOMAIN outs |-> outs[i].value + outs[i].fwd])

\* Messages that a transaction sent and no transaction took yet.
Pending(txs) ==
    {p \in UNION {{Append(q, i) : i \in DOMAIN txs[q].outs} : q \in DOMAIN txs} : p \notin DOMAIN txs}
Running == chain = NoChanges \/ Pending(chain) # {}

\* The wallet's balance changes by what it received, less its fee and what it sent.
Moved(tx) ==
    [a \in Accounts |->
        (IF a = tx.account THEN (IF tx.place = <<>> THEN 0 ELSE tx.in.value) - Fee - SentBy(tx.outs) ELSE 0)]
Credited(tx) ==
    LET moves == tx.in.op = "internal_transfer" /\ tx.account = "jbob" /\ ~tx.aborted
    IN  [a \in {"wallet", "bob"} |-> IF ~moves THEN 0 ELSE IF a = "bob" THEN 1 ELSE -1]
Plus(f, g) == [x \in DOMAIN f |-> f[x] + g[x]]
Minus(f, g) == [x \in DOMAIN f |-> f[x] - g[x]]

Transaction(p, in, ran) ==
    [place |-> p, account |-> in.to, in |-> in, at |-> 0, compute |-> ran.compute, action |-> ran.action,
     skipped |-> ran.skipped, aborted |-> ran.aborted, outs |-> ran.outs]

Execute(p, in, ran) ==
    /\ chain' = With(chain, p, Transaction(p, in, ran))
    /\ coins' = Plus(coins, Moved(chain'[p]))
    /\ jettons' = Plus(jettons, Credited(chain'[p]))
    /\ UNCHANGED <<head, read, answer>>

External == Message("none", "wallet", "none", 0, FALSE)

\* What the wallet may be signed to send: payments, one of them with a body like a
\* jetton transfer's; a request for the vault, relayed beside a payment; a jetton
\* transfer; and one through a contract that poses as the wallet's jetton wallet.
Paid(to, op, bounce) == Message("wallet", to, op, 3, bounce)
SignedRequests == {
    <<Paid("bob", "none", TRUE)>>,
    <<Paid("bob", "none", FALSE), Paid("bob", "transfer", TRUE)>>,
    <<Paid("vault", "signed_internal", TRUE), Paid("bob", "none", TRUE)>>,
    <<Message("wallet", "jwallet", "transfer", 6, TRUE)>>,
    <<Message("wallet", "fake", "transfer", 6, TRUE)>>}

\* The wallet takes the signed request: it sends every message, or skips the last
\* ("ignore errors"), or fails.
Start ==
    /\ chain = NoChanges
    /\ \E r \in SignedRequests :
          \/ Execute(<<>>, External, Ran(r))
          \/ Execute(<<>>, External, [Ran(Front(r)) EXCEPT !.skipped = 1])
          \/ Execute(<<>>, External, ActionFailed)

Take ==
    \E p \in Pending(chain) :
        LET m == chain[Parent(p)].outs[Last(p)]
        IN  \E ran \in Reactions(m) : Execute(p, m, ran)

\* A masterchain block commits transactions, parents first.
Closed(S) == \A p \in S : p # <<>> => Parent(p) \in S
Committed == {p \in DOMAIN chain : chain[p].at > 0}
Block ==
    /\ head < MaxHead
    /\ \E S \in SUBSET DOMAIN chain :
          /\ Committed \subseteq S /\ Closed(S)
          /\ head' = head + 1
          /\ chain' = [p \in DOMAIN chain |->
                          IF p \in S \ Committed THEN [chain[p] EXCEPT !.at = head + 1] ELSE chain[p]]
    /\ UNCHANGED <<coins, jettons, read, answer>>

\* A transaction that no masterchain block references may run again, otherwise (an
\* emulation is held against the trace that it ran).
Replace ==
    /\ answer.kind # "emulation"
    /\ \E p \in DOMAIN chain \ Committed :
          /\ p # <<>> /\ ChildrenOf(chain, p) = {}
          /\ chain' = Without(chain, p)
          /\ coins' = Minus(coins, Moved(chain[p]))
          /\ jettons' = Minus(jettons, Credited(chain[p]))
    /\ UNCHANGED <<head, read, answer>>

(***************************************************************************)
(* What the providers reply.  A trace is [complete, txs]; a transaction in *)
(* it has the number of its masterchain block, 0 while it is not final.    *)
(***************************************************************************)
Given(S, seqno) ==
    [p \in S |-> [seqno |-> seqno[p], success |-> tonTransactionOutcome(chain[p]).success, place |-> p,
                  account |-> chain[p].account, in |-> chain[p].in, aborted |-> chain[p].aborted,
                  outs |-> chain[p].outs]]
Failure == [kind |-> "error"]
NotSeen == [kind |-> "none"]
Found(complete, txs) == [kind |-> "trace", complete |-> complete, txs |-> txs]

\* A reply may leave out a branch, or a transaction, or give a message otherwise.
Below(S, p) == {q \in S : IsPrefix(p, q)}
Suffers(txs, fault, p) ==
    IF fault = "gap" THEN Restrict(txs, DOMAIN txs \ Below(DOMAIN txs, p))
    ELSE IF fault = "left_out" THEN Without(txs, p)
    ELSE IF fault = "altered" THEN [txs EXCEPT ![p].in.value = @ + 1]
    ELSE txs

\* assertTraceConsistent: a parent for each but the root, an incoming message that
\* the parent sent, and in a complete trace a receiver for every message.
ReceivedWhatWasSent(trace, p) ==
    LET parent == trace.txs[Parent(p)]
    IN  Last(p) \in DOMAIN parent.outs /\ parent.outs[Last(p)] = trace.txs[p].in
GapsPass(trace) ==      \* a slip: a complete trace need not hold a receiver for every message
    \A p \in DOMAIN trace.txs \ {<<>>} :
        IF Parent(p) \in DOMAIN trace.txs THEN ReceivedWhatWasSent(trace, p) ELSE ~trace.complete
Consistent(trace) ==
    /\ \A p \in DOMAIN trace.txs \ {<<>>} :
          IF Parent(p) \in DOMAIN trace.txs THEN ReceivedWhatWasSent(trace, p) ELSE ~trace.complete
    /\ trace.complete => Pending(trace.txs) = {}
assertTraceConsistent(trace) == IF Consistent(trace) THEN trace ELSE Failure

\* TON Center sees committed transactions, final up to its own head, and some that
\* are not.  It may say that a trace still runs after its last transaction.
ToncenterSees(h, S) == Committed \cap {p \in DOMAIN chain : chain[p].at <= h} \subseteq S /\ Closed(S)
SeenAt(h, S) == Given(S, [q \in S |-> IF chain[q].at \in 1..h THEN chain[q].at ELSE 0])
traceBy(txs, finished, fault, p) ==
    LET missing == fault = "left_out"
    IN  IF txs = NoChanges THEN NotSeen
        ELSE IF finished /\ missing THEN Failure
        ELSE assertTraceConsistent(Found(finished /\ ~missing, Suffers(txs, fault, p)))

\* TonAPI serves committed transactions, and its emulation of the rest, which is
\* dropped.  It says nothing of completeness: every message has its transaction.
isComplete(txs) ==
    \A p \in DOMAIN txs : Len(txs[p].outs) <= Cardinality(ChildrenOf(txs, p))
traceAt(h, lag, fault, p) ==
    LET S == {q \in DOMAIN chain : chain[q].at \in 1..h}
        txs == Given(S, [q \in S |-> IF chain[q].at > lag THEN chain[q].at - lag ELSE 1])
        reply == Suffers(txs, fault, p)
    IN  IF S = {} THEN NotSeen
        ELSE assertTraceConsistent(Found(isComplete(reply), reply))

\* A fault, and the transaction it strikes: any but the root.
Strikes(S, faults) == {[fault |-> "none", on |-> <<>>]} \cup [fault : faults, on : S \ {<<>>}]
FromToncenter ==
    {Failure} \cup
    UNION {UNION {LET txs == SeenAt(h, S) IN
                  {traceBy(txs, finished, x.fault, x.on) :
                       finished \in {FALSE} \cup {f \in {TRUE} : S # {} /\ Pending(Restrict(chain, S)) = {}},
                       x \in Strikes(S, Faults)} :
                  S \in {T \in SUBSET DOMAIN chain : ToncenterSees(h, T)}} : h \in 0..head}
FromTonapi ==
    {Failure} \cup
    UNION {{traceAt(h, lag, x.fault, x.on) :
                lag \in 0..RefLag,
                x \in Strikes({q \in Committed : chain[q].at <= h}, Faults \ {"left_out"})} : h \in 0..head}

\* TonFallbackProvider.call: a failure without an answer is asked of TonAPI.
Replies == (FromToncenter \ {Failure}) \cup FromTonapi
Traces == {t \in Replies : t.kind = "trace"}

(***************************************************************************)
(* The judgment: the wallet's transaction, that of a vault it relayed a    *)
(* request to, and the first hop of every message that they sent.          *)
(***************************************************************************)
deliveryOf(txs, p, m, complete) ==
    IF p \notin DOMAIN txs THEN (IF complete THEN "undelivered" ELSE "pending")
    ELSE IF ~m.bounce \/ ~txs[p].aborted THEN "delivered"
    ELSE IF \E i \in DOMAIN txs[p].outs : txs[p].outs[i].bounced /\ txs[p].outs[i].to = m.from
         THEN "bounced" ELSE "failed"

\* A jetton transfer is judged one hop later, where the jettons land.
jettonDeliveryOf(txs, p, complete) ==
    LET onward == {i \in DOMAIN txs[p].outs : txs[p].outs[i].op = "internal_transfer" /\ ~txs[p].outs[i].bounced}
    IN  IF onward = {} THEN (IF complete THEN "undelivered" ELSE "pending")
        ELSE deliveryOf(txs, Append(p, Min(onward)), txs[p].outs[Min(onward)], complete)

Outcome(trace, p, m) ==
    LET first == deliveryOf(trace.txs, p, m, trace.complete)
    IN  IF first = "delivered" /\ m.op = "transfer" /\ p \in DOMAIN trace.txs
        THEN jettonDeliveryOf(trace.txs, p, trace.complete) ELSE first

relayTargets(txs) == {p \in ChildrenOf(txs, <<>>) : txs[p].in.op = "signed_internal"}
Sent(tx) == {i \in DOMAIN tx.outs : ~tx.outs[i].bounced}
judgeRequest(trace) ==
    \A w \in {<<>>} \cup relayTargets(trace.txs) :
        /\ trace.txs[w].success
        /\ w # <<>> => Sent(trace.txs[w]) # {}
        /\ \A i \in Sent(trace.txs[w]) :
              Outcome(trace, Append(w, i), trace.txs[w].outs[i]) \notin {"bounced", "undelivered", "failed"}

\* summarizeTonTrace: what the network took, and what each account gained.
Deltas(txs) ==
    [a \in Accounts |->
        LET mine == {p \in DOMAIN txs : txs[p].account = a}
        IN  MapThenSumSet(LAMBDA p : (IF p = <<>> THEN 0 ELSE txs[p].in.value) - (Fee + SentBy(txs[p].outs)), mine)]
Fees(txs) ==
    MapThenSumSet(LAMBDA p : Fee + FoldFunction(+, 0, [i \in DOMAIN txs[p].outs |-> txs[p].outs[i].fwd]), DOMAIN txs)

(***************************************************************************)
(* Jetton transfers: accepted, and the master vouches for both wallets.    *)
(***************************************************************************)
WalletData(wallet) == [owner |-> "wallet", master |-> "jetton"]     \* what the wallet says, true or not
WalletOf(master, owner) == IF owner = "wallet" THEN "jwallet" ELSE "jbob"
JettonMessageOps == {"transfer", "internal_transfer", "notification", "excesses"}
FollowUpOps == {"notification", "excesses"}

tonJettonCreditsOf(txs) ==
    {p \in DOMAIN txs : ~txs[p].aborted /\ txs[p].in.op = "internal_transfer" /\ ~txs[p].in.bounced}
Vouched(txs, p) ==
    /\ Parent(p) \in DOMAIN txs
    /\ LET data == WalletData(txs[p].in.from)
           recipient == txs[Parent(p)].in.names
       IN  /\ txs[Parent(p)].in.op = "transfer"
           /\ WalletOf(data.master, data.owner) = txs[p].in.from
           /\ WalletOf(data.master, recipient) = txs[p].account
getJettonTransfers(txs) == {p \in tonJettonCreditsOf(txs) : Vouched(txs, p)}

addJettonBalanceChanges(txs) ==
    FoldSet(LAMBDA p, changes :
                upsert(upsert(changes, WalletData(txs[p].in.from).owner, "jetton", -1),
                       txs[Parent(p)].in.names, "jetton", 1),
            NoChanges, getJettonTransfers(txs))

\* The messages that a verified transfer is made of, each named by its place.
PartOfJetton(txs) ==
    LET moved == getJettonTransfers(txs)
    IN  moved \cup {Parent(p) : p \in moved}
        \cup UNION {{Append(p, i) : i \in {j \in DOMAIN txs[p].outs : txs[p].outs[j].op \in FollowUpOps}} : p \in moved}

InABlock(trace, p, shaped) == trace.txs[p].seqno > 0     \* a slip: final whatever the trace may hold
IsFinal(trace, p, shaped) == trace.txs[p].seqno > 0 /\ (shaped => trace.complete)

Transfer(direction, asset, amount, trace, p, i, other, shaped) ==
    [direction |-> direction, asset |-> asset, amount |-> amount, place |-> p, index |-> i,
     other |-> other, shaped |-> shaped, final |-> IsFinal(trace, p, shaped)]

Receipts(owner, trace, gross) ==
    LET txs == trace.txs
        kept(p) == txs[p].in.value - (IF gross THEN 0 ELSE FoldFunction(+, 0, [i \in DOMAIN txs[p].outs |-> txs[p].outs[i].value]))
        sentBack(p) == txs[p].aborted /\ \E i \in DOMAIN txs[p].outs : txs[p].outs[i].bounced
    IN  {Transfer("RECEIVE", "native", kept(p), trace, p, 0, txs[p].in.from, txs[p].in.op \in JettonMessageOps) :
            p \in {q \in DOMAIN txs \ (PartOfJetton(txs) \cup {<<>>}) :
                      txs[q].account = owner /\ txs[q].in.value > 0 /\ ~sentBack(q) /\ kept(q) > 0}}

Sendings(owner, trace) ==
    LET txs == trace.txs
        mine == UNION {{Append(p, i) : i \in Sent(txs[p])} : p \in {q \in DOMAIN txs : txs[q].account = owner}}
        m(p) == txs[Parent(p)].outs[Last(p)]
    IN  {Transfer("SEND", "native", m(p).value, trace, Parent(p), Last(p), m(p).to,
                  m(p).op \in JettonMessageOps) :
            p \in {q \in mine \ PartOfJetton(txs) : m(q).value > 0}}

JettonMoves(owner, trace) ==
    LET txs == trace.txs
    IN  UNION {(IF owner = "wallet" THEN {Transfer("SEND", "jetton", 1, trace, p, 0, "bob", FALSE)} ELSE {})
               \cup (IF owner = txs[Parent(p)].in.names
                     THEN {Transfer("RECEIVE", "jetton", 1, trace, p, 0, "wallet", FALSE)} ELSE {}) :
               p \in getJettonTransfers(txs)}

accountTransfersOf(owner, trace, gross) ==
    Receipts(owner, trace, gross) \cup Sendings(owner, trace) \cup JettonMoves(owner, trace)
Settled(trace) == trace.complete /\ \A p \in DOMAIN trace.txs : trace.txs[p].seqno > 0

(***************************************************************************)
(* The caller.                                                             *)
(***************************************************************************)
Unasked == [kind |-> "unasked"]

\* The caller keeps the transfers that are final, and reads again for the rest: those of
\* every account it may ask for, with what the account passed on or without.
Inquiries == Owners \X BOOLEAN
TransfersIn(trace) == [w \in Inquiries |-> accountTransfersOf(w[1], trace, w[2])]
GetAccountTransfers(trace) ==
    /\ answer' = [kind |-> "transfers", settled |-> Settled(trace),
                  open |-> \E p \in DOMAIN trace.txs : trace.txs[p].seqno = 0,
                  transfers |-> [w \in Inquiries |-> {t \in accountTransfersOf(w[1], trace, w[2]) : t.final}]]
    /\ UNCHANGED <<chain, head, coins, jettons, read>>

\* statusOf reads the trace first, then the head, each from whichever provider
\* answers.  A trace that runs, or is not final, is Pending whatever the head is, and
\* so is one that is not deep enough: the caller asks again.
ReadTrace(trace) ==
    /\ Settled(trace)
    /\ read' = trace
    /\ UNCHANGED <<chain, head, coins, jettons, answer>>

Ask ==
    /\ answer = Unasked /\ read = Unasked
    /\ \E trace \in Traces : GetAccountTransfers(trace) \/ ReadTrace(trace)

SeqnoOf(trace) == Max({trace.txs[p].seqno : p \in DOMAIN trace.txs})
fromTrace(trace, depth) ==
    [kind |-> "status", verdict |-> IF judgeRequest(trace) THEN "Success" ELSE "Failed",
     depth |-> depth, fees |-> Fees(trace.txs), native |-> Deltas(trace.txs),
     jettons |-> addJettonBalanceChanges(trace.txs)]

ReadHead ==
    /\ read # Unasked
    /\ \E tip \in 0..head, minDepth \in MinDepths :
          LET depth == Max({tip - SeqnoOf(read), 0})
          IN  answer' = IF depth < minDepth THEN Unasked ELSE fromTrace(read, depth)
    /\ read' = Unasked
    /\ UNCHANGED <<chain, head, coins, jettons>>

\* An emulation runs the whole trace, which the ended one stands for; it is judged whole
\* or not at all: one that lacks a transaction is asked of the other provider.
Emulations ==
    LET txs == Given(DOMAIN chain, [p \in DOMAIN chain |-> 0])
    IN  {assertTraceConsistent(Found(TRUE, Suffers(txs, x.fault, x.on))) :
            x \in Strikes(DOMAIN chain, Faults \ {"left_out"})}
Emulate ==
    /\ answer = Unasked /\ read = Unasked /\ ~Running /\ Committed = {}
    /\ \E trace \in {t \in Emulations : t.kind = "trace"} :
          answer' = [fromTrace(trace, 0) EXCEPT !.kind = "emulation"]
    /\ UNCHANGED <<chain, head, coins, jettons, read>>

Init ==
    /\ chain = NoChanges /\ head = 0
    /\ coins = [a \in Accounts |-> 0] /\ jettons = [a \in {"wallet", "bob"} |-> 0]
    /\ read = Unasked /\ answer = Unasked

Next == Start \/ Take \/ Block \/ Replace \/ Ask \/ ReadHead \/ Emulate

Spec == Init /\ [][Next]_traceVars

(***************************************************************************)
(* Properties.                                                             *)
(***************************************************************************)
Whole == [complete |-> TRUE, txs |-> Given(DOMAIN chain, [p \in DOMAIN chain |-> chain[p].at])]

\* A transfer that was told as final is among the account's transfers once the trace
\* has run to its end and is committed, and what was told as settled is all of them,
\* whichever provider answered, from however far behind, with whatever left out: but
\* for a message shaped like a jetton transfer's in a trace that was not yet final.
Ended == ~Running /\ Committed = DOMAIN chain
FinalTransfersStay ==
    answer.kind = "transfers" /\ Ended =>
        /\ \A w \in Inquiries :
              {t \in answer.transfers[w] : ~(t.shaped /\ answer.open)} \subseteq accountTransfersOf(w[1], Whole, w[2])
        /\ answer.settled => answer.transfers = TransfersIn(Whole)

\* What the request was signed for: the wallet's transaction and that of a vault
\* it relayed to went through, every message was kept where it went, and a jetton
\* transfer's jettons were taken one hop later.
Kept(p) == p \in DOMAIN chain /\ ~(chain[p].aborted /\ chain[p].in.bounce)
Landed(p) == \E q \in ChildrenOf(chain, p) : chain[q].in.op = "internal_transfer" /\ Kept(q)
DidWhatItWasSignedFor ==
    \A w \in {<<>>} \cup relayTargets(chain) :
        /\ chain[w].compute \in {"ok", "no_state"} /\ chain[w].action # "failed" /\ chain[w].skipped = 0
        /\ w # <<>> => chain[w].outs # <<>>
        /\ \A i \in DOMAIN chain[w].outs :
              Kept(Append(w, i)) /\ (chain[w].outs[i].op = "transfer" => Landed(Append(w, i)))

\* A verdict is given of a trace that ended, and but for an emulation is committed, as
\* deep as it says (or as master_ref lies behind), and is the one the chain bears out:
\* Success only of a request that did what it was signed for, and Failed only of one
\* that did not, with the fees and the changes of TON and jettons that the accounts saw.
VerdictIsTrue ==
    answer.kind \in {"status", "emulation"} =>
        /\ ~Running
        /\ answer.kind = "status" =>
              Ended /\ answer.depth <= head - Max({chain[p].at : p \in DOMAIN chain}) + RefLag
        /\ (answer.verdict = "Success") <=> DidWhatItWasSignedFor
        /\ answer.native = coins
        /\ FoldFunction(+, 0, answer.native) = -answer.fees
        /\ \A a \in DOMAIN jettons : Gained(answer.jettons, a, "jetton") = jettons[a]
=============================================================================
