------------------------------- MODULE EvmMC -------------------------------
(***************************************************************************)
(* The EVM modules for TLC, in scenes that share no state: the wait for a  *)
(* depth, payments, the changes of a transaction, and what is built to be  *)
(* signed.  A state of one scene keeps the others at their start.          *)
(***************************************************************************)
EXTENDS EvmStatusWait, Sequences, TLC

CONSTANTS
    Payments, Txs, Nodes, Faults,                           \* EvmPayment
    Executions, HasL1Fee, HasTraces,                        \* EvmChanges
    Chains, Histories, Multipliers, FallbackTip, Floor,     \* EvmBuild
    WaitBlocks, Transfers, Calls,
    Scenes          \* which of the scenes a run plays

VARIABLES
    scene,
    chain, seen, pool, tx, answers,
    exec, mined, internal, at, got, told,
    network, history, gas, base, waited, request, unsigned

paymentVars == <<chain, seen, pool, tx, answers>>
changeVars == <<exec, mined, internal, at, got, told>>
buildVars == <<network, history, gas, base, waited, request, unsigned>>

MCDecimals == ("native" :> 2) @@ ("usdc" :> 1)

P == INSTANCE EvmPayment WITH told <- answers
C == INSTANCE EvmChanges WITH step <- at
B == INSTANCE EvmBuild WITH chain <- network, Decimals <- MCDecimals

Frame(type, parent, from, to, value, failed) ==
    [type |-> type, parent |-> parent, from |-> from, to |-> to, value |-> value, failed |-> failed]
Log(topic, topics, from, to, amount) ==
    [topic |-> topic, topics |-> topics, contract |-> "usdc", from |-> from, to |-> to, amount |-> amount]

\* A payment; a payment to oneself; a swap whose router forwards the value, with a call
\* that fails and is caught; one that reverts.
Payment(to) ==
    [from |-> "alice", to |-> to, value |-> 5, gas |-> 2, l1Fee |-> 1, ok |-> TRUE, logs |-> <<>>,
     trace |-> <<Frame("CALL", 0, "alice", to, 5, FALSE)>>, moved |-> <<<<"alice", to, "native", 5>>>>]

Swap ==
    [from |-> "alice", to |-> "router", value |-> 4, gas |-> 3, l1Fee |-> 1, ok |-> TRUE,
     logs |-> <<Log("Transfer", 3, "pool", "alice", <<6>>), Log("Transfer", 4, "pool", "alice", <<9>>),
                Log("Approval", 3, "alice", "pool", <<7>>), Log("Transfer", 3, "alice", "alice", <<2>>),
                Log("Transfer", 3, "pool", "bob", <<>>)>>,
     trace |-> <<Frame("CALL", 0, "alice", "router", 4, FALSE), Frame("DELEGATECALL", 1, "router", "logic", 4, FALSE),
                 Frame("CALL", 2, "router", "pool", 3, FALSE), Frame("CALL", 1, "router", "bob", 1, TRUE),
                 Frame("CALL", 4, "bob", "alice", 1, FALSE), Frame("STATICCALL", 1, "router", "pool", 0, FALSE)>>,
     moved |-> <<<<"alice", "router", "native", 4>>, <<"router", "pool", "native", 3>>,
                 <<"pool", "alice", "usdc", 6>>>>]

\* A contract pays out, takes back the same, and pays out again: the sum passes zero.
Round ==
    [from |-> "alice", to |-> "router", value |-> 0, gas |-> 3, l1Fee |-> 1, ok |-> TRUE,
     logs |-> <<Log("Transfer", 3, "pool", "alice", <<6>>), Log("Transfer", 3, "alice", "router", <<6>>),
                Log("Transfer", 3, "pool", "alice", <<2>>)>>,
     trace |-> <<Frame("CALL", 0, "alice", "router", 0, FALSE)>>,
     moved |-> <<<<"pool", "alice", "usdc", 6>>, <<"alice", "router", "usdc", 6>>, <<"pool", "alice", "usdc", 2>>>>]

MCExecutions == {Payment("bob"), Payment("alice"), Swap, [Swap EXCEPT !.ok = FALSE], Round}

MCChains ==
    {[id |-> 1, eip1559 |-> TRUE, eip7702 |-> TRUE], [id |-> 2, eip1559 |-> TRUE, eip7702 |-> FALSE],
     [id |-> 3, eip1559 |-> FALSE, eip7702 |-> FALSE]}

MCHistories ==
    {[gasPrice |-> (CASE b = 1 -> 0 [] b = 9 -> 3 [] OTHER -> 90), base |-> b, tips |-> t] :
        b \in {1, 9, 100},
        t \in {<<>>, <<0, 0, 0, 0, 0, 0, 0, 0, 0, 0>>, <<9, 1, 7, 0, 8, 2, 6, 3, 5, 4>>, <<60, 7>>}}

MCTransfers ==
    {[token |-> "usdc", valid |-> v, priced |-> p, amount |-> <<n>>, amountHr |-> <<>>, full |-> FALSE] :
        v \in BOOLEAN, p \in BOOLEAN, n \in {0, 5}}
    \cup {[token |-> t, valid |-> TRUE, priced |-> FALSE, amount |-> <<>>,
           amountHr |-> <<[digits |-> d, scale |-> s]>>, full |-> FALSE] :
              t \in {"native", "usdc"}, d \in {-15, 15}, s \in {0, 2}}
    \cup {[token |-> "usdc", valid |-> TRUE, priced |-> FALSE, amount |-> <<>>, amountHr |-> <<>>, full |-> TRUE]}

Auth(chainId, nonce, s) == [chain |-> chainId, nonce |-> nonce, s |-> s]

MCCalls ==
    [valid : {FALSE}, fees : {FALSE}, auths : {<<>>}] \cup
    [valid : {TRUE}, fees : BOOLEAN,
     auths : {<<>>, <<{}>>, <<{Auth(1, 0, "low")}>>, <<{Auth(1, 0, "low"), Auth(1, 1, "high")}>>,
              <<{Auth(0, 0, "low")}>>, <<{Auth(2, 0, "low")}>>, <<{Auth(1, -1, "low")}>>, <<{Auth(1, 0, "zero")}>>}]

MCInit ==
    /\ scene \in Scenes
    /\ Init /\ P!Init /\ C!Init /\ B!Init
    /\ scene # "wait" => hist[1] = Nowhere
    /\ scene # "changes" => exec = (CHOOSE e \in Executions : TRUE) /\ ~internal
    /\ scene # "build" =>
          /\ network = CHOOSE c \in Chains : TRUE
          /\ history = CHOOSE h \in Histories : TRUE
          /\ request = [by |-> "call", req |-> CHOOSE c \in Calls : TRUE]

MCNext ==
    \/ scene = "wait" /\ Next /\ UNCHANGED <<scene, paymentVars, changeVars, buildVars>>
    \/ scene = "payment" /\ P!Next /\ UNCHANGED <<scene, vars, changeVars, buildVars>>
    \/ scene = "changes" /\ C!Next /\ UNCHANGED <<scene, vars, paymentVars, buildVars>>
    \/ scene = "build" /\ B!Next /\ UNCHANGED <<scene, vars, paymentVars, changeVars>>

MCSpec == MCInit /\ [][MCNext]_<<scene, vars, paymentVars, changeVars, buildVars>>

\* The fairness of EvmStatusWait, for the scene it plays in.
MCFairSpec ==
    MCSpec /\ WF_vars(Call /\ scene = "wait" /\ UNCHANGED <<scene, paymentVars, changeVars, buildVars>>)
           /\ WF_vars(DeadlinePasses /\ scene = "wait" /\ UNCHANGED <<scene, paymentVars, changeVars, buildVars>>)

\* Fees are amounts, a multiplier never lowers a price, and a base fee may rise for five
\* blocks, by no more than the floor where it is too small to rise by an eighth.
ASSUME FeesAreAmounts ==
    /\ \A h \in Histories : h.base \in Nat /\ h.gasPrice \in Int /\ h.tips \in Seq(Int)
    /\ Multipliers \subseteq Nat /\ \A m \in Multipliers : m >= 100
    /\ FallbackTip \in Nat /\ Floor \in Nat
    /\ WaitBlocks \in 0..5 /\ WaitBlocks <= Floor

\* The wait ends: see EvmStatusWait.
WaitEnds == scene = "wait" ~> step \in {"returned", "failed"}

\* The properties of EvmPayment, EvmChanges and EvmBuild: see there.
PaidOnce == P!PaidOnce
AnswersHold == P!AnswersHold
ChangesAreTrue == C!ChangesAreTrue
BuiltToLast == B!BuiltToLast
=============================================================================
