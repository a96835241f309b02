------------------------------ MODULE SolanaMC ------------------------------
(***************************************************************************)
(* The Solana modules for TLC, in scenes that share no state: a payment    *)
(* signed twice, the status of one transaction, a transfer from request to *)
(* block, the changes of a transaction, and bundles.  A state of one scene *)
(* keeps the others at their start.                                        *)
(***************************************************************************)
EXTENDS SolanaPayment, Sequences, TLC

CONSTANTS
    Options, MaxForks,                                          \* SolanaWait
    Requests, Costs, DefaultUnits, MaxChanges, MaxBlockhash,    \* SolanaBuild
    StaticKeys, LoadedKeys, TokenAccounts, Mints, Steps, Fees,  \* SolanaChanges
    Bundles, MaxAsked,                                          \* SolanaBundle
    Scenes          \* which of the scenes a run plays

VARIABLES
    scene,
    block, seen, forks, call, late, stop, status,
    account, changes, blockhash, asked, probed, unsigned, signed, outcome, read,
    pre, now, ran, meta, decoded,
    bundle, submitted, ids, statuses

waitVars == <<block, seen, forks, call, late, stop, status>>
buildVars == <<account, changes, blockhash, asked, probed, unsigned, signed, outcome, read>>
changesVars == <<pre, now, ran, meta, decoded>>
bundleVars == <<bundle, submitted, ids, statuses>>
allVars == <<scene, vars, waitVars, buildVars, changesVars, bundleVars>>

W == INSTANCE SolanaWait
B == INSTANCE SolanaBuild
C == INSTANCE SolanaChanges
J == INSTANCE SolanaBundle WITH fate <- bundle

\* The accounts of a message differ, the first of them is a wallet and pays, the token
\* accounts are accounts, and lamports are no mint's.
ASSUME AccountsAreKnown ==
    /\ StaticKeys \in Seq(C!Accounts) \ {<<>>} /\ LoadedKeys \in Seq(C!Accounts)
    /\ \A i, j \in DOMAIN C!AccountKeys : C!AccountKeys[i] = C!AccountKeys[j] => i = j
    /\ C!FeePayer \in C!Wallets /\ TokenAccounts \subseteq C!Accounts
    /\ "SOL" \notin Mints /\ Fees \subseteq Nat

\* Confirmations are counted.
ASSUME CountsAsked == \A opts \in Options : opts.confirmations \in Nat

\* A request gives its fields as the builders take them; an amount is one number, or
\* none; a limit that is asked for, as the default, covers a transfer and the opening of
\* its account.
ASSUME RequestsAreFormed ==
    /\ Requests \subseteq [via : {"transfer", "instructions", "unsigned"}, token : BOOLEAN, decimals : 0..9,
                           amount : Seq(Int), amountHr : Seq([digits : Int, scale : 0..9]),
                           full : BOOLEAN, sponsor : BOOLEAN, units : Nat, price : BOOLEAN]
    /\ Costs \in [transfer : Nat, open : Nat, opened : Nat] /\ DefaultUnits \in Nat \ {0}
    /\ \A units \in {DefaultUnits} \cup {req.units : req \in {r \in Requests : r.units # 0}} :
          units >= Costs.transfer + Costs.open /\ units >= Costs.transfer + Costs.opened

MCOptions ==
    {[wait |-> FALSE, confirmations |-> 1, timeout |-> FALSE], [wait |-> FALSE, confirmations |-> 32, timeout |-> FALSE]}
    \cup {[wait |-> TRUE, confirmations |-> c, timeout |-> t] : c \in {0, 1, 2, 32}, t \in BOOLEAN}

\* Minor units, a decimal amount with digits to spare, and both or neither.
MCRequests ==
    LET Request(via, token, amount, hr, full, sponsor, units, price) ==
            [via |-> via, token |-> token, decimals |-> 1, amount |-> amount, amountHr |-> hr, full |-> full,
             sponsor |-> sponsor, units |-> units, price |-> price]
        half == <<[digits |-> 257, scale |-> 2]>>
    IN  {Request("transfer", token, <<>>, half, FALSE, sponsor, units, TRUE) :
            token \in BOOLEAN, sponsor \in BOOLEAN, units \in {0, 90}}
        \cup {Request(via, token, <<4>>, <<>>, FALSE, FALSE, units, FALSE) :
                 via \in {"transfer", "instructions", "unsigned"}, token \in BOOLEAN, units \in {0, 90}}
        \cup {Request("transfer", FALSE, <<4>>, half, FALSE, FALSE, 0, FALSE),
              Request("transfer", FALSE, <<>>, <<>>, TRUE, FALSE, 0, FALSE),
              Request("instructions", TRUE, <<0>>, <<>>, FALSE, FALSE, 0, FALSE)}
MCCosts == [transfer |-> 10, open |-> 30, opened |-> 5]

MCStaticKeys == <<"alice", "tokens1">>
MCLoadedKeys == <<"bob", "tokens2">>

MCInit ==
    /\ scene \in Scenes
    /\ Init /\ W!Init /\ B!Init /\ C!Init /\ J!Init
    /\ scene # "build" => account = -1
    /\ scene # "changes" => DOMAIN pre.tokens = {}

MCNext ==
    \/ scene = "payment" /\ Next /\ UNCHANGED <<scene, waitVars, buildVars, changesVars, bundleVars>>
    \/ scene = "wait" /\ W!Next /\ UNCHANGED <<scene, vars, buildVars, changesVars, bundleVars>>
    \/ scene = "build" /\ B!Next /\ UNCHANGED <<scene, vars, waitVars, changesVars, bundleVars>>
    \/ scene = "changes" /\ C!Next /\ UNCHANGED <<scene, vars, waitVars, buildVars, bundleVars>>
    \/ scene = "bundles" /\ J!Next /\ UNCHANGED <<scene, vars, waitVars, buildVars, changesVars>>

MCSpec == MCInit /\ [][MCNext]_allVars

WaitStep == scene = "wait" /\ W!Step /\ UNCHANGED <<scene, vars, buildVars, changesVars, bundleVars>>
WaitDeadline == scene = "wait" /\ W!DeadlinePasses /\ UNCHANGED <<scene, vars, buildVars, changesVars, bundleVars>>
InPayment == scene = "payment" /\ UNCHANGED <<scene, waitVars, buildVars, changesVars, bundleVars>>

\* SolanaPayment's fairness; and a call's reads and sleeps end, and its deadline passes.
MCFairSpec ==
    /\ MCSpec
    /\ WF_allVars(WaitStep) /\ WF_allVars(WaitDeadline)
    /\ WF_allVars(Block /\ InPayment)
    /\ \A k \in Txs :
          SF_allVars(SeesPast(k) /\ InPayment) /\ SF_allVars(ReadStatus(k) /\ told' # told /\ InPayment)

\* The properties of the instances: see there.
WaitEnds == W!WaitEnds
LandsAsBuilt == B!LandsAsBuilt
ReadsAreTrue == B!ReadsAreTrue

\* What is told of transactions and bundles, of their end and of what they moved.
StatusesAreTrue == W!SettledIsTrue /\ C!ChangesAreTrue /\ J!BundleStatusIsTrue
=============================================================================
