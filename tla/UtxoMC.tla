------------------------------- MODULE UtxoMC -------------------------------
(***************************************************************************)
(* The UTXO modules for TLC, in scenes that share no state: transfers over *)
(* one list of coins, reads from the providers, the registries of chains,  *)
(* and a batch of status reads, which UtxoChain has in common with the     *)
(* other chains.  A state of one scene keeps the others at their start.    *)
(*                                                                         *)
(* The values of the coins are near what the sizes of a P2WPKH wallet make *)
(* the cases differ at: a coin that costs more than it is worth, exact     *)
(* matches, change and no change.  The transaction that is read pays bob   *)
(* and gives change and a memo; carol gets back what she gave.             *)
(***************************************************************************)
EXTENDS StatusBatch, Integers, TLC

CONSTANTS
    t1, t2, a1, a2, a3, b1, c1, c2,
    Transfers, Coins, Owner, Sender, ScriptType, Worths, Requests, Assemblies, Faults,
    Rates, LongTermRate, Dust, MaxMemo, MaxIterations,
    Tainted, PageSize, MaxPages, Replies,               \* UtxoTransfer
    Inputs, Outputs, Coinbase, Unhydrated, Tools, Callers, MaxTip,  \* UtxoReads
    ChainIds, Families, SeedFamily, SeedParams, Shapes, MaxChains,  \* Registries
    Scenes          \* which of the scenes a run plays

ASSUME SingleKey == ScriptType \in {"p2wpkh", "p2pkh"}

VARIABLES
    scene,
    worth, tx, pool, chain, outcome,
    tip, place, read, told, wallet, watched, caller,
    networkTypes, btcParams, chains, removed

batchVars == vars
transferVars == <<worth, tx, pool, chain, outcome>>
readVars == <<tip, place, read, told, wallet, watched, caller>>
registryVars == <<networkTypes, btcParams, chains, removed>>

\* -1 is a reserved id, of a chain with the parameters of its network.
MCChainIds == {-1, -50, 7}
MCSeedFamily == (-1 :> "BTC")
MCSeedParams == (-1 :> "mainnet")

T == INSTANCE UtxoTransfer
R == INSTANCE UtxoReads
G == INSTANCE Registries

MCOwner == (a1 :> "alice") @@ (a2 :> "alice") @@ (a3 :> "alice") @@ (b1 :> "bob")

MCWorths == {(a1 :> 2000) @@ (a2 :> 900) @@ (a3 :> 60) @@ (b1 :> 5000),
             (a1 :> 1500) @@ (a2 :> 1500) @@ (a3 :> 800) @@ (b1 :> 700)}

\* What is left over of a1 lies between the cost of a change output and the dust limit.
MCWorthsAtDust == {(a1 :> 1400) @@ (a2 :> 60) @@ (a3 :> 60) @@ (b1 :> 700)}

MCRequests ==
    {[form |-> "single", amounts |-> <<800>>, memo |-> 0, rate |-> 0, exclude |-> FALSE],
     [form |-> "outputs", amounts |-> <<600, 800>>, memo |-> 4, rate |-> 1, exclude |-> TRUE],
     [form |-> "both", amounts |-> <<800>>, memo |-> 0, rate |-> 0, exclude |-> FALSE]}

MCAssemblies == {[coins |-> {a1, b1}, outputs |-> <<1000, 600>>, opReturns |-> 1]}

MCTainted == <<a2, a3>>

MCInputs == (1 :> [address |-> "alice", value |-> 7]) @@ (2 :> [address |-> "carol", value |-> 2])
MCOutputs == (1 :> [address |-> "bob", value |-> 4]) @@ (2 :> [address |-> "alice", value |-> 2])
             @@ (3 :> [address |-> "carol", value |-> 2]) @@ (4 :> [address |-> "none", value |-> 0])

MCInit ==
    /\ scene \in Scenes
    /\ Init /\ T!Init /\ R!Init /\ G!Init
    /\ scene # "transfers" => worth = CHOOSE w \in Worths : TRUE
    /\ scene # "batch" => ~cancelled

InBatch == scene = "batch" /\ UNCHANGED <<scene, transferVars, readVars, registryVars>>

MCNext ==
    \/ scene = "transfers" /\ T!Next /\ UNCHANGED <<scene, batchVars, readVars, registryVars>>
    \/ scene = "reads" /\ R!Next /\ UNCHANGED <<scene, batchVars, transferVars, registryVars>>
    \/ scene = "registries" /\ G!Next /\ UNCHANGED <<scene, batchVars, transferVars, readVars>>
    \/ Next /\ InBatch

allVars == <<scene, batchVars, transferVars, readVars, registryVars>>

\* StatusBatch's fairness, for the scene it plays in.
MCSpec ==
    /\ MCInit /\ [][MCNext]_allVars
    /\ \A w \in Workers : WF_allVars(Step(w) /\ InBatch) /\ WF_allVars(DeadlinePasses(w) /\ InBatch)

\* The properties of the instances: see there.
SelectionSound == T!SelectionSound
ChangeIsRelayed == T!ChangeIsRelayed
SignsAndPays == T!SignsAndPays
AnswersAreTrue == T!AnswersAreTrue
ReadsAreTrue == R!ReadsAreTrue
ParsesAsBuilt == G!ParsesAsBuilt

\* A batch that runs settles: see StatusBatch.
BatchEnds == scene = "batch" => Ends
=============================================================================
