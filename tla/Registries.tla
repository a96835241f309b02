----------------------------- MODULE Registries -----------------------------
(***************************************************************************)
(* The two registries of a process: the network type of a chain id         *)
(* (network_type.ts) and the parameters a Bitcoin address is parsed under  *)
(* (utxo/btc/network_params.ts), the constructors that enter chains in     *)
(* them, and addressFor, which reads them (address.factory.ts).            *)
(*                                                                         *)
(* Chain ids are numbers, of which the positive ones are EVM unless        *)
(* registered.  Parameters are told apart by their shape only.             *)
(***************************************************************************)
EXTENDS Integers, FiniteSets

CONSTANTS
    ChainIds,       \* the chain ids there are
    Families,       \* the network types a chain may be constructed as: BTC, SOLANA
    SeedFamily,     \* the network types that are registered at the start: a function
    SeedParams,     \* the parameters of the reserved ids: a function
    Shapes,         \* parameters of Bitcoin-like networks
    MaxChains       \* bound: how many chains are constructed

VARIABLES
    networkTypes,   \* networkTypeRegistry
    btcParams,      \* btcParamsByChainId
    chains,         \* the chains that were constructed: their id, and their parameters' shape
    removed         \* the ids some registry entry was removed of

vars == <<networkTypes, btcParams, chains, removed>>

Put(f, x, v) == [y \in DOMAIN f \cup {x} |-> IF y = x THEN v ELSE f[y]]
Drop(f, x) == [y \in DOMAIN f \ {x} |-> f[y]]

Reserved == DOMAIN SeedParams

Init ==
    /\ networkTypes = SeedFamily
    /\ btcParams = SeedParams
    /\ chains = {}
    /\ removed = {}

\* tryNetworkTypeOf; "none" stands for undefined, where networkTypeOf throws.
networkTypeOf(id) ==
    IF id \in DOMAIN networkTypes THEN networkTypes[id]
    ELSE IF id > 0 THEN "EVM" ELSE "none"

\* registerNonEvmChain throws rather than move an id to another family.
Registers(id, family) == networkTypeOf(id) \in {"none", family}

btcParamsShapeMatches(a, b) == a = b

\* registerBtcChainParams throws rather than take another shape; a reserved id
\* keeps its seed.  Slip: the last chain's parameters count.
LastShape(id, shape) == TRUE
TakesParams(id, shape) == id \in DOMAIN btcParams => btcParamsShapeMatches(btcParams[id], shape)

\* The constructor of a chain that is no BtcChain, and the call by itself.
RegisterNonEvmChain(id, family) ==
    /\ Registers(id, family)
    /\ networkTypes' = Put(networkTypes, id, family)
    /\ UNCHANGED <<btcParams, chains, removed>>

\* UtxoChain's constructor refuses a reserved id to foreign parameters, before it
\* registers anything.
Constructs(id, shape) == id \in Reserved => btcParamsShapeMatches(SeedParams[id], shape)

\* BtcChain's constructor: UtxoChain's, then registerBtcChainParams.  Where that
\* throws there is no chain, and the network type stays registered.
ConstructBtcChain(id, shape) ==
    /\ Cardinality(chains) < MaxChains
    /\ Constructs(id, shape) /\ Registers(id, "BTC")
    /\ networkTypes' = Put(networkTypes, id, "BTC")
    /\ IF TakesParams(id, shape)
       THEN /\ btcParams' = Put(btcParams, id, shape)
            /\ chains' = chains \cup {[id |-> id, shape |-> shape]}
       ELSE UNCHANGED <<btcParams, chains>>
    /\ UNCHANGED removed

\* EvmChain's constructor refuses an id of another family, and enters none.  EVM ids
\* are positive.
ConstructEvmChain(id) ==
    /\ Cardinality(chains) < MaxChains /\ id > 0
    /\ networkTypeOf(id) \in {"none", "EVM"}
    /\ chains' = chains \cup {[id |-> id, shape |-> "EVM"]}
    /\ UNCHANGED <<networkTypes, btcParams, removed>>

UnregisterChain(id) ==
    /\ networkTypes' = Drop(networkTypes, id)
    /\ removed' = removed \cup {id}
    /\ UNCHANGED <<btcParams, chains>>

\* A reserved id is left alone.
UnregisterBtcChainParams(id) ==
    /\ btcParams' = IF id \in Reserved THEN btcParams ELSE Drop(btcParams, id)
    /\ removed' = IF id \in Reserved THEN removed ELSE removed \cup {id}
    /\ UNCHANGED <<networkTypes, chains>>

Next ==
    \E id \in ChainIds :
        \/ \E family \in Families : RegisterNonEvmChain(id, family)
        \/ \E shape \in Shapes : ConstructBtcChain(id, shape)
        \/ ConstructEvmChain(id)
        \/ UnregisterChain(id)
        \/ UnregisterBtcChainParams(id)

Spec == Init /\ [][Next]_vars

\* btcParamsForChainId; "none" where it throws.
btcParamsFor(id) == IF id \in DOMAIN btcParams THEN btcParams[id] ELSE "none"

\* The grammar addressFor parses an address of the chain under: a shape, a family
\* that has one grammar, or "none" where it throws ChainNotSupported.
addressFor(id) ==
    IF networkTypeOf(id) = "BTC"
    THEN btcParamsFor(id)
    ELSE IF networkTypeOf(id) \in {"none", "COSMOS"} THEN "none"
    ELSE networkTypeOf(id)

\* An address is parsed under the parameters of the chain that was constructed for
\* its id, whatever chains were constructed or failed to be since: as long as
\* nobody removed an entry of the id.
ParsesAsBuilt ==
    \A c \in chains : c.id \notin removed => addressFor(c.id) = c.shape
=============================================================================
