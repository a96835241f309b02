---------------------------- MODULE StellarTokens ----------------------------
(***************************************************************************)
(* The cache of tokens that StellarChain keeps (stellar_chain.ts): it      *)
(* holds the promises of createNonSacToken, and is bounded.                *)
(*                                                                         *)
(* A promise runs two calls of the token's contract, for its decimals and  *)
(* its symbol.  Where one fails the promise is rejected at once; the       *)
(* handler that takes it out of the cache runs later.                      *)
(***************************************************************************)
EXTENDS Naturals, SequencesExt

CONSTANTS
    Contracts,      \* the contracts of tokens
    MaxPromises,    \* bound: the promises that are made
    CacheSize       \* NON_SAC_TOKEN_CACHE_SIZE

VARIABLES
    cache,          \* nonSacTokenCache in insertion order: [contract, promise]
    promise         \* the promises made so far: [step, contract]

vars == <<cache, promise>>

Init ==
    /\ cache = <<>>
    /\ promise = <<>>

\* The places of a contract in the cache: one, or none.
Places(contract) == {i \in DOMAIN cache : cache[i].contract = contract}
WithoutEntry(contract) ==
    IF Places(contract) = {} THEN cache ELSE RemoveAt(cache, CHOOSE i \in Places(contract) : TRUE)

\* createNonSacToken with the contract in the cache: its entry becomes the youngest.
Hit(contract) ==
    /\ \E i \in Places(contract) : cache' = Append(WithoutEntry(contract), cache[i])
    /\ UNCHANGED promise

\* createNonSacToken without: the oldest entry makes room for the new one.
Miss(contract) ==
    /\ Places(contract) = {}
    /\ Len(promise) < MaxPromises
    /\ promise' = Append(promise, [step |-> "decimals", contract |-> contract])
    /\ LET longer == Append(cache, [contract |-> contract, promise |-> Len(promise) + 1])
       IN  cache' = IF Len(longer) > CacheSize THEN Tail(longer) ELSE longer

\* _callHostFunction, twice.
Call(p) ==
    /\ promise[p].step \in {"decimals", "symbol"}
    /\ \/ promise' = [promise EXCEPT ![p].step = IF @ = "decimals" THEN "symbol" ELSE "resolved"]
       \/ promise' = [promise EXCEPT ![p].step = "rejected"]
    /\ UNCHANGED cache

\* A handler that does not look whose the entry is, and one that comes to nothing.
EvictByContract(p) ==
    /\ promise[p].step = "rejected"
    /\ promise' = [promise EXCEPT ![p].step = "handled"]
    /\ cache' = WithoutEntry(promise[p].contract)

KeepFailures(p) ==
    /\ promise[p].step = "rejected"
    /\ promise' = [promise EXCEPT ![p].step = "handled"]
    /\ UNCHANGED cache

\* The handler of a rejection: it removes its own promise and no other.
Handle(p) ==
    /\ promise[p].step = "rejected"
    /\ promise' = [promise EXCEPT ![p].step = "handled"]
    /\ cache' = IF \E i \in Places(promise[p].contract) : cache[i].promise = p
                THEN WithoutEntry(promise[p].contract) ELSE cache

Next ==
    \/ \E c \in Contracts : Hit(c) \/ Miss(c)
    \/ \E p \in DOMAIN promise : Call(p) \/ Handle(p)

Spec == Init /\ [][Next]_vars

InCache(p) == \E i \in DOMAIN cache : cache[i].promise = p

\* A failure is forgotten once its handler ran, by itself and by nothing else: a
\* promise that has not failed stays until it is the oldest of a cache that is full.
CacheForgetsFailures ==
    /\ \A p \in DOMAIN promise : promise[p].step = "handled" => ~InCache(p)
    /\ \A i, j \in DOMAIN cache : cache[i].contract = cache[j].contract => i = j
    /\ Len(cache) <= CacheSize

CacheKeepsTokens ==
    [][\A p \in DOMAIN promise :
          InCache(p) /\ ~InCache(p)' /\ promise[p].step # "rejected"
              => Len(cache) = CacheSize /\ cache[1].promise = p]_vars

\* Both: the cache has the tokens it should have and no other promise.
CacheHolds == []CacheForgetsFailures /\ CacheKeepsTokens
=============================================================================
