# Specifications of omnichain

omnichain is a TypeScript SDK that builds, signs, broadcasts and follows
transactions on EVM chains, Solana, Tron, Stellar, TON and the UTXO chains.  It
is a library: it keeps little state of its own, and what makes it hard is that
every answer it gives is put together from reads of providers that lag, fail
and disagree, while the chain moves on and the caller acts on what it was told.
A wrong answer at that point is paid for twice, or not at all.

These modules model that part.  Each names the source it was read from; the
table from definitions to source lines is `PROJECT.json`, under `map`.

1. [The system](#1-the-system) - components, their state, how they interact, what is hard
2. [Modules](#2-modules) - which module models what, and how its actions are the code's
3. [Runs](#3-runs) - what TLC checks, the bounds, the fairness
4. [Proofs](#4-proofs) - what TLAPS proves, from what, along which argument
5. [Where code and documentation part](#5-where-code-and-documentation-part)
6. [What is not modelled, and the plan](#6-what-is-not-modelled-and-the-plan)
7. [Running](#7-running)

## 1. The system

| Component | Source | State it keeps | Operations |
|---|---|---|---|
| Common types | `chain.base.ts`, `transaction_status.ts`, `errors.ts`, `signed_transaction.ts`, ... | none between calls | resolve a transfer amount, collect balance changes, a status and its invariants, typed errors |
| Registries | `network_type.ts`, `address.factory.ts`, `utxo/btc/network_params.ts`, `asset_registry.ts`, `chain_ids.ts` | process-wide maps filled by constructors and registration calls | register a network, network parameters; parse an address |
| TON | `ton/` | per chain: providers and their keys; per wallet: a key | sign external and internal requests, broadcast over two providers, request state, status and transfers of a trace, simulation |
| EVM | `evm/` | per chain: lazy provider, gas pricing | build, price, sign, broadcast, wait for status, batch status, multicall balances |
| Solana | `solana/` | per chain: connection, caches | build, refresh blockhash, compute budget, broadcast, Jito bundles, wait for status, batch status |
| Tron | `tron/` | per chain: chain parameters cache, token contracts | build, encode, sign, broadcast, approve as a prerequisite, status |
| Stellar | `stellar/` | per chain: LRU cache of token promises | build, sign, broadcast, prerequisites (trust lines), predicted and told changes, status |
| UTXO | `utxo/` | per chain: networks; watched addresses of a node | list coins, select coins, build a PSBT, sign, finalize, broadcast, status |
| Formats | `python_*.ts`, `transaction_json.ts`, `rango_chain_names.ts`, `asset_map.ts`, `bip39.ts` | none | parity formatting, serialization, naming, seed words |

How they interact: a caller holds a `Chain` and a `Wallet`.  The wallet signs
what the chain builds (`signTransaction` reads the account's sequence number
through the chain), the chain broadcasts it and reads its status.  All
interaction with the outside goes through a provider object; each `await` on
one is a point where the chain, the other providers and the caller's other
calls move on.  There are no threads and nothing is persisted: a "crash" loses
only the calls in flight, and the caller keeps what it signed.

What is hard, by component (each with its line in `PROJECT.json`, `hazards`):

- **Payments, on every chain.** A broadcast may fail without an answer; a refusal
  may mean that the message had already landed, or "already known"; a caller who
  signs anew on the wrong answer pays twice.  What voids the earlier transaction
  differs by chain: a seqno and a `valid_until` (TON), a nonce (EVM), a blockhash
  window (Solana), an expiration by the client's clock alone (Tron), a sequence
  number and time bounds (Stellar), a coin that is spent (UTXO).
- **Status waiting (EVM, Solana).** Two reads of one poll may be answered by
  different nodes behind a load balancer; a reorganisation may fall between
  them; a deadline and an abort signal race the answer.
- **Batch status (all chains but TON).** Eight workers share a cursor and an
  abort flag over `await`s.
- **Balance changes.** They are assembled from several encodings of one execution
  (logs, internal calls, effects, pre and post balances, traces), each of which
  lists some of the same moves, with fees taken apart.
- **TON traces.** A trace is served before it is complete, from shard blocks that
  may be replaced, by two providers with formats and delays of their own.
- **Prerequisites (Tron, Stellar).** An approval is reset to zero, then set, and
  the code waits a fixed time in between; a trust line is looked at long before it
  is relied on.
- **Coin selection and PSBTs (UTXO).** Fees depend on the number of inputs, which
  depends on the fees; amounts are checked against parents that are fetched later.
- **Registries and caches.** Two registries that must agree; a cache of promises
  that may be rejected while they are shared; a parameter that is read once.

What makes each component correct is the property of its module, below.

## 2. Modules

| Module | What it models |
|---|---|
| `PaymentOnce` | The abstract promise: a payment has at most one request that can still pay it, and is paid at most once |
| `BalanceChanges` | `AssetBalanceChange.upsert`, the conversions of amounts, `resolveTransferAmount`: operators all chains share |
| `StatusBatch` | A list of hashes handed to `getTransactionStatus`: workers, cursor, signals, deadlines |
| `Registries` | Network types, Bitcoin parameters, the constructors that enter them, `addressFor` |
| `TonReplies` | How the SDK reads a provider's reply to a broadcast |
| `TonRequests` | One TON wallet's requests: signing, broadcast over two providers, `getRequestState`, status, and the wallet contract they land on |
| `TonTrace` | The trace of a request as it runs over shards and is served, the verdict on it, balance changes, an account's transfers, simulation |
| `EvmStatusWait` | One EVM transaction waited for to a depth, over a chain that reorganises |
| `EvmPayment` | Nonces, broadcast and its classes of errors, over nodes with pools of their own |
| `EvmBuild` | `suggestGas`, a transfer and a general transaction with its authorizations, and whether it can still be included |
| `EvmChanges` | What one status read tells of a transaction: verdict, fees, changes |
| `SolanaPayment` | One payment and the transactions signed for it: blockhashes, both broadcast paths, status, expiry |
| `SolanaWait` | `getTransactionStatus` with its options, over a chain that forks and finalizes |
| `SolanaBuild` | A transfer from its request to the block: decimals, the recipient's account, compute budget, blockhash, signatures |
| `SolanaChanges` | The changes decoded of pre and post balances, over lookup tables and token accounts that open and close |
| `SolanaBundle` | `submitJitoBundle`, `getBundleStatus` and the rows of a reply |
| `TronPayment` | Build, sign, broadcast and status of payments that only a clock voids |
| `TronApprove` | The approve prerequisite with its reset to zero |
| `TronChanges` | Changes and fees of a transaction in a block, and the cached chain parameters |
| `TronTransfer` | A transfer from the request, or JSON, to the bytes that are signed and the canonical transaction that is shown |
| `StellarPayment` | Sequence numbers, time bounds, submission and what its reply means |
| `StellarTokens` | The LRU cache of token promises |
| `StellarChanges` | Predicted changes (operations, events) and told changes (effects) |
| `StellarTrust` | The trust line prerequisite of several callers |
| `UtxoCoins` | Sizes, fees and coin selection as functions |
| `UtxoTransfer` | A transfer, or an assembled transaction, from listed coins to the broadcast |
| `UtxoReads` | A status over three kinds of provider; the import of a watched address |
| `*MC` | Instances of the above for TLC |
| `*Proofs` | The theorems about the module of that name |

**Scenes.** The components of one chain share no state: a call of
`getTransactionStatus` reads the chain, and what it finds does not change how a
transfer is built.  One MC module per chain therefore plays its modules as
*scenes*: the first state picks one, its module moves, and the others keep their
first state, so that one run explores each module's own state space and no
product of them.  `Scenes` in a cfg names those a run plays.  Where modules do
interact they are composed: `TonRequests` uses `TonReplies`, the UTXO transfer
uses `UtxoCoins`, all changes use `BalanceChanges`, and `TonRequests` and
`SolanaPayment` implement `PaymentOnce` by `INSTANCE ... WITH`.

**Style.** An action is what runs from one `await` to the next: JavaScript runs
that far without interruption.  A guard the properties depend on is a small
operator with a name of its own (`Covered`, `MayReplace`, `ReachedSeqno`, ...).
Times are blocks or abstract units; hashes, keys and texts are model values.

### 2.1 Common: StatusBatch, BalanceChanges, Registries

*StatusBatch.* `cursor`, `results`, `aborted`, `settled` are the variables of
`runBatchStatus` and its promise; `worker` is where each `spawn` stands; `late`
is a fetch's deadline, `cancelled` the caller's signal.  `Return` stores, moves
the cursor and begins the next fetch in one step, because the code does.  A fetch
polls as `getSingleTransactionStatus` of EVM or Solana does with `wait: true`; a
batch without `wait` is one whose fetches end at their first read.  What a read
finds is left open.

- `BatchHolds` = `EachOnce` (every hash is fetched by one worker), `Complete` (a
  batch that resolves has each status at its own place), `RejectsWithCause` (the
  caller sees the error that stopped the batch and not the "aborted mid-poll" of
  the other workers).
- `NoReadAfterAbort`: after a failure no hash is taken up and no poll begins.
- `BatchEnds` (liveness): the batch settles and no worker stays behind polling.

*Registries.* `networkTypes` and `btcParams` are the two maps; `chains` those
constructed, each by `ConstructBtcChain`, `ConstructEvmChain` or
`RegisterNonEvmChain`, which may throw between the two registries as the code does.

- `ParsesAsBuilt`: an address is parsed under the parameters of the chain that was
  constructed for its id, whatever else was constructed or failed to be, as long
  as nobody removed an entry of the id.

### 2.2 TON: TonRequests, TonTrace

*TonRequests.* `now`, `view`, `ledger`, `failedRuns` and `pool` are the world (the
time of the block being built, the head each provider has come to, the requests
that consumed the wallet's seqno in order, relayed requests that ran and failed,
and the messages someone can deliver).  `req` is what was signed; `sending`,
`handed` and `returned` the broadcast calls; `call` the one `getRequestState` in
flight; `told` the answers the caller has had.

| Action | Code |
|---|---|
| `SignTransaction`, `SignAtSeqno` | `TonWallet.signTransaction`, `createExternalRequest`, `createInternalRequest` |
| `Broadcast`, `SendPrimary`, `SendFallback` | `TonChain.broadcast` over `TonFallbackProvider.sendBoc`: one step per request to a provider |
| `Ask`, `ReadSeqno`, `ReadTrace`, `ReadHead`, `ReadFails` | `TonChain.getRequestState`: one step per `await`; `ReadFails` is `onOneProvider` starting over on TonAPI |
| `ReadStatus` | `TonChain.getTransactionStatus`, final answers only |
| `HandToRelayer`, `Land`, `RunAndFail`, `Tick`, `Advance` | external: the relayer, the wallet contract, the chain and its providers |

The caller is the one the documentation describes: it signs a payment again only
after `expired`, a definite `BroadcastRejected`, or a final `Failed` of its own
external request (`MaySign`).  The environment is modelled from what the code and
its comments say of it:

- the wallet contracts refuse a request from `valid_until` on, and check in the
  order the comment at `ton_provider.ts:338` gives;
- a lite server runs a broadcast on the state it holds, which trails its head by
  at most `StateLag`; a provider's head moves by at most `Drift` during one
  `getRequestState`.  `REQUEST_EXPIRY_MARGIN_SECONDS` exists to cover both;
- the lite server's answers come with an error status, as the comment at
  `ton_provider.ts:360` says, so a 2xx with an `error` field is left out of
  `Exchanges` (`SendBoc` handles it);
- the reply may be lost at any point, and then the message may or may not have
  been taken.

Simplifications: `signTransaction` reads the seqno and signs in one step (the
chain may move between any two steps anyway, and a provider's state may be old);
`told` keeps every answer and a caller may act on any of them at any later time;
a refusal on the seqno check leads to no `told`, because it says nothing final.

- `PaidOnce`: a caller who follows the documentation never pays twice.
- `AnswersAreFinal` = `ExpiredNeverLands`, `RejectedNeverLands`; and
  `FailedNeverPays`: the answers after which it may sign again are final.
- `ConsumedIsPast`: `consumed` is true of the chain.
- `DefiniteRefusalSentNothing`: an error of `broadcast` other than "uncertain"
  hides no delivery, whatever happened on the first provider.
- `PaysAtMostOnce`: `TonRequests` implements `PaymentOnce`.
- `Decided` (liveness): a caller who keeps asking learns every request's end.

*TonMC* plays `TonRequests` with three sets of constants: the run's own (one request,
a fallback, clocks out of step), `W5` (two requests of one payment, no fallback) and
`Old` (a v3r2 or v4r2 wallet with one provider, any read of which may fail, whose request is
decided: `OldWalletDecides`).

*TonTrace.* `chain` holds the transactions of a trace, each in a shard block that
is committed to a masterchain block or may still be replaced (`Replace`); `coins`
and `jettons` are the balances they leave; `read` and `answer` the call in flight
and what was told.  `Take` runs one pending message through the phases the
outcome is read from (compute, action, bounce); `Replies` is what TON Center or
TonAPI may serve of the chain, with a branch left out (`gap`), a message missing
or altered, which `assertTraceConsistent` has to notice.  A reading starts with the trace (`Ask`):
`ReadTrace`/`ReadHead` are the two reads of a status, `GetAccountTransfers` that of the
transfers, kept at once for every account that may be asked for; `Emulate` is the
simulation.

- `VerdictIsTrue`: a verdict is given of a trace that ended and is as deep as it
  says, and is what the chain bears out: Success only of a request that did what it
  was signed for, Failed only of one that did not, with the fees and the changes
  of TON and jettons that the accounts saw.
- `FinalTransfersStay`: a transfer told as final is among the account's transfers
  once the trace has ended and is committed - but for a message shaped like a jetton
  transfer's in a trace that was not yet final (see section 5).

What is told is read once in a behaviour and then held against the ended trace.
Whether a jetton wallet is vouched for by its master is read live, not cached.
TonAPI's `master_ref` may lie before the committing block by `RefLag`.

### 2.3 EVM: EvmStatusWait, EvmPayment, EvmBuild, EvmChanges

*EvmStatusWait.* `tip` and `hist` are the chain: `hist[t]` is where the chain
whose tip is at height `t` has the transaction.  A block may replace up to
`MaxReorg` blocks, and the transaction may be included anew, elsewhere or with
another outcome.  `step`, `last`, `late`, `aborted` are
`getSingleTransactionStatus`; `asked` is the tip at the status read.  Each read is
answered by a node up to `Lag` blocks behind.

- `SuccessIsFinal`: if the confirmations exceed `MaxReorg + Lag + Drift`, a status
  the wait returns is, and stays, the canonical chain's.
- `WaitEnds` (liveness): the wait ends, mined or not.

*EvmPayment.* `chain` is the account's transactions in blocks, `seen` and `pool`
what each node knows.  `Sign` takes `getPendingNonce` of some node, `Replace` signs
under a nonce that is taken; `broadcast` sends the bytes to a node, whose reply
(`NodeReplies`) passes through `classify`, the translation of
`classifyBroadcastError` of message texts to errors; `Gossip`, `Land`, `SeeBlock`,
`Evict` are the nodes'.  The caller sends the same bytes again while it is unsure
and signs a payment under another nonce only after all that was sent for it was
refused outright.

- `PaidOnce`: a payment is made at most once, though its transactions are sent
  again, replaced, evicted, and signed anew.
- `AnswersHold`: `NonceTooLow` is told only where a transaction with the nonce is
  in the chain, and what was only ever refused is nowhere and will be nowhere.

*EvmBuild.* `suggestGas` over a fee history, then blocks that raise the base fee by
12.5 %, then `Build` of a transfer or a general request.

- `BuiltToLast` = `FeesLast` (the suggested cap still pays the base fee after up to
  `WaitBlocks` full blocks, and nine in ten of the sampled blocks took the tip) and `BuiltAsAsked` (a transfer moves
  the amount in the token's own decimals, every authorization is one the EVM
  applies, or nothing is built).

*EvmChanges.* The reads of `getTransactionStatusOnce` (transaction and receipt
together, the fee of layer 1, the trace of internal calls), each of which may fail
or come from a node that has not the block yet.

- `ChangesAreTrue`: the changes of a success are what moved less the fees that are
  told; with internal transfers all of it, and otherwise all but those.  What moved is
  summed row by row, without `upsert`, so a gathering that loses or doubles an entry
  whose sum passes over zero shows.

### 2.4 Solana: SolanaPayment, SolanaWait, SolanaBuild, SolanaChanges, SolanaBundle

*SolanaPayment.* `height`, `landed`, `fate` are the chain; `born` is the height of
a transaction's blockhash (`lastValidBlockHeight` is `born + Window`); `sent` says
that a leader may have it; `past` and `told` are what its caller has seen.

| Action | Code |
|---|---|
| `Build` | `createTransferUnsignedTransaction`, `refreshBlockhash` |
| `Broadcast`, `BroadcastFails` | `broadcast`, direct or `via: 'jito'`; `classifyBroadcastError`, `submitJitoBundle` |
| `SeesPast` | `getChainTipHeight()` compared with `lastValidBlockHeight` |
| `ReadStatus` | `getSolanaStatusOnce`: `getTransaction` and `getSignatureStatus`, from a node each |
| `Block`, `Preflight`, `Engine` | external: the chain, a node's preflight, the block engine |

`Rule` is what lets the caller sign anew: `"expiry"` is what the documentation of
`getChainTipHeight` and of `NotFound` describes (the height past the last valid
block, then no status), `"error"` is `isBlockhashExpiredError`.

- `PaidOnce`, `PaysAtMostOnce`: by the first rule the payment is made once at most.
- `DeadNeverLands`: no status past the last valid block by `Margin`, with
  `Lag <= Margin + 1`, means the transaction is not on the chain, seen or unseen.
- `ExpiredIsOver`: what `BlockhashExpired` was said of does not land *any more*
  (it may have landed).
- `Decided` (liveness): the caller of a built transaction comes to know its end.

*SolanaWait.* One transaction, blocks that include it, votes that confirm and
finalize, and a fork that takes it back while it is only processed; a call of
`getTransactionStatus` with every combination of its options, its two reads per
poll, its check of finality, its deadline and its abort signal.

*SolanaBuild.* `Ask`, `Probe`, `Build`, `estimateAndApplyCu`, `refreshBlockhash`,
`finalizeAndSerialize` and `Execute`, one step per `await`; `OthersMove` opens and
closes the recipient's token account in between.

*SolanaChanges.* A transaction pays, transfers tokens, opens and closes token
accounts, and is sealed with its metadata (keys, pre and post balances, entries
with or without owners, an unresolved lookup table), which `Decode` turns into
changes.

*SolanaBundle.* Bundles land, fail or vanish; `getBundleStatus` asks of several and
reads rows that come in any order, with rows missing and errors in any shape.

- `StatusesAreTrue` = `SettledIsTrue` (for 32 confirmations, waited for or told,
  the verdict is what the transaction came to and stays at), `ChangesAreTrue` (of
  accounts and owners, as the node tells them), `BundleStatusIsTrue` (landed only
  when in a confirmed block, failed only when it will not be).
- `LandsAsBuilt` = `LandsUnlessChanged` (a transfer that lands fails only because
  the recipient's account changed after it was probed or estimated) and
  `BuiltAsAsked` (it moved what was asked for, in the mint's units, under the
  blockhash and the signatures it was built for).
- `WaitEnds` (liveness): a call returns or throws, also of a transaction that is
  never found or never finalized.
- `ReadsAreTrue` does not hold of `getBalance`; see section 5.

### 2.5 Tron: TronPayment, TronApprove, TronChanges, TronTransfer

*TronPayment.* `now` and `skew` are the chain's clock and the client's error;
`tx` is a `TronTransaction` from `Create` over `Sign` to `Post` and `Reply`;
`pool`, `landed`, `paid` are the nodes'.  `Create` sets the expiration by the
client's clock; `GetTransactionStatus` answers from a view behind by at most
`MaxLag`.  The caller gives a transaction up when it `SeeFailed`, `SeeRejected`, or
`SeeNotFound` after its expiration and a `Grace`, and only then builds another.

- `PaidOnce`: a payment is made once, also when it was signed by several keys, sent
  again, refused by one node and held by another.

*TronApprove.* `ReadAllowance`, `Reset`, `NoSleep`/`Slept`/`Wake`, `Approve` are
`handleTransactionPrerequisite`; approvals `Land` or are lost in the order the
blocks take them.

- `ApprovesInOrder`: only a reset that is late harms the approval.  Once the amount
  is approved no other is under way that would undo it, and a strict token refuses the
  amount only where the reset was late or had no effect.  The wallet sleeps for three
  blocks, and an approval lives for 60 s, so for about twenty.
- `ResetComesFirst` (no exception for a late one) does not hold; see section 5.

*TronChanges.* The transaction and its info are two reads, either of which may find
nothing; the price of energy is read once in the life of a chain and may change.

- `ChangesAreTrue`: the changes of a success are what the chain moved, under any
  filter; without the transaction itself they credit nobody with more than arrived.

*TronTransfer.* Raw data is a contract's type and its fields, each with its JSON
type; `encodeTronRawData` and `parseTronCanonicalTransaction` are modelled by which
fields they take, refuse and carry.

- `SignedIsShown`: no other raw data with the encoding that is signed says anything
  else than what was shown; and it pays what was asked for, to the minor unit.

### 2.6 Stellar: StellarPayment, StellarTokens, StellarChanges, StellarTrust

*StellarPayment.* `ledger` and `ingested` are the chain and what Horizon has read
of it.  `LoadAccount`, `GetBaseFee`, `Prepare`, `CheckMemoRequired`, `Post`, `Reply`
are one transaction's calls; `Apply`, `Forget`, `Expire`, `Ingest` the network's.
`Rule = "any"` is a caller who signs and sends whatever it likes; `"ask_first"` is the
one that `docs/stellar.md:58` describes, who asks for the status of what it signed for
a payment before it signs the payment anew.

- `PaidAgainOnlyIfShown`: of any caller, when two transactions of a payment are paid,
  Horizon showed the first as paid when the account was loaded for the second.
  Otherwise the two have one sequence number, or the second's comes too late.
- `PaidOnce` does not hold of the caller who asks first; see section 5.
- `AnswersHold`: what broadcast says was sent was paid; what Horizon rejected is neither
  paid nor under way; and neither is what was refused for want of a memo before it was
  ever posted (after that, see section 5).  A status that is final stays.

*StellarTokens.* `cache` is the LRU map in order of use, `promise` the calls it
shares, and each failed promise's handler runs later.

- `CacheHolds`: a failure is forgotten once its handler ran, by itself and by
  nothing else; a promise that has not failed stays until it is the oldest of a
  cache that is full.

*StellarChanges.* `Simulate` predicts a transaction's changes from its operations or
its events, `Apply` executes it into effects, `GetTransactionStatus` reads a page of
them.

- `ChangesHold`: what was predicted is what is told, up to the part of the fee that
  was not charged (of path payments it is a bound), and the changes of the native
  asset come to the fee, also where an account was created.

*StellarTrust.* Three callers of `ensureMinimumTrustLine`, of a swap and of
transfers, and others who close the line; Horizon trails.

- `LineHoldsUntilChanged`: a swap or a payment that finds no room on the line was
  not told the line is there, or somebody else changed it since it was looked at; and a
  line that is high enough is changed only where somebody else changed it between the
  look at it and the loading of the account: later changes void the stale one by its
  sequence number.

### 2.7 UTXO: UtxoCoins, UtxoTransfer, UtxoReads

*UtxoCoins.* `Recurse` is one call of the branch and bound's `recurse`, and
`branchAndBound` the search as a recursive function over its calls and what they keep
(`SearchState`); `accumulatorFallback`, `finalize` and `selectCoins` are around it.
Sizes are in half vbytes.

*UtxoTransfer.* What a provider, or the caller of `assembleTransaction`, says of a
coin is a *claim*, whose value, owner or parent may be wrong.  `BuildTransfer`,
`ResolveFeeRate`, `ListCoins` (which leaves out coins in the index of asset-bearing
ones), `FetchParents`, `AssembleTransaction`, `SignWith`, `Finalize`, `Broadcast`
are the calls, one step per `await`; `Mine` is the network's.

- `SelectionSound`: what is selected pays the target, the change and a fee that
  covers every input and output it adds; and of all sets of coins that match without
  change, checked one by one, none is nearer to the target than what the branch and
  bound found.
- `ChangeIsRelayed` (no change below the dust limit) does not hold; see section 5.
- `SignsAndPays` = `PaysReportedFee` (what is finalized pays the fee it reported,
  whatever was claimed wrongly) and `AssembledSigns` (what `assembleTransaction`
  built passes the checks of signing: the two sets of checks agree).
- `AnswersAreTrue`: an answer of broadcast that is final is true of the network.

*UtxoReads.* `Ask`, `ReadTip`, `ReadTx`, `ReadParents`, `ReadHex` are the requests of
one status over `esplora`, `core` and `bareCore`; blocks and replacements come in
between.  `GetUtxos` and its steps import an address into the node's wallet.

- `ReadsAreTrue` = `StatusIsTrue` (`NotFound` only of what the node did not have,
  `Pending` only of what was not confirmed when the call began, no more
  confirmations than there are, changes that add up to the fee) and `WatchedIsImported` (coins are
  never listed from a wallet that does not know the address).

## 3. Runs

| Run | Expected | What it shows |
|---|---|---|
| `ton` | pass | Four scenes: one W5 request with TonAPI behind TON Center and clocks out of step, where every answer that lets the caller sign again is final and a definite refusal after a fallback hides no delivery; two requests of a W5 wallet for one payment, external or relayed, broadcast, asked about and replaced while providers lag, which never pay twice and implement PaymentOnce; a request of a v3r2 or v4r2 wallet, which under fair polling of one provider is decided; and the trace of a request that ran, read by either provider while shard blocks are replaced, replies lack branches and the masterchain moves on: the verdict is what the request did, and a transfer that is final stays. |
| `ton_lost_body` | violation | A broadcast whose reply's body is lost rejects with fetch's own error although the message reached the network. |
| `evm` | pass | Four scenes: a wait whose receipt and tip come from nodes that trail while the chain reorganises; two payments with three transactions over two nodes that lose answers, replace and forget; transactions read with and without internal transfers, one of them of an asset whose changes pass over zero; and what is built of requests while the base fee rises. |
| `solana` | pass | Five scenes: a payment signed a second time, over nodes that trail and replies that are lost, only past the last valid block of the first with no status found; the wait for a status over a fork; a transfer whose recipient's account others open and close; the changes of a transaction over accounts of lookup tables; and bundles whose rows come in any order. |
| `solana_balance` | violation | A token account's balance reads as zero when the node fails to answer, and not as a read that failed. |
| `utxo` | pass | Four scenes: two transfers over one list of coins whose values, owners and parents may be claimed wrongly, from request to block; a status read over three kinds of provider beside two callers who need an address watched; chains constructed and removed for a reserved id and free ones; and a batch of five hashes for three workers, with fetches that poll until a deadline and a caller who may cancel: no hash is lost or fetched twice in any order of the answers, and whatever fails, the batch settles with the error that caused it and no worker goes on polling. |
| `utxo_timeout` | violation | A broadcast whose HTTP client times out is told as BroadcastRejected, although the node took the transaction. |
| `utxo_dust` | violation | A selection gives a change of 470 satoshis, below the dust limit of 546: what is left over is compared with the cost of a change output. |
| `stellar` | pass | Four scenes: two payments over two transactions of one account, whatever their caller signs, sends again and asks for; the cache of tokens with calls that fail late; the predicted and the told changes of a transaction; a trust line under callers who open, close and count on it. |
| `stellar_ask_first` | violation | A caller who asks for the status before it signs anew pays twice: Horizon answers not found of a transaction that is applied after, and the account is loaded once that is ingested. |
| `tron` | pass | Payments with two transactions under a clock off by one and a node behind by one, an approval with and without a reset, which may land, fail or be lost before or after the wallet woke, transactions of every kind that are read back, and transfers from the request or from JSON to the signature: a payment is made once, approvals take effect in their order but where the reset was late, changes are what was moved, and what is signed is what was shown. |
| `tron_reset` | violation | The amount is approved while the reset is still under way: it lives for twenty blocks, and the wallet sleeps for three. |

The bounds, and why they are enough:

- *TON requests.* Two requests of one payment are what a double payment needs; the
  margin is tight at `StateLag + Drift <= Margin + 2` (both comparisons are strict),
  and `ton` runs at `Margin = 0`, `StateLag = Drift = 1`, where one step more is
  a violation.  The second request is signed after the first (`InOrder`): they are
  told apart by nothing else.  A request lives one or two steps, `MaxTime` leaves time for its
  whole life, the margin, and a replacement's.
- *TON traces.* Six transactions hold a jetton transfer from the wallet over both
  jetton wallets to its notification and its excesses, or a bounce; two masterchain
  blocks hold a trace that is committed in parts.
- *EVM.* `Confirmations = 4` against `MaxReorg = Lag = Drift = 1` is the least
  number that covers them; after three a status that was returned can change.  `MaxTip = 6` holds
  an inclusion, its depth and a reorganisation after it.  Three transactions for
  two payments allow a replacement and a payment signed anew; two nodes, one that
  knows what the other forgot.
- *Solana.* `Lag = 1`, `Margin = 0` is the equality of `Lag <= Margin + 1`.
  `BuildUntil` and `MaxHeight` leave a second transaction its whole window and the
  caller the blocks to see it pass.  One fork is enough to take a status back; two
  changes by others open and close an account.
- *Tron.* `MaxSkew = MaxLag = 1`, `Grace = 2` is the equality that
  `GraceIsEnough` asks for.  The sleep of 3 blocks and the life of 20 blocks of an
  approval are the code's.
- *Stellar.* Two transactions are what paying a payment twice needs, or two payments
  that void each other.  A cache of two with three contracts and four promises evicts, hits and
  reloads; three callers are one more than an interference needs.
- *UTXO.* Two transfers over one list of coins conflict; the values of the coins sit
  around the points where the cases of the selection differ.  The batch has five
  hashes for three workers: more hashes than workers, so that the cursor is moved
  by a worker that finished, and one that fails while another reads and a third
  sleeps.
- `CHECK_DEADLOCK FALSE` everywhere: time and height are bounded, and a batch, a
  wait or a transfer that is settled stops.
- Symmetry only of transactions or requests that the module tells apart by nothing
  but their records, and in no run with a liveness property.

Fairness, where a run needs it:

- *Batches, waits of EVM and Solana:* a read, a sleep and a deadline end (weak).
  Nothing is assumed of the chain or of what is read.
- *TON (`OldWalletDecides`):* time passes (weak), a provider that can advance does so again
  and again and a read that is asked for again and again is answered (strong: any
  one read may fail), and the caller keeps asking.
- *Solana (`Decided`):* blocks come (weak); a caller that keeps asking meets a node
  with something new (strong).

Every property of a passing run has a mutant in `PROJECT.json`: a definition of the
model changed the way a bug in the code would, under which TLC finds the property
violated.

## 4. Proofs

Every theorem holds for all values of the constants the module's `ASSUME` admits.

| Module | Theorem | Property | What it says |
|---|---|---|---|
| `TonProofs` | `TypeCorrect` |  | Every reachable state is well typed, for any numbers of requests, payments and providers' reads. |
| `TonProofs` | `Invariance` |  | The inductive invariant: while the margin covers the providers' lag and drift, what was told is true of the chain and a payment has at most one request outstanding. |
| `TonProofs` | `NeverPaidTwice` | `PaidOnce` | A caller who signs a payment again only when told that is safe never pays it twice. |
| `TonProofs` | `ExpiredIsFinal` |  | A request answered expired has not landed and never will. |
| `TonProofs` | `RejectedIsFinal` |  | A request refused with BroadcastRejected has not landed and never will. |
| `TonProofs` | `AnswersFinal` | `AnswersAreFinal` | Whatever version the wallet is, both answers after which a caller may sign anew, expired and rejected, are final. |
| `TonProofs` | `RefusalSentNothing` | `DefiniteRefusalSentNothing` | When a broadcast ends with a definite refusal, no provider it asked gave the request to the network. |
| `TonProofs` | `ImplementsPaymentOnce` | `PaysAtMostOnce` | Every step of TonRequests is a step of PaymentOnce or a stutter: a request that is signed for a payment is one more try, and one that is over gives its try up, so a payment is made by one of them at most. |
| `TonProofs` | `FailedIsFinal` | `FailedNeverPays` | An external request whose status is Failed has paid nothing and never will. |
| `TonProofs` | `ConsumedIsTrue` | `ConsumedIsPast` | When no relay's hash is passed, consumed means the wallet's seqno has moved past the request's. |
| `TonProofs` | `TransfersAreKept` | `FinalTransfersStay` | A transfer told as final is among the account's transfers once the trace ended and is committed, and transfers told as settled are all of them, whatever a provider left out or was behind, but for a jetton-shaped message of an open trace. |
| `TonProofs` | `VerdictsAreTrue` | `VerdictIsTrue` | A verdict is given of a trace that ended, as deep as it says, and is Success just of a request that did what it was signed for, with the fees and the changes of TON and jettons that its transactions made. |
| `StatusBatchProofs` | `TakenOnce` |  | For any number of hashes and workers no two workers hold one hash and no stored status is fetched again. |
| `StatusBatchProofs` | `ResolvesComplete` |  | A batch that resolves has every hash's own status at its own place. |
| `StatusBatchProofs` | `RejectsTruly` |  | The caller never sees the errors of the workers a failure stopped. |
| `StatusBatchProofs` | `AbortStops` | `NoReadAfterAbort` | Once a batch has failed, no worker takes up a hash or begins a poll. |
| `StatusBatchProofs` | `BatchIsRight` | `BatchHolds` | The three together: for any number of hashes and workers, a batch resolves with every hash's own status, read once, or rejects with the error that stopped it. |
| `EvmProofs` | `WaitInvariance` |  | The inductive invariant: what is deep on one chain of the nodes is on all later ones, and a receipt that was read is of one of the nodes' chains. |
| `EvmProofs` | `ReturnedIsFinal` | `SuccessIsFinal` | For every depth of reorganisation, lag and number of blocks between the reads that the confirmations cover, the status the wait returns is the canonical chain's. |
| `EvmProofs` | `PaysOnce` | `PaidOnce` | A payment is made once at most by a caller who sends the same bytes again, replaces them under their nonce, and signs anew only what was refused: for any number of payments, transactions and nodes, where a failure of the endpoint shows as one. |
| `EvmProofs` | `AnswersAreTrue` | `AnswersHold` | What broadcast says is true: a nonce it calls too low is taken in the chain, and what was only ever refused is in no block and in no pool, whatever is sent again, replaced or forgotten later. |
| `EvmProofs` | `WhatIsBuiltLasts` | `BuiltToLast` | The suggested cap pays the base fee through every row of full blocks a caller waits and the tip is one that nine in ten of the sampled blocks took, and what is built moves the amount that was asked in the token's own decimals, with authorizations the EVM applies: for any fee histories, tiers, chains, tokens and requests. |
| `SolanaProofs` | `Invariance` |  | The inductive invariant: landed transactions are within their window, and what a caller was told is true and stays so. |
| `SolanaProofs` | `DeadIsDead` | `DeadNeverLands` | Past the last valid block by a margin that covers the nodes' lag, a status that is not found means the transaction is not on the chain and never will be. |
| `SolanaProofs` | `PaysOnce` | `PaidOnce` | For any number of transactions signed for one payment by the height and the status, one at most makes it. |
| `SolanaProofs` | `ExpiredStaysOff` | `ExpiredIsOver` | What BlockhashExpired was said of does not land any more. |
| `SolanaProofs` | `ImplementsPaymentOnce` | `PaysAtMostOnce` | Signing anew only past the last valid block, with no status found, implements PaymentOnce step by step: a transaction that expired gives its try up before the next one takes one. |
| `SolanaProofs` | `StatusesHold` | `StatusesAreTrue` | For any options, forks, lag, accounts, mints, fees and bundles: Success and Failed are what a transaction came to and stays at, in a finalized block where 32 confirmations were waited for or told; a bundle is told to have landed or failed only when it has; and the changes decoded from a transaction are what every account gained in lamports and every owner in tokens, the fee apart. |
| `SolanaProofs` | `BuildsLand` | `LandsAsBuilt` | A transfer that was built lands, moves what was asked in the mint's units and is signed and paid for by whom the request named, unless others changed the recipient's account after the probe or the estimate: for any requests, costs of computing, and changes of the account. |
| `UtxoProofs` | `AddressesParseAsBuilt` | `ParsesAsBuilt` | Every address is parsed under the parameters its chain was constructed with, as long as no entry of its id was removed: for any ids, seeds, families, shapes and number of chains, whichever constructions failed between the two registries. |
| `UtxoProofs` | `SignedPays` | `SignsAndPays` | Whatever a provider or a caller claims of coins, owners and parents, what is finalized pays the fee it reported, and what assembleTransaction built passes the checks of signing: for any coins, amounts, rates and number of transfers. |
| `UtxoProofs` | `SelectionsAreSound` | `SelectionSound` | What is selected pays the target, the change and a fee for every input and output; a choice without change is made where one exists, and none of them is nearer to the target than what the branch and bound found: for any coins, values, requests and rates and any number of transfers, where the coins are few enough for its limit of iterations. |
| `UtxoProofs` | `BroadcastsAreTrue` | `AnswersAreTrue` | A final answer of broadcast is true of the network, when its HTTP client does not time out. |
| `UtxoProofs` | `StatusesAreTrue` | `ReadsAreTrue` | NotFound is only of what the node did not have, Pending only of what was not confirmed when the call began, no more confirmations are told than there are, the changes of a success add up to the fee that is lost, and coins are never listed from a wallet without the address: for any inputs, outputs, callers and chain. |
| `StellarProofs` | `PaidAgainIsShown` | `PaidAgainOnlyIfShown` | Of one payment two transactions are paid only where Horizon showed the first as paid when the account was loaded for the second: for any caller, by any rule, and any number of payments, transactions, fees and losses. |
| `StellarProofs` | `AnswersAreTrue` | `AnswersHold` | What broadcast says was sent was paid; what Horizon rejected, or was refused for want of a memo before it was ever posted, is neither paid nor under way, whatever is sent again later; and a status that is final stays: for any caller. |
| `StellarProofs` | `TypesHold` |  | Every state of StellarPayment is of its types. |
| `StellarProofs` | `LineCountedOn` | `LineHoldsUntilChanged` | A swap or a payment that finds no room on the receiver's line was not told that the line is there, or somebody else changed the line since it was looked at; and a caller who sets the limit of a line that is high enough does so only where somebody else changed the line between its look at the line and the loading of its account: for any number of callers that the limit covers, and any calls they make. |
| `StellarProofs` | `CacheIsKept` | `CacheHolds` | A failed promise of a token is out of the cache once its handler ran, no contract has two entries, and nothing else leaves but the oldest entry of a cache that is full: for any contracts, any size and any order of calls, failures and handlers. |
| `StellarProofs` | `ChangesAreHeld` | `ChangesHold` | What simulateTransaction foresees is what getTransactionStatus tells, up to the part of the offered fee that was not charged, of path payments a bound on it; and unfiltered, what accounts gained and lost of the native asset comes to the fee: for any operations that fit in a transaction, any filters and any fee. |
| `TronProofs` | `PaysOnce` | `PaidOnce` | A payment is made once, for any number of payments and transactions, and any lags, clock errors and lifetimes that the grace covers. |
| `TronProofs` | `OverIsOver` |  | What the caller gave up, as failed, rejected, or not found past its expiration and the grace, is never executed. |
| `TronProofs` | `TypesHold` |  | Every state of TronPayment is of its types. |
| `TronProofs` | `ApprovalsAreInOrder` | `ApprovesInOrder` | Only a reset that lands, fails or is lost after the wallet may have woken harms the approval: once the amount is approved no other reset is under way that would undo it, and a strict token refuses the amount only where the reset was late or had no effect; for any sleep and any lifetime of an approval. |
| `TronProofs` | `WhatIsSignedIsShown` | `SignedIsShown` | No raw data with the encoding that is signed reads as anything else than what was shown, whatever came as JSON; and the transfer pays what was asked for: the amount to the minor unit through its human-readable form, at most the balance where all of it was asked for.  For any assets, balances, requests and raw data. |

How they go:

- `Sums` is the library the others cite.  The sum of a function over a finite set, and
  a fold of `upsert` over rows, are recursions over a CHOOSE, which induction cannot be
  used on here; they are taken apart by the least size at which two solutions of the
  recursion could differ (`LeastNatural`, `SolutionsAgree`).  From there: a sum without
  one element, by classes (`SumByClass`), of differences, with its terms named anew or
  cancelled in pairs (`SumReindexed`, `SumCancels`), and what a gathering of balance
  changes comes to for every owner and asset (`GatheredGains`); changes that say the
  same of every owner and asset are the same (`ChangesAgree`).
- `TonProofs`, *requests*: the inductive invariant `IInv` is the type invariant with
  six parts.  `ViewInv` (a provider's head is before the block being built),
  `LedgerInv` (the i-th entry consumed seqno i - 1 before its request lapsed, in
  order of time), `KindInv` (only signed requests travel, only relayed ones run and
  fail), `CallInv` (a call past its seqno read: the seqno had not moved in a state
  at most `StateLag` behind the head of that moment, and the head has moved by at
  most `Drift` since), `ToldInv` (each answer is true of the chain) and
  `ReplaceInv` (of two requests of one payment, one is settled).  `PaidOnce` alone
  is not inductive: that a replaced request can no longer land rests on `ToldInv`,
  and that on what `CallInv` carried from the seqno read to the head read.
  `RefusalSentNothing` needs `HandedInv`: a call that handed the message to the network
  goes on to the fallback, and remembers it until it ends.
  Assumption: `MarginCovers`; for `ConsumedIsTrue` that no relay's hash is passed.
- `TonProofs`, *traces*.  `Tree` holds of the chain: every transaction but the root took a
  message that its parent sent (`Hangs`) and sent what the account it reached may send
  (`Reacts`: one bounce at most, onward jettons only for a transfer), a committed one has
  a committed parent, and messages have the senders their kinds allow (`Routed`).
  `Reply` says what a provider's reply shows after `assertTraceConsistent`, whatever it
  suffered: transactions of the chain as they ran, numbered within `RefLag` of their
  block.  A complete one has all of them (`WholeReply`): the parent of the missing
  transaction with the shortest place is there, and one of its messages would have no
  receiver.  Trees are taken apart by the shortest place throughout, since induction over
  them is not at hand.
  `TransfersAreKept` adds `Firm`: what was told as settled is all of the ended trace, and
  otherwise each final transfer that no jetton transfer can be made of is among the
  whole tree's, final there too.  A transfer is read from one transaction and the
  messages around it, and these are alike in the reply and in the chain (`Keeps`, `Twins`).
  `VerdictsAreTrue` adds `Gains` (the balances are the sums of what each transaction
  moved, also after one is replaced), `ReadIsWhole` (a trace that waits for the head is the
  whole committed one, so the chain under it stands still) and `Judged`.  `CoinsPayFees`
  pairs each message's value as it is sent with the same value as it arrives, which leaves
  the fees; `JettonsAreTold` shows that the credits the master vouches for are the landings
  at a true jetton wallet; `JudgedAsDone` follows a message one hop, or two for jettons.
  No assumption is added to those of `TonMC`: bounds are natural numbers, and a reply
  suffers one of the three faults at most.
- *The refinements of `PaymentOnce`* (`ImplementsPaymentOnce`, TON and Solana) are
  step simulations: `PromiseSign` / `OnceBuild` show that whoever signs anew gives the
  earlier try up, since its request is settled in the invariant; landing is delivery;
  every other step stutters.  What the abstract side counts are cardinalities of sets
  of the ledger, so each step also shows that these sets are finite and by how much
  they grow.
- `StatusBatchProofs`: `TakenInv` (every hash below the cursor is held, stored or
  its worker failed), `StopInv` (a failed worker means the batch is aborted) and
  `CauseInv` (a worker that fails as stopped was stopped by a failure or the
  caller).
- `EvmProofs`, *payments*: `PlaceInv` (the i-th transaction of the chain has nonce i - 1
  and was not only refused), `HeldInv` (nor was what a node holds) and `NonceInv`
  (of a payment's transactions those that were not refused share a nonce).  Two
  transactions of one payment in the chain would then have one nonce and so one
  place.  `AnswersAreTrue` adds `UsedInv`: no node has seen more than the chain, and a
  nonce told of as used is below its length.  Hypothesis `FailuresShow`: an endpoint
  that fails says so (`lost`, `rate_limited`, `gateway`; see section 6 for the fourth).
- `EvmProofs`, *the wait*: `DeepStays` (what is deeper than `MaxReorg` on one chain
  is on every later one), `ReceiptInv` (the receipt in hand is of one of the last
  `Lag + Drift` chains) and `ReturnInv`.
- `EvmProofs`, *the building*: `FeesInv` (what was suggested was computed from the history
  that stands, and `Risen`: after w blocks the base fee is at most (9/8)^w times the first
  plus w, and (9/8)^5 < 2).  `SortedIs` says of the order statistic that `Sorted` chooses
  that it exists and how many are at or below it, and `TipIsTaken` that nine in ten of
  the sampled tips are.  Assumption `FeesAreAmounts`: fees are integers, a multiplier is
  100 % at least, and a caller waits 5 blocks at most.
- `SolanaProofs`, *payments*: `ChainInv` (a blockhash was final when taken; a
  transaction lands in its window), `ToldInv` and `ReplaceInv`.  Assumptions:
  `MarginCovers`, and for `PaysOnce` and the refinement the rule `"expiry"`.
- `SolanaProofs`, *what is told* (`StatusesHold`) has three invariants.  `WaitInv`:
  what nodes have seen in a block is in one, with the same outcome, and what was seen
  finalized stays so (`SeenInv`); what a call has read and may return agrees with that
  (`CallInv`).  `BundleInv`: a status that was told is true of its own bundle
  (`RowIsTrue`: the row found by id, in whatever order and with whatever gaps the
  engine answers).  `ChangesInv`: while a transaction runs, what its accounts held
  before and hold now differ by what was moved; then `NativeGains`, `TokenGains` and
  `DecodedGains` say what the decoder's two passes over keys and token entries add for
  an owner and an asset, and the sums of both sides are equal.  Assumptions on the
  instances: `AccountsAreKnown` (a message names each account once, and its first key
  is a wallet that pays) and `CountsAsked` (confirmations are natural numbers).
- `SolanaProofs`, *the building* (`BuildsLand`): `TxInv` (the transaction transfers, opens
  the account where it must, has no instruction twice, and its limit suffices as it was
  given, and for the account as it was when it was estimated) and `BuildInv` (as long as
  nobody changed the account, it is as the probe found it).  `MadeOf` says of the three
  parts of a message what they are together.  Assumption `RequestsAreFormed`: a limit
  that is asked for covers a transfer and the opening of its account.
- `TronProofs`: `LandInv` (what was executed was in a block before its
  expiration), `ToldInv` and `TakenInv` (what a node holds was told of as open, or
  its caller is waiting), `OverInv` (what the caller gave up was not executed and
  cannot be) and `ReplaceInv` (of two transactions of a payment one is given up).
  Assumption `GraceIsEnough`: the grace covers the clock's error and the view's lag.
  For the approve prerequisite `ApproveInv`: what was sent by which step (`SentInv`), a
  reset waits as long as the wallet sleeps, and is over or late when it wakes
  (`SleepInv`), and then there is nothing to reset, or the reset was late or had no
  effect (`ResetInv`); nothing is assumed of how long approvals take.  For the
  transfer `EncodingTells` reads off an encoding, field by field, what the canonical transaction says, so two raw data of one encoding say the
  same; `AmountIsAsked` rests on `MinorUnitsReadBack` (of `Sums`: minor units written as
  a decimal and read back are what they were).  Assumption `RequestsAreFormed`:
  decimals from 0 to 9, and balances that are amounts.
- `StellarProofs`: `LedgerInv` (the i-th entry of the ledger has sequence number i),
  `SeqInv` (nothing is prepared beyond what Horizon knows of) and `ShownInv` (what was
  paid of a transaction's payment at the places before its own was shown when its
  account was loaded): all those places were taken, and known to Horizon, by then, and
  what comes later comes behind.  `AnswersInv` is for what broadcast and the status
  say.  For the trust line `LineInv`: a caller's change of the line is after what it looked at and has the limit
  it computed (`OrderInv`), each transaction is applied once (`OnceInv`), who changes
  the line saw it too low or closes it (`LowInv`), and whoever needs a line and is past
  its prerequisite saw it there, or applied, or was told of an error (`ToldInv`).
  `NoOwnSince` is the sequence number at work: one that is still the next was loaded
  behind all of the wallet's own transactions, so nobody changed the line since
  (`NoChangeSince`).
  Assumption `LimitIsFar`: one payment of each caller fits under the greatest limit.
  For the cache `CacheInv`: each entry is of a promise of its own contract whose
  failure, if any, was not handled yet, and no contract has two; with it, what a step
  takes out is the failure that is handled or the oldest entry of a full cache
  (`KeepsTokens`).  Assumption `CacheHasRoom`: the cache holds one promise at least.
  For the changes `ChangesInv`: what was predicted and what was told are gathered from
  the deltas of operations, effects or events, each with its fee.  Deltas are functions
  of places, so what they come to for a wallet and an asset is a sum (`FilteredGains`);
  `TransferPlaces` pairs the two sides of each operation with the two effects of it, in
  the other order, so the sums are equal, or no less for paths; that a transaction's
  effects fit on one page follows from the limit of operations (`PageHoldsPayments`: two
  hundred effects, one hundred operations).  `TransfersAddUp` cancels the two sides and
  leaves the fee.  Other assumptions: `OperationsAreFormed` (amounts are integers, and
  the ledger keeps a path payment within its bounds), `NoFilterIsEverything`,
  `FeesAreNumbers`.
- `UtxoProofs`: `RegistriesInv` (an entry by both registries or by none for each chain
  that stands; hypothesis `FamiliesHaveNames`: the model's mark for "no entry" is no
  family's name), `TransfersInv` (once a transfer was checked by signing, or was built by
  `assembleTransaction`, its parents, and the values they show, are the real ones, and
  the fee that is told is the real inputs less the outputs), `SelectionsInv` (what was
  selected is sound for what was listed, at the rate and for the request it was listed
  for), `ToldInv` (hypothesis `NoTimeout`; the run `utxo_timeout`
  shows what happens without it) and `ReadsInv` (a depth that was read is one the
  transaction had and only grows, what was in a block when the call began stays in it,
  and who lists coins or imports finds the wallet scanning at least; hypothesis `TransactionIsWhole`: finitely many inputs and outputs of whole
  satoshis).  That the changes by address add up to the fee is `ChangesAddUp`, a sum
  regrouped by address.
- `UtxoProofs`, *the selection* (`SelectionsAreSound`): `SearchExists` gives the recursion
  of the branch and bound a solution, built up by the number of coins that are left.
  `CallKeepsTheBest` says of every call what it leaves behind (`After`): what is kept
  matches, is no worse than before, and, where the calls that are left (`CallsLeft`) fit
  under the limit, no choice that goes on from the call's own is better.  From the first
  call this is `BestIsFound`.  `LargestComeFirst` and `SumOfPlaces` carry it from places
  in the order of the coins to sets of coins, and `FinalizeIsSound` is the arithmetic of
  fee, surplus and change, with the half vbytes rounded up.  Hypotheses:
  `CoinsAreCounted` (finitely many coins of whole satoshis; a rate is a whole number from
  1 up, as the tools round it) and `SearchesFit` (the 2^(n+1) - 1 calls a search of n of the
  coins may take are within `MaxIterations`, so for the code's 100 000 up to 15 coins;
  beyond that the code does give up early and may miss a match).

The theorems about modules that an MC module plays as an instance speak of the
instance's own specification where a hypothesis is about that instance
(`P!Spec`, `T!Spec`, `R!Spec`, `G!Spec`), and of `MCSpec` otherwise; every step of a
scene is a step of its instance.

Only model-checked, and why:

- Liveness (`Decided`, `OldWalletDecides`, `WaitEnds`, `BatchEnds`) needs fairness and `ENABLED`.
- `ChangesAreTrue` of EVM and Tron compares with a record of what each of a few given
  transactions moved, on EVM also one whose legs of an asset pass over zero; a theorem
  would assume that record right for every transaction, and so what it is to prove.

## 5. Where code and documentation part

With a run that shows it:

- `ton_lost_body` (`OtherErrorsSentNothing`, `ton/ton_provider.ts:317`): The code awaits response.text() outside its try, so a connection lost after the headers rejects with fetch's own error, which neither the fallback nor TonChain.broadcast recognises; ton/ton_provider.ts:297 says the function "maps every failure to a {@link TonProviderError}" and ton/ton_chain.ts:446 that broadcast "Throws `TonBroadcastUncertainError` when the message may have reached the network anyway".
- `solana_balance` (`ReadsAreTrue`, `solana/solana_chain.ts:385`): getBalance of a token catches whatever getAccount throws and answers 0, a failure of the node included (a rate limit, a timeout): an owner of tokens reads as one of none. solana/solana_chain.ts:386 says of the branch "No ATA → balance 0.", and getTokenAccount of the same account does tell the two apart (solana/solana_chain.ts:1583).
- `utxo_timeout` (`AnswersAreTrue`, `utxo/utxo_chain.ts:586`): The transport failures are recognised by their text only, and axios words its own timeout "timeout of 10000ms exceeded" (the name ECONNABORTED is in err.code, which is not looked at): the error of a transaction the node may have taken falls through to BroadcastRejected. CHANGELOG.md:496 says of that kind: "`BroadcastRejected` — chain says no; do not retry, do not re-sign".
- `tron_reset` (`ResetComesFirst`, `tron/tron_wallet.ts:166`): The wallet sleeps for three blocks after it sent the reset, and approves the amount then without asking what became of the reset, whose expiration is 60 s away (tron/tron_transaction_builder.ts:183). The reset may land after the approval, and undoes it; or the approval is refused because the reset has not landed. docs/tron.md:60 says "For USDT-style tokens it first resets the allowance to 0 and waits three blocks".
- `stellar_ask_first` (`PaidOnce`, `stellar/stellar_chain.ts:949`): NotFound is told of whatever Horizon has not ingested, with no look at the time bound (the envelope's, which would say when the answer is final), and the account is loaded after (stellar/stellar_transactions.ts:350). A transaction that is applied between the two, or whose ledger Horizon ingests between them, does not void the next one by its sequence number: both are paid. docs/stellar.md:58 says "The tx may still be on-chain: check getTransactionStatus(response.txHash) before re-signing."
- `utxo_dust` (`ChangeIsRelayed`, `utxo/coin_selection.ts:178`): Change is kept when it exceeds the cost of making and spending it, which at the rates of the run is less than the dust limit of 546: a change of 470 satoshis is an output. docs/utxo.md:367 says "If change after fee would be under dust (546 sats by default), the selector absorbs the surplus into the fee instead of emitting a sub-dust change output that the network would reject."

Without a run of their own.  Each is either outside what its module assumes, or the
exception that the property of that name makes:

- *TON.* A seqno refusal (`ton/ton_provider.ts:395`) reads "the wallet's seqno has
  moved past it", also when a provider's state has not come to it yet.  A relay's
  hash, which `ton/ton_chain.ts:529` tells callers not to pass and `getRequestState`
  refuses where it can, is answered `consumed` as long as its trace has no root
  (`ton/ton_chain.ts:544`): `ConsumedIsPast` is checked and proved for
  `RelayHashes = FALSE`, and TLC refutes it for `TRUE`.  A native transfer whose message
  is shaped like a jetton transfer's is final with its own transaction
  (`ton/ton_chain.ts:748`), although the transactions that decide whether it is part
  of a jetton transfer may not be: it may be gone later, where `docs/ton.md:191` says
  "A final transfer never changes or disappears on a later read".  This is the
  exception of `FinalTransfersStay`.  A
  trace may be younger than the head its depth is counted from
  (`ton/ton_chain.ts:632`); the depth is then floored at 0.
- *EVM.* A node's "request timed out" (-32002) reads as `BroadcastRejected`,
  although the transaction may be in its pool: the fault `timed_out`, outside the run
  and the theorem.  The value that a contract creation gives its contract is not
  among the internal transfers (`evm/evm_chain.ts:1508`; the comment at 623 speaks of
  every one), nor is that of a self-destruct, and CALLCODE is counted as a move.
  The ranges of `r` and of an authorization's nonce are not checked.
- *Solana.* `isBlockhashExpiredError` may be true of a transaction that landed
  (`solana/solana_chain.ts:802`): signing anew by it is `Rule = "error"`, under which
  `PaidOnce` fails.  The block engine's "already processed" reads as
  `BroadcastRejected` (`solana/solana_chain.ts:1305`).  A recipient's account that
  others open between the probe and the block fails a plain create
  (`solana/solana_chain.ts:518`), and one that is closed after
  `estimateAndApplyCu` can exceed the limit: both are exceptions of
  `LandsUnlessChanged`.  An example of `JITO.md` waits without the `timeoutMs` that
  the call demands.
- *Stellar.* The refusal for want of a memo reads as `BroadcastRejected` also on a
  second broadcast of what the first one posted (`stellar/stellar_chain.ts:1464`), when
  the destination has come to ask for a memo in between: the node has it and it lands,
  where `docs/stellar.md:96` wants `RpcError` for what may still land.  The exception of
  `AnswersHold`.  `ensureMinimumTrustLine` on a stale read lowers a limit that another
  caller raised before the account was loaded (`stellar/stellar_wallet.ts:152`), the
  exception of `LineHoldsUntilChanged`; and the prerequisite swallows its broadcast's
  error.
- *Tron.* The price of energy is read once (`tron/tron_chain.ts:507`;
  `docs/tron.md:108` describes the current one).  Signing one object twice with one
  key appends a second signature.  `NotFound` is also the answer of a pending
  transaction.  An internal "create" with a value is not among the changes.
- *UTXO.* The index of asset-bearing coins is cut off at `maxPages` without a word
  (`unisat.tool.ts:60`).  The selection's fee leaves out the 10.5 vB of overhead
  and the target the fees of the outputs, so that `InsufficientFunds` may be told of
  coins that suffice at a lower count.  While a descriptor is imported with a rescan
  the node already says that the address is watched (`bitcoin_core.tool.ts:168`), and
  another caller lists the coins scanned so far; `ReadsAreTrue` permits it, since
  nothing promises more and by default nothing is rescanned (`docs/utxo.md:385`).

## 6. What is not modelled, and the plan

Not modelled for good: encodings and keys (`python_*.ts`, `bip39.ts`, the bytes of
the Tron and TON codecs and of a PSBT), formatting and naming, tables
(`evm_chains.ts`, the asset registries), and the vocabulary of error messages except
where it decides what a caller is told.  They are pure functions of bytes and text.
TON Connect's proof and sign-data checks are one comparison of a signature, an age
and a domain.

Assumptions that the models make, by component:

- *TON:* fees, balances and metadata of jettons are left out; message bodies are
  told apart by kind.  The run has one request of a v3r2 or v4r2 wallet; of more than
  one of theirs the theorems speak.
- *EVM:* revert reasons and multicall reads are left out; an account's caller is the
  one of `EvmPayment`'s header.  That a payment is made *at last* is not stated: it
  depends on fees.
- *Solana:* a confirmed block is not rolled back; the 1232 bytes of a transaction
  are a failure that may happen, not a count; a token account that changes hands
  and an entry without an owner are exceptions of `ChangesAreTrue`.
- *Tron:* energy prices, permission weights and staking calls are left out.
- *Stellar:* one Horizon, whose view only moves on.  Soroban resource fees and
  paging beyond the one page of effects are left out.
- *UTXO:* one script type in a wallet at a time; multisig scripts are left out.
- *Two hazards have no property*: the text of TON's seqno refusal, since no caller's
  decision rests on it, and a relay's hash given to `getRequestState`, where the code
  is wrong (both in section 5).

Next, in this order: step simulation of `PaymentOnce` by `EvmPayment`
and `TronPayment`, which both imply it; TON traces over a request that is relayed; the
requests of several wallets over one relayer; EVM approvals as a
prerequisite.

## 7. Running

`tlc -config X.cfg M` for a run of `PROJECT.json`, `tlapm M.tla` for the modules
named `*Proofs`.  The longest run takes a few minutes.
