------------------------------ MODULE UtxoReads ------------------------------
(***************************************************************************)
(* What the UTXO providers are asked: the status of a transaction          *)
(* (UtxoChain.getTransactionStatus over EsploraTool or BitcoinCoreTool)    *)
(* and the coins of an address that a node's wallet has to watch first     *)
(* (BitcoinCoreTool.getUtxos).  A tool makes several requests; blocks come *)
(* and transactions are replaced between any two of them.                  *)
(***************************************************************************)
EXTENDS Integers, FiniteSets, FiniteSetsExt, Functions

CONSTANTS
    Inputs, Outputs,    \* the transaction: [address, value] by input and by output
    Coinbase,           \* it is the coinbase of its block
    Unhydrated,         \* inputs whose prevout the node does not put in its reply
    Tools,              \* the providers asked: "esplora", "core" (a Bitcoin Core node
                        \* with -txindex), "bareCore" (one without)
    Callers,            \* calls of getUtxos
    MaxTip              \* bound on the height of the chain

VARIABLES
    tip,        \* the height of the chain
    place,      \* where the transaction is: Nowhere, InMempool, or its block
    read,       \* the getTransactionStatus in flight
    told,       \* the last status that was returned, with what was true
    wallet,     \* the node's wallet and the address: "unknown", "scanning", "scanned"
    watched,    \* watchedAddresses has the address
    caller      \* where each getUtxos stands

statusVars == <<tip, place, read, told>>
walletVars == <<wallet, watched, caller>>
vars == <<tip, place, read, told, wallet, watched, caller>>

Nowhere == -1
InMempool == 0
Confirmed == place > 0

(***************************************************************************)
(* The chain (external).                                                   *)
(***************************************************************************)
Block ==
    /\ tip < MaxTip
    /\ tip' = tip + 1
    /\ place' \in {place} \cup (IF place = InMempool THEN {tip + 1} ELSE {})
    /\ UNCHANGED <<read, told, walletVars>>

Relay ==
    /\ place = Nowhere
    /\ ~Coinbase
    /\ place' = InMempool
    /\ UNCHANGED <<tip, read, told, walletVars>>

Replace ==
    /\ place = InMempool
    /\ place' = Nowhere
    /\ UNCHANGED <<tip, read, told, walletVars>>

(***************************************************************************)
(* getTransactionStatus.                                                   *)
(***************************************************************************)
Idle == [step |-> "idle"]

\* EsploraTool asks for the tip first, BitcoinCoreTool for the transaction.
Ask(tool) ==
    /\ read.step = "idle"
    /\ read' = [step |-> IF tool = "esplora" THEN "tip" ELSE "tx", tool |-> tool,
                before |-> place, tip |-> 0, depth |-> 0]
    /\ UNCHANGED <<tip, place, told, walletVars>>

ReadTip ==
    /\ read.step = "tip"
    /\ read' = [read EXCEPT !.step = "tx", !.tip = tip]
    /\ UNCHANGED <<tip, place, told, walletVars>>

Tell(status, confirmations, changes) ==
    /\ read' = Idle
    /\ told' = [status |-> status, confirmations |-> confirmations, changes |-> changes,
                before |-> read.before, now |-> place,
                depth |-> IF Confirmed THEN tip - place + 1 ELSE 0]
    /\ UNCHANGED <<tip, place, walletVars>>

\* What the node answers of a transaction it cannot find: Esplora's 404, or the
\* code -5, whose message says which transactions were looked at.
LookupError(tool) ==
    <<"getrawtransaction",
      IF tool = "esplora" THEN "404"
      ELSE IF tool = "core" THEN "no_such_mempool_or_blockchain_transaction"
      ELSE "no_such_mempool_transaction">>

\* isProviderNotFoundError: the errors that become NotFound; the rest is RpcError.
isProviderNotFoundError(error) ==
    error \in {"getrawtransaction"} \X {"404", "no_such_mempool_or_blockchain_transaction"}

ReadError(error) ==
    Tell(IF isProviderNotFoundError(error) THEN "NotFound" ELSE "RpcError", 0, <<>>)

Finds(tool) == place = InMempool \/ (Confirmed /\ tool # "bareCore")

\* Esplora's confirmations are counted from the tip that was read before; Core
\* gives its own number.
Confirmations(tool, toolTip) ==
    IF ~Confirmed THEN 0
    ELSE IF tool = "esplora" THEN Max({0, toolTip - place + 1}) ELSE tip - place + 1

\* The first request of Core, the second of Esplora.
ReadTx ==
    /\ read.step = "tx"
    /\ \/ /\ Finds(read.tool)
          /\ read' = [read EXCEPT !.step = IF read.tool = "esplora" THEN "hex" ELSE "parents",
                                  !.depth = Confirmations(read.tool, read.tip)]
          /\ UNCHANGED <<tip, place, told, walletVars>>
       \/ ~Finds(read.tool) /\ ReadError(LookupError(read.tool))
       \/ ReadError(<<"getrawtransaction", "connection_reset">>)

\* Changes by address, zeros left out.
netChanges ==
    LET debits == IF Coinbase THEN {} ELSE DOMAIN Inputs
        addresses == {Inputs[i].address : i \in debits} \cup {Outputs[o].address : o \in DOMAIN Outputs}
        net(a) == MapThenSumSet(LAMBDA o : Outputs[o].value, {o \in DOMAIN Outputs : Outputs[o].address = a})
                  - MapThenSumSet(LAMBDA i : Inputs[i].value, {i \in debits : Inputs[i].address = a})
    IN  [a \in {b \in addresses \ {"none"} : net(b) # 0} |-> net(a)]

\* getUtxoStatusOnce, from a transaction that was read in full.
Conclude ==
    IF read.depth = 0 THEN Tell("Pending", 0, <<>>)
    ELSE Tell("Success", read.depth, netChanges)

\* A parent's error passed on as it came.
OwnError(error) == error

\* BitcoinCoreTool fetches the parents of the inputs that came without prevout, in
\* one batch; the text of an error is changed so that it is not taken for the
\* transaction's own.
ParentError(error) == <<"parent_prevout_fetch", error[2]>>

ReadParents ==
    /\ read.step = "parents"
    /\ IF Coinbase \/ Unhydrated = {} THEN Conclude
       ELSE Conclude \/ ReadError(ParentError(LookupError(read.tool)))

\* EsploraTool fetches the raw transaction for its size.
ReadHex ==
    /\ read.step = "hex"
    /\ \/ place # Nowhere /\ Conclude
       \/ place = Nowhere /\ ReadError(LookupError("esplora"))
       \/ ReadError(<<"getrawtransaction", "connection_reset">>)

(***************************************************************************)
(* BitcoinCoreTool.getUtxos.                                               *)
(***************************************************************************)
Step(c, from, to) == caller[c] = from /\ caller' = [caller EXCEPT ![c] = to]

\* ensureAddressWatched: the process remembers the address, or asks.
GetUtxos(c) ==
    /\ Step(c, "idle", IF watched THEN "list" ELSE "info")
    /\ UNCHANGED <<statusVars, wallet, watched>>

\* An ensureAddressWatched that remembers the address before it has asked.
RememberFirst(c) ==
    /\ Step(c, "info", IF wallet # "unknown" THEN "list" ELSE "import")
    /\ watched' = TRUE
    /\ UNCHANGED <<statusVars, wallet>>

ReadAddressInfo(c) ==
    /\ Step(c, "info", IF wallet # "unknown" THEN "list" ELSE "import")
    /\ watched' = (watched \/ wallet # "unknown")
    /\ UNCHANGED <<statusVars, wallet>>

\* importdescriptors: the node takes the descriptor and scans for its coins.  The
\* reply comes when it has scanned; it may be an error, or time out before.
Import(c) ==
    /\ Step(c, "import", "importing")
    /\ wallet' = IF wallet = "unknown" THEN "scanning" ELSE wallet
    /\ UNCHANGED <<statusVars, watched>>

ImportRefused(c) ==
    /\ caller[c] \in {"import", "importing"}
    /\ caller' = [caller EXCEPT ![c] = "failed"]
    /\ UNCHANGED <<statusVars, wallet, watched>>

Scanned ==
    /\ wallet = "scanning"
    /\ wallet' = "scanned"
    /\ UNCHANGED <<statusVars, watched, caller>>

Imported(c) ==
    /\ wallet = "scanned"
    /\ Step(c, "importing", "list")
    /\ watched' = TRUE
    /\ UNCHANGED <<statusVars, wallet>>

\* listunspent: the coins the wallet knows of.
ListUnspent(c) ==
    /\ caller[c] = "list"
    /\ caller' = [caller EXCEPT ![c] = IF wallet = "scanned" THEN "complete"
                                       ELSE IF wallet = "scanning" THEN "partial" ELSE "empty"]
    /\ UNCHANGED <<statusVars, wallet, watched>>

Init ==
    /\ tip = 1
    /\ place = (IF Coinbase THEN 1 ELSE Nowhere)
    /\ read = Idle
    /\ told = [status |-> "nothing"]
    /\ wallet = "unknown"
    /\ watched = FALSE
    /\ caller = [c \in Callers |-> "idle"]

Next ==
    \/ Block \/ Relay \/ Replace
    \/ \E tool \in Tools : Ask(tool)
    \/ ReadTip \/ ReadTx \/ ReadParents \/ ReadHex
    \/ Scanned
    \/ \E c \in Callers :
           \/ GetUtxos(c) \/ ReadAddressInfo(c) \/ Import(c) \/ ImportRefused(c)
           \/ Imported(c) \/ ListUnspent(c)

Spec == Init /\ [][Next]_vars
-----------------------------------------------------------------------------
(***************************************************************************)
(* What getTransactionStatus says is true.  NotFound: the node had no such *)
(* transaction when it answered, and not that a parent of a confirmed one  *)
(* could not be fetched, or that it has no index to look in.  Pending: the *)
(* transaction was not confirmed when the call began, though its block and *)
(* the tip come from two reads.  Success: there are as many confirmations, *)
(* and the balance changes add up to the fee, or to what a coinbase        *)
(* brought into circulation, and keep no zero.                             *)
(***************************************************************************)
StatusIsTrue ==
    /\ told.status = "NotFound" => told.now = Nowhere
    /\ told.status = "Pending" => told.before <= InMempool
    /\ told.status = "Success" =>
          /\ told.confirmations \in 1..told.depth
          /\ MapThenSumSet(LAMBDA a : told.changes[a], DOMAIN told.changes)
               = MapThenSumSet(LAMBDA o : Outputs[o].value, DOMAIN Outputs)
                 - (IF Coinbase THEN 0 ELSE MapThenSumSet(LAMBDA i : Inputs[i].value, DOMAIN Inputs))
          /\ \A a \in DOMAIN told.changes : told.changes[a] # 0

\* An address the process remembers as watched is in the node's wallet, whatever
\* import failed or timed out and whoever else imported it: its coins are never
\* listed from a wallet that does not know it.
WatchedIsImported ==
    /\ watched => wallet # "unknown"
    /\ \A c \in Callers : caller[c] # "empty"

\* What the providers tell: both of the above.
ReadsAreTrue == StatusIsTrue /\ WatchedIsImported
=============================================================================
