---------------------------- MODULE SolanaChanges ----------------------------
(***************************************************************************)
(* The balance changes that SolanaChain decodes from a transaction's meta  *)
(* (_decodeBalanceChanges) and those less the fee                          *)
(* (SolanaTransactionStatus.balanceChangesExcludingFees).                  *)
(*                                                                         *)
(* A transaction runs over accounts that its message names and accounts    *)
(* that lookup tables give.  The meta has what each account held before    *)
(* and after: lamports of all, and tokens of the token accounts there are. *)
(***************************************************************************)
EXTENDS BalanceChanges, FiniteSets, SequencesExt

CONSTANTS
    StaticKeys, LoadedKeys,     \* the accounts, in the order of the meta
    TokenAccounts,              \* those that are, or may become, token accounts
    Mints,
    Steps,                      \* bound: what one transaction does
    Fees                        \* what it may pay

VARIABLES
    pre,        \* before: [lamports, tokens]
    now,        \* while it runs, and after
    ran,        \* how often it moved something
    meta,       \* getTransaction's meta
    decoded     \* the balance changes

changesVars == <<pre, now, ran, meta, decoded>>

AccountKeys == StaticKeys \o LoadedKeys
Accounts == ToSet(AccountKeys)
Wallets == Accounts \ TokenAccounts
FeePayer == AccountKeys[1]
Rent == 1

Open(mint, owner, amount, named) == [mint |-> mint, owner |-> owner, amount |-> amount, named |-> named]
NotMeta == [fee |-> 0]

(***************************************************************************)
(* The transaction.  named: whether the node tells the owner.              *)
(***************************************************************************)
Running == meta = NotMeta /\ ran < Steps
Moved(next) == now' = next /\ ran' = ran + 1 /\ UNCHANGED <<pre, meta, decoded>>

Pay ==
    /\ Running
    /\ \E from, to \in Wallets :
          /\ from # to /\ now.lamports[from] > 0
          /\ Moved([now EXCEPT !.lamports[from] = @ - 1, !.lamports[to] = @ + 1])

TransferTokens ==
    /\ Running
    /\ \E from, to \in DOMAIN now.tokens :
          /\ from # to /\ now.tokens[from].mint = now.tokens[to].mint /\ now.tokens[from].amount > 0
          /\ Moved([now EXCEPT !.tokens[from].amount = @ - 1, !.tokens[to].amount = @ + 1])

OpenAccount ==
    /\ Running
    /\ \E a \in TokenAccounts \ DOMAIN now.tokens, mint \in Mints, owner \in Wallets :
          /\ now.lamports[FeePayer] >= Rent
          /\ Moved([lamports |-> [now.lamports EXCEPT ![FeePayer] = @ - Rent, ![a] = @ + Rent],
                    tokens |-> With(now.tokens, a, Open(mint, owner, 0, TRUE))])

\* Its lamports go to its owner.
CloseAccount ==
    /\ Running
    /\ \E a \in {b \in DOMAIN now.tokens : now.tokens[b].amount = 0} :
          LET owner == now.tokens[a].owner
          IN  Moved([lamports |-> [now.lamports EXCEPT ![a] = 0, ![owner] = @ + now.lamports[a]],
                     tokens |-> Without(now.tokens, a)])

\* The fee, which the chain takes first, makes no difference to what else is moved.
Seal ==
    /\ meta = NotMeta
    /\ \E fee \in Fees :
          /\ fee <= now.lamports[FeePayer]
          /\ now' = [now EXCEPT !.lamports[FeePayer] = @ - fee]
          /\ meta' = [fee |-> fee, preBalances |-> pre.lamports, postBalances |-> now'.lamports,
                      preTokenBalances |-> pre.tokens, postTokenBalances |-> now'.tokens]
    /\ UNCHANGED <<pre, ran, decoded>>

(***************************************************************************)
(* The decoding.                                                           *)
(***************************************************************************)
StaticOnly == StaticKeys        \* a slip: the accounts of lookup tables are left out
DecodedKeys == AccountKeys

NativeChanges ==
    FoldSeq(LAMBDA a, changes :
                LET delta == meta.postBalances[a] - meta.preBalances[a]
                IN  IF delta = 0 THEN changes ELSE upsert(changes, a, "SOL", delta),
            NoChanges, DecodedKeys)

\* Entries are told apart by account and mint: an account may be closed and opened anew.
TokenEntries ==
    {[account |-> a, mint |-> meta.preTokenBalances[a].mint] : a \in DOMAIN meta.preTokenBalances} \cup
    {[account |-> a, mint |-> meta.postTokenBalances[a].mint] : a \in DOMAIN meta.postTokenBalances}
In(balances, e) == e.account \in DOMAIN balances /\ balances[e.account].mint = e.mint
AmountIn(balances, e) == IF In(balances, e) THEN balances[e.account].amount ELSE 0
Owns(balances, e) ==
    IF In(balances, e) /\ balances[e.account].named THEN {balances[e.account].owner} ELSE {}

\* The owner before, or after when the one before is not told; or none.
OwnersOf(e) ==
    IF Owns(meta.preTokenBalances, e) # {} THEN Owns(meta.preTokenBalances, e)
    ELSE Owns(meta.postTokenBalances, e)

decodeBalanceChanges ==
    FoldSet(LAMBDA e, changes :
                LET delta == AmountIn(meta.postTokenBalances, e) - AmountIn(meta.preTokenBalances, e)
                IN  IF delta = 0 \/ OwnersOf(e) = {} THEN changes
                    ELSE upsert(changes, CHOOSE o \in OwnersOf(e) : TRUE, e.mint, delta),
            NativeChanges, TokenEntries)

balanceChangesExcludingFees(changes) == upsert(changes, FeePayer, "SOL", meta.fee)

Decode ==
    /\ meta # NotMeta /\ decoded.kind = "none"
    /\ decoded' = [kind |-> "changes", raw |-> decodeBalanceChanges,
                   gross |-> balanceChangesExcludingFees(decodeBalanceChanges)]
    /\ UNCHANGED <<pre, now, ran, meta>>

Init ==
    /\ \E held \in SUBSET TokenAccounts, named \in BOOLEAN :
          \E owner \in [held -> Wallets], mint \in [held -> Mints] :
              pre = [lamports |-> [a \in Accounts |-> IF a \in Wallets THEN 2 ELSE IF a \in held THEN Rent ELSE 0],
                     tokens |-> [a \in held |-> Open(mint[a], owner[a], 1, named)]]
    /\ now = pre /\ ran = 0 /\ meta = NotMeta /\ decoded = [kind |-> "none"]

Next == Pay \/ TransferTokens \/ OpenAccount \/ CloseAccount \/ Seal \/ Decode

Spec == Init /\ [][Next]_changesVars

(***************************************************************************)
(* Property.                                                               *)
(***************************************************************************)
Tokens(ledger, owner, mint) ==
    MapThenSumSet(LAMBDA a : ledger.tokens[a].amount,
                  {a \in DOMAIN ledger.tokens : ledger.tokens[a].owner = owner /\ ledger.tokens[a].mint = mint})

KeepsItsOwner(a) ==
    a \in DOMAIN now.tokens /\ now.tokens[a].mint = pre.tokens[a].mint => now.tokens[a].owner = pre.tokens[a].owner

\* Each account's lamports and each owner's tokens changed by what is told, whichever
\* table named the account and whether its token account was opened or closed on the
\* way; less the fee, only what moved between accounts is left.  Of tokens, only when
\* the node tells whose they are, and no token account changes hands.
ChangesAreTrue ==
    decoded.kind = "changes" =>
        /\ Normal(decoded.raw) /\ Normal(decoded.gross)
        /\ \A a \in Accounts :
              Gained(decoded.raw, a, "SOL") = now.lamports[a] - pre.lamports[a]
        /\ MapThenSumSet(LAMBDA a : Gained(decoded.gross, a, "SOL"), Accounts) = 0
        /\ (\A a \in DOMAIN pre.tokens : pre.tokens[a].named /\ KeepsItsOwner(a)) =>
              \A o \in Accounts, m \in Mints :
                  Gained(decoded.raw, o, m) = Tokens(now, o, m) - Tokens(pre, o, m)
=============================================================================
