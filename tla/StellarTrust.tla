---------------------------- MODULE StellarTrust ----------------------------
(***************************************************************************)
(* The trust line of a Stellar wallet: what opens, raises and closes it    *)
(* (stellar_wallet.ts), and the swaps and transfers that count on it       *)
(* (stellar_chain.ts, wallet.base.ts).                                     *)
(*                                                                         *)
(* Callers run side by side.  The ledger is the sequence of the applied    *)
(* transactions; Horizon shows the first `ingested` of them.               *)
(***************************************************************************)
EXTENDS Integers, Sequences, FiniteSetsExt

CONSTANTS
    Callers,        \* the calls under way
    Calls,          \* what they may be: per caller [kind, ...], see the actions
    FirstLimit      \* the limit of the trust line at the start; 0: there is none

VARIABLES
    call,           \* per caller: its call
    step,           \* per caller: how far its call is
    loaded,         \* per caller: how much of the ledger its account was loaded from
                    \* for a signature; 0 before
    view,           \* per caller: how much of the ledger it has seen of the line
    told,           \* per caller: what became of its changeTrust
    ledger,         \* what was applied: [by, what, limit, ok]
    ingested,       \* how much of it Horizon shows
    pool            \* the transactions a node holds: <<caller, what>>

vars == <<call, step, loaded, view, told, ledger, ingested, pool>>

MaxLimit == 9       \* TRUST_LINE_MAX_LIMIT, far above what is paid
Whats == {"changeTrust", "receive"}

Init ==
    /\ call \in Calls
    /\ step = [c \in Callers |-> "start"]
    /\ loaded = [c \in Callers |-> [what \in Whats |-> 0]]
    /\ view = [c \in Callers |-> 0]
    /\ told = [c \in Callers |-> "nothing"]
    /\ ledger = <<>> /\ ingested = 0 /\ pool = {}

Kind(c) == call[c].kind

\* The line after the first n entries: its limit, and the balance it holds.
Changes(n) == {i \in 1..n : ledger[i].ok /\ ledger[i].what = "changeTrust"}
LimitAt(n) == IF Changes(n) = {} THEN FirstLimit ELSE ledger[Max(Changes(n))].limit
BalanceAt(n) == Cardinality({i \in 1..n : ledger[i].ok /\ ledger[i].what = "receive"})

\* The wallet's transactions: of every call but a payment from somebody else.
Own(c) == Kind(c) # "transfer"
NextSequence(n) == Cardinality({i \in 1..n : Own(ledger[i].by)}) + 1

\* createPrerequisiteForReceivableAsset: the limit it asks for; 0 for none.
Prerequisite(asset, receiver) ==
    IF receiver = "account" /\ asset = "sac" THEN MaxLimit ELSE 0

\* A transfer that is a call of the token's contract, which takes no memo.
ByContract(c) == call[c].asset = "token" \/ call[c].receiver = "contract"

Needs(c) ==
    CASE Kind(c) = "ensure" -> call[c].limit
      [] Kind(c) = "swap" -> Prerequisite(call[c].asset, "account")
      [] Kind(c) = "transfer" -> Prerequisite(call[c].asset, call[c].receiver)
      [] OTHER -> MaxLimit

AnyLine(limit, c) == limit > 0

\* ensureMinimumTrustLine and isPrerequisiteAlreadyMet compare limits the same way.
High(limit, c) == limit >= Needs(c)

Move(c, to) == step' = [step EXCEPT ![c] = to]

(***************************************************************************)
(* Reads, and what follows from them.                                      *)
(***************************************************************************)
\* createExactInSwapTransaction finds no path, or createTransferTransaction refuses
\* the memo of a contract call: there is nothing to send.
Refuse(c) ==
    /\ Kind(c) \in {"swap", "transfer"} /\ step[c] = "start"
    /\ Kind(c) = "transfer" => ByContract(c) /\ call[c].memo
    /\ Move(c, "refused")
    /\ UNCHANGED <<call, loaded, view, told, ledger, ingested, pool>>

\* No prerequisite: the transaction is signed at once.
Skip(c) ==
    /\ Kind(c) \in {"swap", "transfer"} /\ step[c] = "start" /\ Needs(c) = 0
    /\ ~(Kind(c) = "transfer" /\ ByContract(c) /\ call[c].memo)
    /\ Move(c, "receive")
    /\ UNCHANGED <<call, loaded, view, told, ledger, ingested, pool>>

\* getTrustLineLimit.  The line is high enough, or is to be changed first; a
\* transfer to a receiver whose line is not is refused, and a line that holds
\* a balance is not closed.
ReadLine(c) ==
    /\ step[c] = "start" /\ Kind(c) # "foreign" /\ Needs(c) # 0
    /\ view' = [view EXCEPT ![c] = ingested]
    /\ CASE Kind(c) = "close" ->
              Move(c, IF BalanceAt(ingested) = 0 THEN "sign" ELSE "refused") /\ UNCHANGED told
         [] Kind(c) = "transfer" ->
              Move(c, IF High(LimitAt(ingested), c) THEN "receive" ELSE "refused") /\ UNCHANGED told
         [] OTHER ->
              IF High(LimitAt(ingested), c)
              THEN /\ told' = [told EXCEPT ![c] = "skipped"]
                   /\ Move(c, IF Kind(c) = "swap" THEN "receive" ELSE "done")
              ELSE Move(c, "sign") /\ UNCHANGED told
    /\ UNCHANGED <<call, loaded, ledger, ingested, pool>>

\* handleTransactionPrerequisite by a wallet it is not for throws, met or not.
ReadForeign(c) ==
    /\ Kind(c) = "foreign" /\ step[c] = "start"
    /\ Move(c, "refused")
    /\ UNCHANGED <<call, loaded, view, told, ledger, ingested, pool>>

ReadFails(c) ==
    /\ step[c] \in {"start", "sign", "receive"}
    /\ Move(c, "refused")
    /\ UNCHANGED <<call, loaded, view, told, ledger, ingested, pool>>

(***************************************************************************)
(* Signing and sending: the changeTrust at "sign", the swap or the payment *)
(* at "receive".                                                           *)
(***************************************************************************)
What(c) == IF step[c] \in {"sign", "trusting", "trusted"} THEN "changeTrust" ELSE "receive"

\* signTransaction: the account as Horizon has it gives the next sequence number.
Sign(c) ==
    /\ step[c] \in {"sign", "receive"}
    /\ loaded' = [loaded EXCEPT ![c][What(c)] = ingested]
    /\ Move(c, IF step[c] = "sign" THEN "trusting" ELSE "receiving")
    /\ UNCHANGED <<call, view, told, ledger, ingested, pool>>

\* broadcastSignedTransaction: the node takes the transaction, or does not.
Post(c) ==
    /\ step[c] \in {"trusting", "receiving"}
    /\ \E taken \in SUBSET {<<c, What(c)>>} : pool' = pool \cup taken
    /\ Move(c, IF step[c] = "trusting" THEN "trusted" ELSE "done")
    /\ UNCHANGED <<call, loaded, view, told, ledger, ingested>>

\* The answer to the changeTrust.  An error is not looked at: the prerequisite
\* counts as handled, and the swap is signed next.
SeenApplied(c) ==
    \E i \in 1..ingested : ledger[i].by = c /\ ledger[i].what = "changeTrust" /\ ledger[i].ok

Answered(c) ==
    /\ step[c] = "trusted"
    /\ \E answer \in {"error"} \cup (IF SeenApplied(c) THEN {"sent"} ELSE {}) :
           told' = [told EXCEPT ![c] = answer]
    /\ Move(c, IF Kind(c) = "swap" THEN "receive" ELSE "done")
    /\ UNCHANGED <<call, loaded, view, ledger, ingested, pool>>

(***************************************************************************)
(* The ledger.                                                             *)
(***************************************************************************)
NewLimit(c) == IF Kind(c) = "close" THEN 0 ELSE Needs(c)

\* A limit below the balance, and an amount above the limit, fail in the ledger.
Succeeds(c, what) ==
    IF what = "changeTrust" THEN NewLimit(c) >= BalanceAt(Len(ledger))
    ELSE Needs(c) = 0 \/ LimitAt(Len(ledger)) > BalanceAt(Len(ledger))

\* A transaction whose sequence number was used is dropped.
Apply(c, what) ==
    /\ <<c, what>> \in pool
    /\ pool' = pool \ {<<c, what>>}
    /\ ledger' = IF Own(c) /\ NextSequence(loaded[c][what]) # NextSequence(Len(ledger)) THEN ledger
                 ELSE Append(ledger, [by |-> c, what |-> what, ok |-> Succeeds(c, what),
                                      limit |-> IF what = "changeTrust" THEN NewLimit(c) ELSE 0])
    /\ UNCHANGED <<call, step, loaded, view, told, ingested>>

Ingest ==
    /\ ingested < Len(ledger) /\ ingested' = ingested + 1
    /\ UNCHANGED <<call, step, loaded, view, told, ledger, pool>>

Next ==
    \/ Ingest
    \/ \E c \in Callers :
           \/ Refuse(c) \/ Skip(c) \/ ReadLine(c) \/ ReadForeign(c) \/ ReadFails(c)
           \/ Sign(c) \/ Post(c) \/ Answered(c)
           \/ \E what \in Whats : Apply(c, what)

Spec == Init /\ [][Next]_vars

\* Somebody else changed the line since c looked at it, and Horizon had it by `till`.
ChangedByOthers(c, till) ==
    \E j \in view[c] + 1..till : ledger[j].what = "changeTrust" /\ ledger[j].by # c

\* A swap or a payment that finds no room on the receiver's line was not told that
\* the line is there, or somebody else changed the line since it was looked at; and a
\* limit is set on a line that was high enough only where somebody else changed it since.
\* For the wallet's own transactions that is until they were signed: what is signed
\* already another's change voids.
LineHoldsUntilChanged ==
    \A i \in DOMAIN ledger :
        LET c == ledger[i].by
        IN  /\ ledger[i].what = "receive" /\ ~ledger[i].ok =>
                   \/ told[c] = "error"
                   \/ ChangedByOthers(c, IF Own(c) THEN loaded[c]["receive"] ELSE i - 1)
            /\ ledger[i].what = "changeTrust" /\ Kind(c) # "close" /\ LimitAt(i - 1) >= Needs(c) =>
                   ChangedByOthers(c, loaded[c]["changeTrust"])
=============================================================================
