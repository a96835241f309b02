---------------------------- MODULE TronApprove ----------------------------
(***************************************************************************)
(* The approve prerequisite of a TRC-20 token:                             *)
(* TronWallet.handleTransactionPrerequisite (tron_wallet.ts), with the     *)
(* reset to zero that a token like USDT asks for.  Time is in blocks.      *)
(***************************************************************************)
EXTENDS Integers, FiniteSets

CONSTANTS
    Amounts,        \* allowances there may be, and that are asked for
    Prerequisites,  \* [amount, own: of this wallet, flagged: requiresZeroResetFirst or
                    \* a listed token, strict: the token wants a reset]
    SleepBlocks,    \* the wallet sleeps for so long after the reset
    ExpiryBlocks    \* an approval lives for 60 s: it lands within so many blocks, or never

VARIABLES
    allowance,
    asked,          \* the prerequisite
    step,           \* what the call does next
    slept,          \* the blocks since the reset was sent
    pool,           \* approvals under way: [amount, waited]
    done,           \* what became of approvals: [amount, how, late: later than the sleep]
    told            \* the response

vars == <<allowance, asked, step, slept, pool, done, told>>

Init ==
    /\ allowance \in Amounts /\ asked \in Prerequisites
    /\ step = "read" /\ slept = 0
    /\ pool = {} /\ done = {} /\ told = "none"

\* The spender takes of what it may; the owner's other approvals are left out.
Spend ==
    /\ allowance > 0 /\ allowance' \in {a \in Amounts : a < allowance}
    /\ UNCHANGED <<asked, step, slept, pool, done, told>>

\* The allowance is enough already, is not the wallet's to raise, or is raised,
\* with a reset first where there is something to reset.
ReadAllowance ==
    /\ step = "read"
    /\ \/ /\ allowance >= asked.amount
          /\ told' = "skipped" /\ step' = "done"
       \/ /\ allowance < asked.amount /\ ~asked.own
          /\ told' = "throws" /\ step' = "done"
       \/ /\ allowance < asked.amount /\ asked.own
          /\ step' = IF allowance > 0 /\ asked.flagged THEN "reset" ELSE "approve"
          /\ UNCHANGED told
    /\ UNCHANGED <<allowance, asked, slept, pool, done>>

ReadFails ==
    /\ step = "read" /\ step' = "done" /\ told' = "throws"
    /\ UNCHANGED <<allowance, asked, slept, pool, done>>

\* _broadcastApprove: the node takes the approval and its hash is told, or the call
\* throws; what it throws for may have been taken.
broadcastApprove(amount, then) ==
    \/ /\ pool' = pool \cup {[amount |-> amount, waited |-> 0]}
       /\ then
    \/ /\ \/ pool' = pool \cup {[amount |-> amount, waited |-> 0]}
          \/ UNCHANGED pool
       /\ step' = "done" /\ told' = "throws" /\ UNCHANGED slept

Reset ==
    /\ step = "reset"
    /\ broadcastApprove(0, step' = "sleep" /\ slept' = 0 /\ UNCHANGED told)
    /\ UNCHANGED <<allowance, asked, done>>

NoSleep == step = "sleep"
Slept == step = "sleep" /\ slept >= SleepBlocks

Wake ==
    /\ Slept /\ step' = "approve"
    /\ UNCHANGED <<allowance, asked, slept, pool, done, told>>

Approve ==
    /\ step = "approve"
    /\ broadcastApprove(asked.amount, step' = "done" /\ told' = "approved" /\ UNCHANGED slept)
    /\ UNCHANGED <<allowance, asked, done>>

\* The wallet may have woken while the approval was under way.
Late(a) == a.waited >= SleepBlocks

\* An approval is executed, is refused by a strict token that is asked to change what
\* is not zero, fails otherwise, or is never put in a block.
Ends(a, how) ==
    /\ pool' = pool \ {a}
    /\ done' = done \cup {[amount |-> a.amount, how |-> how, late |-> Late(a)]}
    /\ UNCHANGED <<asked, step, slept, told>>

Refuses(a) == asked.strict /\ a.amount # 0 /\ allowance # 0

Land(a) ==
    \/ Refuses(a) /\ Ends(a, "refused") /\ UNCHANGED allowance
    \/ ~Refuses(a) /\ Ends(a, "applied") /\ allowance' = a.amount
    \/ Ends(a, "failed") /\ UNCHANGED allowance

Lose(a) == Ends(a, "lost") /\ UNCHANGED allowance

Block ==
    /\ \A a \in pool : a.waited < ExpiryBlocks
    /\ pool # {} \/ step = "sleep"
    /\ pool' = {[amount |-> a.amount, waited |-> a.waited + 1] : a \in pool}
    /\ slept' = IF step = "sleep" /\ slept < SleepBlocks THEN slept + 1 ELSE slept
    /\ UNCHANGED <<allowance, asked, step, done, told>>

Next ==
    \/ Spend \/ ReadAllowance \/ ReadFails \/ Reset \/ Wake \/ Approve \/ Block
    \/ \E a \in pool : Land(a) \/ Lose(a)

Spec == Init /\ [][Next]_vars

Became(hows, amount) == \E d \in done : d.how \in hows /\ d.amount = amount

\* The reset had no effect, or none yet when the wallet woke.
ResetLate ==
    \/ Became({"lost", "failed"}, 0)
    \/ \E a \in pool : a.amount = 0 /\ Late(a)
    \/ \E d \in done : d.amount = 0 /\ d.late

\* Only a reset that is late harms the approval: once the amount is approved, no reset is
\* under way that would undo it but a late one, and a strict token that was known to be
\* one refuses the amount only where the reset was late or had no effect.
ApprovesInOrder ==
    /\ Became({"applied"}, asked.amount) => \A a \in pool : a.amount = 0 => Late(a)
    /\ asked.flagged /\ Became({"refused"}, asked.amount) => ResetLate

\* "For USDT-style tokens it first resets the allowance to 0" (docs/tron.md:60): when the
\* amount takes effect, or is refused, no reset is still to come.
ResetComesFirst ==
    Became({"applied", "refused"}, asked.amount) => \A a \in pool : a.amount # 0
=============================================================================
