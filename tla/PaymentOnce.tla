---------------------------- MODULE PaymentOnce ----------------------------
(***************************************************************************)
(* What the calls of TON and of Solana promise a caller that signs anew,   *)
(* whatever the chain and its nodes do: at any time at most one signed request can still pay  *)
(* a payment, none can once it is paid, and so each is paid at most once.  *)
(***************************************************************************)
EXTENDS Naturals

CONSTANTS Requests, Payments

VARIABLES
  holders,   \* per payment: the requests that can still pay it
  times      \* per payment: how often it was paid

vars == <<holders, times>>

Init ==
  /\ holders = [p \in Payments |-> {}]
  /\ times = [p \in Payments |-> 0]

\* A request is signed for a payment nothing else can pay any more.
Sign(r, p) ==
  /\ times[p] = 0
  /\ holders[p] = {}
  /\ holders' = [holders EXCEPT ![p] = {r}]
  /\ UNCHANGED times

Fewer == \A q \in Payments : holders'[q] \subseteq holders[q]

\* Requests stop being able to pay: they expire, fail, or lose their seqno.
Lapse ==
  /\ holders' \in [Payments -> SUBSET Requests]
  /\ Fewer
  /\ UNCHANGED times

\* One pays; the same seqno takes others with it.
Pay(p) ==
  /\ holders[p] # {}
  /\ holders' \in [Payments -> SUBSET Requests]
  /\ holders'[p] = {}
  /\ Fewer
  /\ times' = [times EXCEPT ![p] = @ + 1]

Next ==
  \/ \E r \in Requests, p \in Payments : Sign(r, p)
  \/ Lapse
  \/ \E p \in Payments : Pay(p)

Spec == Init /\ [][Next]_vars
=============================================================================
