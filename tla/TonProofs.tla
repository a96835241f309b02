----------------------------- MODULE TonProofs -----------------------------
(***************************************************************************)
(* For any number of requests and payments, any clock skew and any bounds: *)
(* TonRequests is type correct, its safety invariants hold as long as the  *)
(* expiry margin covers what the providers' reads can trail, and it        *)
(* implements PaymentOnce, step by step.  And of the trace of a request,   *)
(* for any faults of the providers and however far behind they are: what   *)
(* was told as final stays, and what was told of the request is true.      *)
(***************************************************************************)
EXTENDS TonMC, Sums, SequenceTheorems

-----------------------------------------------------------------------------
(* What a reply can become.                                                *)

\* tonHttpJson settles with JSON, with nothing, with a provider's failure, or
\* with fetch's own error; only a failure is ever retried.
LEMMA HttpOutcome ==
  ASSUME NEW reply \in Replies
  PROVE  TonHttpJson(reply) \in
           [kind : {"payload", "null", "raw", "RpcError"}, retryable : BOOLEAN, text : Texts]
  BY DEF Replies, Texts, Refusals, TonHttpJson, Outcome, Resolved, ProviderError

\* Every reply settles the broadcast in one of the documented ways.
LEMMA SendBocOutcome ==
  ASSUME NEW reply \in Replies
  PROVE  /\ SendBoc(reply).kind \in Outcomes
         /\ SendBoc(reply).retryable \in BOOLEAN
  BY HttpOutcome DEF SendBoc, TonBroadcastReply, Outcome, Resolved, Outcomes

\* Only a refusal for none of the listed reasons, or an error inside a
\* successful reply, is reported as a definite rejection.
LEMMA RejectedReply ==
  ASSUME NEW reply \in Replies, SendBoc(reply).kind = "BroadcastRejected"
  PROVE  \/ reply.text = "code0"
         \/ reply.status = "2xx" /\ reply.text \notin {"plain", "nonJson"}
  <1>1. TonHttpJson(reply).kind = "RpcError" =>
          TonHttpJson(reply).text \in {"plain", reply.text}
    BY DEF TonHttpJson, Outcome, Resolved, ProviderError
  <1>2. TonHttpJson(reply).kind = "payload" =>
          /\ reply.status = "2xx"
          /\ reply.text # "nonJson"
          /\ TonHttpJson(reply).text = reply.text
    BY DEF Replies, TonHttpJson, Outcome, Resolved, ProviderError
  <1>. QED
    BY <1>1, <1>2, HttpOutcome
    DEF SendBoc, TonBroadcastReply, Outcome, Resolved, SaysNothingOfLanding,
        MaybeLandedExitCodes, SeqnoMovedExitCodes, Refusals

\* A provider is only ever sent replies a provider gives.
LEMMA ExchangesReply ==
  ASSUME NEW r, NEW p, NEW x \in Exchanges(r, p)
  PROVE  x.reply \in Replies /\ x.taken \in BOOLEAN
  <1>1. Verdicts(r, p) \subseteq Texts \cup {"accept"}
    BY DEF Verdicts, WalletVerdict, Texts, Refusals
  <1>2. NoAnswer \cup TurnedAway \subseteq Replies
    BY DEF NoAnswer, TurnedAway, Replies, Texts
  <1>3. [status : {"4xx", "5xx"}, text : Verdicts(r, p) \ {"accept"}] \subseteq Replies
    BY <1>1 DEF Replies
  <1>4. [status : {"2xx"}, text : {"plain"}] \subseteq Replies
    BY DEF Replies, Texts
  <1>. QED BY <1>2, <1>3, <1>4 DEF Exchanges

-----------------------------------------------------------------------------
(* Type correctness.                                                       *)

LEMMA TypeInit == Init => TypeOK
  BY TonAssumption DEF Init, TypeOK, Providers, NoCall, Nothing, Unsigned

\* A provider's state is a time it has seen.
LEMMA StatesType ==
  ASSUME TypeOK, NEW p \in Providers, NEW t \in StatesOf(p)
  PROVE  t \in Nat /\ t <= view[p] /\ t >= view[p] - StateLag
  BY DEF TypeOK, StatesOf

\* The wallet's seqno as of any time is between zero and its present one.
LEMMA HeightType ==
  ASSUME TypeOK, NEW t
  PROVE  /\ IsFiniteSet({i \in DOMAIN ledger : ledger[i].at <= t})
         /\ Height(t) \in Nat
         /\ Height(t) <= Len(ledger)
  <1>1. /\ Len(ledger) \in Nat
        /\ DOMAIN ledger = 1 .. Len(ledger)
    BY DEF TypeOK
  <1>2. IsFiniteSet(1 .. Len(ledger)) /\ Cardinality(1 .. Len(ledger)) = Len(ledger)
    <2>. DEFINE n == Len(ledger)
    <2>1. n \in Nat /\ 1 \in Int
      BY <1>1
    <2>. HIDE DEF n
    <2>2. IsFiniteSet(1 .. n) /\ Cardinality(1 .. n) = IF 1 > n THEN 0 ELSE n - 1 + 1
      BY <2>1, FS_Interval
    <2>3. Cardinality(1 .. n) = n
      BY <2>1, <2>2
    <2>. QED BY <2>2, <2>3 DEF n
  <1>3. {i \in DOMAIN ledger : ledger[i].at <= t} \subseteq 1 .. Len(ledger)
    BY <1>1
  <1>. QED BY <1>2, <1>3, FS_Subset, FS_CardinalityType DEF Height

LEMMA SignType ==
  ASSUME TypeOK, NEW r \in Requests, NEW k \in Kinds, NEW p \in Payments, NEW n \in Nat,
         SignRequest(r, k, p, n)
  PROVE  TypeOK'
  <1>. PICK skew \in ClockSkews :
         req' = [req EXCEPT ![r] = [kind |-> k, payment |-> p, seqno |-> n,
                                    validUntil |-> now + TTL + skew]]
    BY DEF SignRequest
  <1>1. now + TTL + skew \in Int
    BY TonAssumption DEF TypeOK
  <1>2. req' \in [Requests -> Request \cup {Unsigned}]
    BY <1>1 DEF TypeOK, Request
  <1>. QED
    BY <1>2 DEF TypeOK, SignRequest, chainVars, sendVars, callerVars, ReturnsNothing

\* Telling the caller an answer keeps every answer among the known ones.
LEMMA TellType ==
  ASSUME TypeOK, NEW r \in Requests, NEW verdict \in Answers, Tell(r, verdict)
  PROVE  told' \in [Requests -> SUBSET Answers]
  BY DEF TypeOK, Tell

LEMMA ReturnType ==
  ASSUME TypeOK, NEW r \in Requests, NEW outcome \in Outcomes, NEW taken \in BOOLEAN,
         Return(r, outcome, taken)
  PROVE  /\ sending' \in [Requests -> {"idle", "primary", "fallback"}]
         /\ handed' \in SUBSET Requests
         /\ returned' \in [outcome : Outcomes, req : Requests, taken : BOOLEAN]
         /\ told' \in [Requests -> SUBSET Answers]
  <1>1. told' \in [Requests -> SUBSET Answers]
    <2>1. CASE outcome = "BroadcastRejected"
      BY <2>1, TellType DEF Return, Answers
    <2>2. CASE outcome # "BroadcastRejected"
      BY <2>2 DEF Return, TypeOK
    <2>. QED BY <2>1, <2>2
  <1>2. (taken \/ r \in handed) \in BOOLEAN
    OBVIOUS
  <1>. QED BY <1>1, <1>2 DEF Return, TypeOK

LEMMA TypeStep == TypeOK /\ [Next]_vars => TypeOK'
  <1>. SUFFICES ASSUME TypeOK, [Next]_vars PROVE TypeOK'
    OBVIOUS
  <1>. USE DEF ReturnsNothing, chainVars, sendVars, callerVars
  <1>1. CASE Tick
    BY <1>1 DEF Tick, TypeOK
  <1>2. ASSUME NEW p \in Providers, Advance(p) PROVE TypeOK'
    BY <1>2 DEF Advance, TypeOK
  <1>3. ASSUME NEW r \in Requests, NEW paid \in BOOLEAN, Land(r, paid) PROVE TypeOK'
    <2>1. ledger' \in Seq([req : Requests, at : Nat, paid : BOOLEAN])
      BY <1>3 DEF Land, TypeOK
    <2>. QED BY <1>3, <2>1 DEF Land, TypeOK
  <1>4. ASSUME NEW r \in Requests, RunAndFail(r) PROVE TypeOK'
    BY <1>4 DEF RunAndFail, TypeOK
  <1>5. ASSUME NEW r \in Requests, NEW p \in Payments, SignTransaction(r, p) PROVE TypeOK'
    <2>1. PICK q \in Providers : \E t \in StatesOf(q) : SignRequest(r, "external", p, Height(t))
      BY <1>5 DEF SignTransaction
    <2>2. PICK t \in StatesOf(q) : SignRequest(r, "external", p, Height(t))
      BY <2>1
    <2>3. Height(t) \in Nat
      BY HeightType
    <2>. QED BY <2>2, <2>3, SignType DEF Kinds
  <1>6. ASSUME NEW r \in Requests, NEW p \in Payments, SignAtSeqno(r, p) PROVE TypeOK'
    <2>1. PICK k \in Kinds, n \in {Len(ledger), Len(ledger) + 1} : SignRequest(r, k, p, n)
      BY <1>6 DEF SignAtSeqno
    <2>2. n \in Nat
      BY DEF TypeOK
    <2>. QED BY <2>1, <2>2, SignType
  <1>7. ASSUME NEW r \in Requests, HandToRelayer(r) PROVE TypeOK'
    BY <1>7 DEF HandToRelayer, TypeOK
  <1>8. ASSUME NEW r \in Requests, Broadcast(r) PROVE TypeOK'
    BY <1>8 DEF Broadcast, TypeOK
  <1>9. ASSUME NEW r \in Requests, SendPrimary(r) PROVE TypeOK'
    <2>1. PICK x \in Exchanges(r, "primary") : 
           /\ pool' = TakenInto(pool, r, x.taken)
           /\ LET outcome == SendBoc(x.reply) IN
              IF outcome.retryable /\ HasFallback
                THEN /\ sending' = [sending EXCEPT ![r] = "fallback"]
                     /\ handed' = TakenInto(handed, r, x.taken)
                     /\ UNCHANGED told
                     /\ ReturnsNothing
                ELSE Return(r, IF outcome.retryable THEN "BroadcastUncertain" ELSE outcome.kind,
                            x.taken)
      BY <1>9 DEF SendPrimary
    <2>. DEFINE out == SendBoc(x.reply)
    <2>2. x.reply \in Replies /\ x.taken \in BOOLEAN
      BY ExchangesReply
    <2>3. out.kind \in Outcomes /\ out.retryable \in BOOLEAN
      BY <2>2, SendBocOutcome
    <2>. HIDE DEF out
    <2>4. pool' \in SUBSET Requests
      BY <2>1, <2>2 DEF TakenInto, TypeOK
    <2>5. UNCHANGED <<chainVars, req, call>>
      BY <1>9 DEF SendPrimary
    <2>6. CASE out.retryable /\ HasFallback
      <3>1. /\ sending' = [sending EXCEPT ![r] = "fallback"]
            /\ handed' = TakenInto(handed, r, x.taken)
            /\ UNCHANGED told
            /\ returned' = Nothing
        BY <2>1, <2>6 DEF out
      <3>2. handed' \in SUBSET Requests
        BY <3>1, <2>2 DEF TakenInto, TypeOK
      <3>. QED BY <3>1, <3>2, <2>4, <2>5 DEF TypeOK
    <2>7. CASE ~(out.retryable /\ HasFallback)
      <3>. DEFINE end == IF out.retryable THEN "BroadcastUncertain" ELSE out.kind
      <3>1. Return(r, end, x.taken)
        BY <2>1, <2>7 DEF out
      <3>2. end \in Outcomes
        BY <2>3 DEF Outcomes
      <3>. HIDE DEF end
      <3>. QED BY <3>1, <3>2, <2>2, <2>4, <2>5, ReturnType DEF TypeOK
    <2>. QED BY <2>6, <2>7
  <1>10. ASSUME NEW r \in Requests, SendFallback(r) PROVE TypeOK'
    <2>1. PICK x \in Exchanges(r, "fallback") :
            /\ pool' = TakenInto(pool, r, x.taken)
            /\ Return(r, AfterFallback(SendBoc(x.reply)), x.taken)
      BY <1>10 DEF SendFallback
    <2>2. x.taken \in BOOLEAN
      BY ExchangesReply
    <2>3. AfterFallback(SendBoc(x.reply)) \in Outcomes
      BY DEF AfterFallback, Outcomes
    <2>4. pool' \in SUBSET Requests
      BY <2>1 DEF TakenInto, TypeOK
    <2>5. UNCHANGED <<chainVars, req, call>>
      BY <1>10 DEF SendFallback
    <2>. QED BY <2>1, <2>2, <2>3, <2>4, <2>5, ReturnType DEF TypeOK
  <1>11. ASSUME NEW r \in Requests, NEW h \in {None, r}, Ask(r, h) PROVE TypeOK'
    <2>1. "primary" \in Providers
      BY DEF Providers
    <2>. QED BY <1>11, <2>1 DEF Ask, TypeOK
  <1>12. ASSUME NEW r \in Requests, ReadStatus(r) PROVE TypeOK'
    <2>1. told' \in [Requests -> SUBSET Answers]
      BY <1>12, TellType DEF ReadStatus, Answers
    <2>. QED BY <1>12, <2>1 DEF ReadStatus, TypeOK
  <1>. DEFINE CallType == [step : {"seqno", "trace", "head"}, req : Requests,
                           hash : Requests \cup {None}, on : Providers, from : Nat]
  <1>13. ASSUME call # NoCall, NEW next \in {NoCall} \cup CallType, Continue(next),
                UNCHANGED <<chainVars, req, sendVars>>, ReturnsNothing
         PROVE  TypeOK'
    BY <1>13 DEF Continue, TypeOK
  <1>14. ASSUME call \in CallType, NEW verdict \in Answers, Answer(verdict),
                UNCHANGED <<chainVars, req, sendVars>>, ReturnsNothing
         PROVE  TypeOK'
    <2>1. told' \in [Requests -> SUBSET Answers]
      BY <1>14, TellType DEF Answer
    <2>. QED BY <1>14, <2>1 DEF Answer, TypeOK
  <1>15. CASE ReadSeqno
    <2>1. call \in CallType /\ call # NoCall
      BY <1>15 DEF ReadSeqno, TypeOK, NoCall
    <2>2. view[call.on] \in Nat
      BY <2>1 DEF TypeOK
    <2>3. CASE Answer("consumed")
      BY <1>15, <1>14, <2>1, <2>3 DEF ReadSeqno, Answers
    <2>4. ASSUME NEW step \in {"trace", "head"},
                 Continue([call EXCEPT !.step = step, !.from = view[call.on]])
          PROVE  TypeOK'
      <3>1. [call EXCEPT !.step = step, !.from = view[call.on]] \in CallType
        BY <2>1, <2>2
      <3>. QED BY <1>13, <1>15, <2>1, <2>4, <3>1 DEF ReadSeqno
    <2>. QED BY <1>15, <2>3, <2>4 DEF ReadSeqno
  <1>16. CASE ReadTrace
    <2>1. call \in CallType
      BY <1>16 DEF ReadTrace, TypeOK, NoCall
    <2>2. CASE Answer("consumed")
      BY <1>16, <1>14, <2>1, <2>2 DEF ReadTrace, Answers
    <2>3. ASSUME NEW next \in {NoCall, [call EXCEPT !.step = "head"]}, Continue(next)
          PROVE  TypeOK'
      <3>1. [call EXCEPT !.step = "head"] \in CallType
        BY <2>1
      <3>. QED BY <1>13, <1>16, <2>1, <2>3, <3>1 DEF ReadTrace, NoCall
    <2>. QED BY <1>16, <2>2, <2>3 DEF ReadTrace
  <1>17. CASE ReadHead
    <2>1. call \in CallType
      BY <1>17 DEF ReadHead, TypeOK, NoCall
    <2>2. CASE Answer("expired")
      BY <1>17, <1>14, <2>1, <2>2 DEF ReadHead, Answers
    <2>3. CASE Continue(NoCall)
      BY <1>13, <1>17, <2>1, <2>3 DEF ReadHead, NoCall
    <2>. QED BY <1>17, <2>2, <2>3 DEF ReadHead
  <1>18. CASE ReadFails
    <2>1. call \in CallType
      BY <1>18 DEF ReadFails, TypeOK, NoCall
    <2>2. RetryCall \in {NoCall} \cup CallType
      BY <2>1 DEF RetryCall, Providers
    <2>. QED BY <1>13, <1>18, <2>2 DEF ReadFails
  <1>19. CASE UNCHANGED vars
    BY <1>19 DEF vars, TypeOK
  <1>. QED
    BY <1>1, <1>2, <1>3, <1>4, <1>5, <1>6, <1>7, <1>8, <1>9, <1>10, <1>11, <1>12, <1>15,
       <1>16, <1>17, <1>18, <1>19
    DEF Next, Network, Caller, RequestState

\* Every reachable state is well typed, for every instance of the constants.
THEOREM TypeCorrect == Spec => []TypeOK
  BY TypeInit, TypeStep, PTL DEF Spec

-----------------------------------------------------------------------------
(* The inductive invariant.                                                *)

\* What the margin is for: a state read may trail its provider's head, and the
\* head moves on before it is read.  The two strict comparisons, the wallet's
\* and getRequestState's, leave two more steps.
MarginCovers == StateLag + Drift <= Margin + 2

\* The wallet's seqno was past n in the state as of time t.
SeqnoPast(n, t) == n + 1 \in DOMAIN ledger /\ ledger[n + 1].at <= t
NeverLanded(r) == \A i \in DOMAIN ledger : ledger[i].req # r

\* No provider has seen the block being built.
ViewInv == \A p \in Providers : view[p] < now

\* The i-th entry consumed seqno i - 1, before its request lapsed, and blocks
\* are in order.
LedgerInv ==
  /\ \A i \in DOMAIN ledger :
       /\ Signed(ledger[i].req)
       /\ req[ledger[i].req].seqno = i - 1
       /\ ledger[i].at < req[ledger[i].req].validUntil
       /\ ledger[i].at <= now
  /\ \A i, j \in DOMAIN ledger : i <= j => ledger[i].at <= ledger[j].at

\* Only signed requests travel, only relayed ones run and fail, and only
\* external ones are broadcast.
KindInv ==
  /\ \A r \in pool : Signed(r)
  /\ \A r \in failedRuns : req[r].kind = "internal"
  /\ \A r \in Requests : sending[r] # "idle" => req[r].kind = "external"

\* A getRequestState that got past its seqno read: the seqno had not moved, in
\* a state at most StateLag behind the head of that moment, and the head has
\* moved by at most Drift since.
CallInv ==
  call # NoCall =>
    /\ Signed(call.req)
    /\ call.hash \in {None, call.req}
    /\ call.hash # None => req[call.req].kind = "external" \/ RelayHashes
    /\ call.step = "trace" => call.hash # None
    /\ call.step \in {"trace", "head"} =>
         /\ call.from <= view[call.on]
         /\ view[call.on] <= call.from + Drift
         /\ ~SeqnoPast(req[call.req].seqno, call.from - StateLag)

\* What each answer says of the chain.
ToldInv ==
  \A r \in Requests :
    /\ told[r] # {} => Signed(r)
    /\ told[r] \cap {"expired", "rejected"} # {} => Lapsed(r, now) /\ NeverLanded(r)
    /\ "failed" \in told[r] => \E i \in DOMAIN ledger : ledger[i].req = r /\ ~ledger[i].paid
    /\ "consumed" \in told[r] => RelayHashes \/ Len(ledger) > req[r].seqno

\* Of two requests for a payment one was settled before the other was signed.
ReplaceInv ==
  \A r, q \in Requests :
    r # q /\ Signed(r) /\ Signed(q) /\ req[r].payment = req[q].payment
      => Settled(r) \/ Settled(q)

IInv == TypeOK /\ ViewInv /\ LedgerInv /\ KindInv /\ CallInv /\ ToldInv /\ ReplaceInv

LEMMA InvInit == Init => IInv
  <1>. SUFFICES ASSUME Init PROVE IInv
    OBVIOUS
  <1>1. TypeOK
    BY TypeInit
  <1>2. DOMAIN ledger = {}
    BY DEF Init
  <1>3. LedgerInv
    BY <1>2 DEF LedgerInv
  <1>4. ViewInv /\ KindInv /\ CallInv /\ ToldInv /\ ReplaceInv
    BY DEF Init, ViewInv, KindInv, CallInv, ToldInv, ReplaceInv, Signed, Unsigned
  <1>. QED BY <1>1, <1>3, <1>4 DEF IInv

LEMMA EntryType ==
  ASSUME TypeOK, NEW i \in DOMAIN ledger
  PROVE  /\ i \in 1 .. Len(ledger)
         /\ ledger[i] \in [req : Requests, at : Nat, paid : BOOLEAN]
         /\ ledger[i].req \in Requests
         /\ ledger[i].at \in Nat
  <1>1. i \in 1 .. Len(ledger)
    BY DEF TypeOK
  <1>. DEFINE Entry == [req : Requests, at : Nat, paid : BOOLEAN]
  <1>2. ledger \in Seq(Entry)
    BY DEF TypeOK
  <1>3. ledger[i] \in Entry
    <2>. HIDE DEF Entry
    <2>. QED BY <1>1, <1>2
  <1>. QED BY <1>1, <1>3

\* Once the seqno is past n as of t, at least n + 1 requests had landed by t.
LEMMA HeightPast ==
  ASSUME TypeOK, LedgerInv, NEW t \in Int, NEW n \in Nat, SeqnoPast(n, t)
  PROVE  Height(t) >= n + 1
  <1>1. n + 1 \in DOMAIN ledger /\ ledger[n + 1].at <= t
    BY DEF SeqnoPast
  <1>2. DOMAIN ledger = 1 .. Len(ledger) /\ Len(ledger) \in Nat
    BY DEF TypeOK
  <1>3. \A i \in 1 .. (n + 1) : i \in DOMAIN ledger /\ ledger[i].at <= t
    <2>. SUFFICES ASSUME NEW i \in 1 .. (n + 1) PROVE i \in DOMAIN ledger /\ ledger[i].at <= t
      OBVIOUS
    <2>1. i \in DOMAIN ledger
      BY <1>1, <1>2
    <2>2. ledger[i].at <= ledger[n + 1].at
      BY <1>1, <2>1 DEF LedgerInv
    <2>3. ledger[i].at \in Nat /\ ledger[n + 1].at \in Nat
      BY <1>1, <2>1, EntryType
    <2>. QED BY <1>1, <2>1, <2>2, <2>3
  <1>4. 1 .. (n + 1) \subseteq {i \in DOMAIN ledger : ledger[i].at <= t}
    BY <1>3
  <1>5. Cardinality(1 .. (n + 1)) = n + 1
    <2>1. 1 \in Int /\ n + 1 \in Int
      OBVIOUS
    <2>2. Cardinality(1 .. (n + 1)) = IF 1 > n + 1 THEN 0 ELSE (n + 1) - 1 + 1
      BY <2>1, FS_Interval
    <2>. QED BY <2>2
  <1>6. Cardinality(1 .. (n + 1)) <= Height(t)
    BY <1>4, HeightType, FS_Subset DEF Height
  <1>. QED BY <1>5, <1>6, HeightType

\* A request that landed moved the seqno past its own.
LEMMA LandedPast ==
  ASSUME TypeOK, LedgerInv, NEW i \in DOMAIN ledger
  PROVE  LET r == ledger[i].req IN
         /\ r \in Requests /\ Signed(r)
         /\ Len(ledger) > req[r].seqno
         /\ req[r].seqno \in Nat /\ req[r].validUntil \in Int
         /\ \A t \in Int : ledger[i].at <= t => SeqnoPast(req[r].seqno, t)
  <1>. DEFINE r == ledger[i].req
  <1>1. r \in Requests /\ ledger[i].at \in Nat
    BY EntryType
  <1>2. Signed(r) /\ req[r].seqno = i - 1
    BY DEF LedgerInv
  <1>3. req[r] \in Request
    BY <1>1, <1>2 DEF TypeOK, Signed, Unsigned
  <1>4. i \in 1 .. Len(ledger) /\ Len(ledger) \in Nat
    BY DEF TypeOK
  <1>5. req[r].seqno + 1 = i /\ Len(ledger) > req[r].seqno
    BY <1>2, <1>3, <1>4 DEF Request
  <1>. QED BY <1>1, <1>2, <1>3, <1>5 DEF SeqnoPast, Request

\* A request whose lapse lies no later than t, in a state as of which the seqno
\* was not past its own, never landed.
LEMMA LapsedNeverLanded ==
  ASSUME TypeOK, LedgerInv, NEW r \in Requests, NEW t \in Int, Signed(r),
         req[r].validUntil - 1 <= t, ~SeqnoPast(req[r].seqno, t)
  PROVE  NeverLanded(r)
  <1>. SUFFICES ASSUME NEW i \in DOMAIN ledger, ledger[i].req = r PROVE FALSE
    BY DEF NeverLanded
  <1>1. ledger[i].at < req[r].validUntil /\ ledger[i].at \in Nat
    BY EntryType DEF LedgerInv
  <1>2. ledger[i].at <= t
    BY <1>1, LandedPast
  <1>. QED BY <1>2, LandedPast

LEMMA ReplaceKept ==
  ASSUME ReplaceInv, UNCHANGED req, \A r \in Requests : told[r] \subseteq told'[r]
  PROVE  ReplaceInv'
  BY DEF ReplaceInv, Signed, Settled

LEMMA TellGrows ==
  ASSUME TypeOK, NEW r \in Requests, NEW verdict, Tell(r, verdict)
  PROVE  /\ told'[r] = told[r] \cup {verdict}
         /\ \A q \in Requests : told[q] \subseteq told'[q]
         /\ \A q \in Requests \ {r} : told'[q] = told[q]
  BY DEF TypeOK, Tell

\* A new answer that is true of the chain keeps the answers true.
LEMMA ToldTrue ==
  ASSUME TypeOK, ToldInv, UNCHANGED <<chainVars, req>>, NEW r \in Requests, NEW verdict \in Answers,
         Tell(r, verdict), Signed(r),
         verdict \in {"expired", "rejected"} => Lapsed(r, now) /\ NeverLanded(r),
         verdict = "failed" => \E i \in DOMAIN ledger : ledger[i].req = r /\ ~ledger[i].paid,
         verdict = "consumed" => RelayHashes \/ Len(ledger) > req[r].seqno
  PROVE  ToldInv'
  <1>. SUFFICES ASSUME NEW q \in Requests
                PROVE  /\ told'[q] # {} => Signed(q)
                       /\ told'[q] \cap {"expired", "rejected"} # {} => Lapsed(q, now) /\ NeverLanded(q)
                       /\ "failed" \in told'[q] =>
                            \E i \in DOMAIN ledger : ledger[i].req = q /\ ~ledger[i].paid
                       /\ "consumed" \in told'[q] => RelayHashes \/ Len(ledger) > req[q].seqno
    BY DEF ToldInv, Signed, Lapsed, NeverLanded, chainVars
  <1>1. CASE q = r
    <2>1. told'[r] = told[r] \cup {verdict}
      BY TellGrows
    <2>. QED BY <1>1, <2>1 DEF ToldInv
  <1>2. CASE q # r
    BY <1>2, TellGrows DEF ToldInv
  <1>. QED BY <1>1, <1>2

-----------------------------------------------------------------------------
(* Every step keeps the invariant.                                         *)

LEMMA TickStep == IInv /\ Tick => IInv'
  <1>. SUFFICES ASSUME IInv, Tick PROVE IInv'
    OBVIOUS
  <1>. USE DEF IInv, chainVars, sendVars, callerVars
  <1>1. TypeOK' /\ now' = now + 1 /\ now \in Nat
    BY TypeStep DEF Tick, Next, Network, TypeOK
  <1>2. ViewInv'
    BY <1>1 DEF ViewInv, Tick, TypeOK
  <1>3. LedgerInv'
    BY <1>1, EntryType DEF LedgerInv, Tick, Signed
  <1>4. KindInv' /\ CallInv' /\ ReplaceInv'
    BY DEF Tick, KindInv, CallInv, ReplaceInv, SeqnoPast, Signed, Settled
  <1>5. ToldInv'
    <2>. SUFFICES ASSUME NEW r \in Requests, Lapsed(r, now), Signed(r) PROVE Lapsed(r, now)'
      BY DEF Tick, ToldInv, Signed, NeverLanded
    <2>1. req[r].validUntil \in Int
      BY DEF TypeOK, Request, Signed, Unsigned
    <2>. QED BY <1>1, <2>1 DEF Tick, Lapsed
  <1>. QED BY <1>1, <1>2, <1>3, <1>4, <1>5

LEMMA AdvanceStep ==
  ASSUME IInv, NEW p \in Providers, Advance(p)
  PROVE  IInv'
  <1>. USE DEF IInv, chainVars, sendVars, callerVars
  <1>1. TypeOK'
    BY TypeStep DEF Next, Network
  <1>2. view' = [view EXCEPT ![p] = view[p] + 1] /\ view[p] < now - 1
    BY DEF Advance
  <1>3. ViewInv'
    BY <1>2 DEF ViewInv, Advance, TypeOK
  <1>4. LedgerInv' /\ KindInv' /\ ToldInv' /\ ReplaceInv'
    BY DEF Advance, LedgerInv, KindInv, ToldInv, ReplaceInv, NeverLanded, Signed, Settled, Lapsed
  <1>5. CallInv'
    <2>1. CASE call.step \in {"trace", "head"} /\ call # NoCall
      <3>1. call.from \in Nat /\ call.on \in Providers
        BY <2>1 DEF TypeOK
      <3>2. /\ call.from <= view[call.on]
            /\ view[call.on] <= call.from + Drift
            /\ call.on = p => view[p] < call.from + Drift
        BY <2>1 DEF CallInv, Advance
      <3>3. view'[call.on] <= call.from + Drift /\ call.from <= view'[call.on]
        BY <1>2, <3>1, <3>2, TonAssumption DEF TypeOK
      <3>. QED BY <2>1, <3>3 DEF CallInv, Advance, SeqnoPast, Signed
    <2>2. CASE ~(call.step \in {"trace", "head"} /\ call # NoCall)
      BY <2>2 DEF CallInv, Advance, SeqnoPast, Signed
    <2>. QED BY <2>1, <2>2
  <1>. QED BY <1>1, <1>3, <1>4, <1>5

LEMMA LandStep ==
  ASSUME IInv, NEW r \in Requests, NEW paid \in BOOLEAN, Land(r, paid)
  PROVE  IInv'
  <1>. USE DEF IInv, chainVars, sendVars, callerVars
  <1>1. TypeOK'
    BY TypeStep DEF Next, Network
  <1>. DEFINE entry == [req |-> r, at |-> now, paid |-> paid]
  <1>2. /\ ledger' = Append(ledger, entry)
        /\ Signed(r) /\ req[r].seqno = Len(ledger) /\ ~Lapsed(r, now)
        /\ UNCHANGED <<now, view, failedRuns, req, sendVars, callerVars>>
    BY DEF Land, CanLand, KindInv
  <1>3. /\ Len(ledger) \in Nat /\ now \in Nat
        /\ DOMAIN ledger = 1 .. Len(ledger)
        /\ DOMAIN ledger' = 1 .. (Len(ledger) + 1)
        /\ Len(ledger') = Len(ledger) + 1
        /\ \A i \in DOMAIN ledger : ledger'[i] = ledger[i]
        /\ ledger'[Len(ledger) + 1] = entry
    BY <1>2 DEF TypeOK
  <1>. HIDE DEF entry
  <1>4. req[r].validUntil \in Int
    BY <1>2 DEF TypeOK, Request, Signed, Unsigned
  <1>5. ViewInv' /\ KindInv' /\ ReplaceInv'
    BY <1>2 DEF ViewInv, KindInv, ReplaceInv, Signed, Settled
  <1>6. LedgerInv'
    <2>1. ASSUME NEW i \in DOMAIN ledger'
          PROVE  /\ req[ledger'[i].req].kind # "none"
                 /\ req[ledger'[i].req].seqno = i - 1
                 /\ ledger'[i].at < req[ledger'[i].req].validUntil
                 /\ ledger'[i].at <= now
      <3>1. CASE i = Len(ledger) + 1
        BY <3>1, <1>2, <1>3, <1>4 DEF entry, Signed, Lapsed
      <3>2. CASE i # Len(ledger) + 1
        <4>1. i \in DOMAIN ledger
          BY <3>2, <1>3
        <4>. QED BY <4>1, <1>2, <1>3 DEF LedgerInv, Signed
      <3>. QED BY <3>1, <3>2
    <2>2. ASSUME NEW i \in DOMAIN ledger', NEW j \in DOMAIN ledger', i <= j
          PROVE  ledger'[i].at <= ledger'[j].at
      <3>1. CASE j = Len(ledger) + 1
        BY <3>1, <2>1, <1>2, <1>3 DEF entry
      <3>2. CASE j # Len(ledger) + 1
        <4>1. i \in DOMAIN ledger /\ j \in DOMAIN ledger
          BY <3>2, <2>2, <1>3
        <4>. QED BY <4>1, <2>2, <1>3 DEF LedgerInv
      <3>. QED BY <3>1, <3>2
    <2>3. UNCHANGED <<req, now>>
      BY <1>2
    <2>. QED BY <2>1, <2>2, <2>3 DEF LedgerInv, Signed
  <1>7. CallInv'
    <2>. SUFFICES ASSUME call # NoCall, call.step \in {"trace", "head"}
                  PROVE  ~SeqnoPast(req[call.req].seqno, call.from - StateLag)'
      BY <1>2 DEF CallInv, Signed
    <2>1. /\ call.from <= view[call.on] /\ view[call.on] < now
          /\ call.from \in Nat /\ view[call.on] \in Nat
      BY DEF CallInv, ViewInv, TypeOK
    <2>2. ~SeqnoPast(req[call.req].seqno, call.from - StateLag)
      BY DEF CallInv
    <2>3. call.from - StateLag < now /\ call.from - StateLag \in Int
      <3>1. StateLag \in Nat /\ now \in Int
        BY <2>1, <1>3, TonAssumption DEF TypeOK
      <3>. QED BY <2>1, <3>1
    <2>4. entry.at = now
      BY DEF entry
    <2>. QED BY <2>2, <2>3, <2>4, <1>2, <1>3 DEF SeqnoPast
  <1>8. ToldInv'
    <2>. SUFFICES ASSUME NEW q \in Requests
                  PROVE  /\ told[q] # {} => Signed(q)
                         /\ told[q] \cap {"expired", "rejected"} # {} =>
                              Lapsed(q, now) /\ NeverLanded(q)'
                         /\ "failed" \in told[q] =>
                              \E i \in DOMAIN ledger' : ledger'[i].req = q /\ ~ledger'[i].paid
                         /\ "consumed" \in told[q] => RelayHashes \/ Len(ledger') > req[q].seqno
      BY <1>2 DEF ToldInv, Signed, Lapsed
    <2>1. told[q] # {} => Signed(q)
      BY DEF ToldInv
    <2>2. told[q] \cap {"expired", "rejected"} # {} => Lapsed(q, now) /\ NeverLanded(q)'
      <3>. SUFFICES ASSUME told[q] \cap {"expired", "rejected"} # {}
                    PROVE  Lapsed(q, now) /\ NeverLanded(q)'
        OBVIOUS
      <3>1. Lapsed(q, now) /\ NeverLanded(q)
        BY DEF ToldInv
      <3>2. q # r
        BY <3>1, <1>2
      <3>3. ASSUME NEW i \in DOMAIN ledger' PROVE ledger'[i].req # q
        <4>1. CASE i \in DOMAIN ledger
          BY <4>1, <3>1, <1>3 DEF NeverLanded
        <4>2. CASE i = Len(ledger) + 1
          BY <4>2, <3>2, <1>3 DEF entry
        <4>. QED BY <4>1, <4>2, <1>3
      <3>. QED BY <3>1, <3>3 DEF NeverLanded
    <2>3. "failed" \in told[q] =>
            \E i \in DOMAIN ledger' : ledger'[i].req = q /\ ~ledger'[i].paid
      <3>. SUFFICES ASSUME "failed" \in told[q]
                    PROVE  \E i \in DOMAIN ledger' : ledger'[i].req = q /\ ~ledger'[i].paid
        OBVIOUS
      <3>1. PICK i \in DOMAIN ledger : ledger[i].req = q /\ ~ledger[i].paid
        BY DEF ToldInv
      <3>2. i \in DOMAIN ledger' /\ ledger'[i] = ledger[i]
        BY <1>3
      <3>. QED BY <3>1, <3>2
    <2>4. "consumed" \in told[q] => RelayHashes \/ Len(ledger') > req[q].seqno
      <3>. SUFFICES ASSUME "consumed" \in told[q], ~RelayHashes
                    PROVE  Len(ledger') > req[q].seqno
        OBVIOUS
      <3>1. Len(ledger) > req[q].seqno /\ Signed(q)
        BY DEF ToldInv
      <3>2. req[q].seqno \in Nat
        BY <3>1 DEF TypeOK, Request, Signed, Unsigned
      <3>. QED BY <3>1, <3>2, <1>3
    <2>. QED BY <2>1, <2>2, <2>3, <2>4
  <1>. QED BY <1>1, <1>5, <1>6, <1>7, <1>8

LEMMA RunAndFailStep ==
  ASSUME IInv, NEW r \in Requests, RunAndFail(r)
  PROVE  IInv'
  <1>. USE DEF IInv, chainVars, sendVars, callerVars
  <1>1. TypeOK'
    BY TypeStep DEF Next, Network
  <1>2. KindInv'
    BY DEF RunAndFail, MayFailWhole, KindInv, Signed
  <1>3. ViewInv' /\ LedgerInv' /\ CallInv' /\ ToldInv' /\ ReplaceInv'
    BY DEF RunAndFail, ViewInv, LedgerInv, CallInv, ToldInv, ReplaceInv, SeqnoPast,
           NeverLanded, Signed, Settled, Lapsed
  <1>. QED BY <1>1, <1>2, <1>3

LEMMA SignStep ==
  ASSUME IInv, TypeOK', NEW r \in Requests, NEW k \in Kinds, NEW p \in Payments, NEW n \in Nat,
         SignRequest(r, k, p, n)
  PROVE  IInv'
  <1>. USE DEF IInv, chainVars, sendVars, callerVars
  <1>1. PICK skew \in ClockSkews :
          req' = [req EXCEPT ![r] = [kind |-> k, payment |-> p, seqno |-> n,
                                     validUntil |-> now + TTL + skew]]
    BY DEF SignRequest
  <1>2. /\ ~Signed(r)
        /\ UNCHANGED <<chainVars, sendVars, callerVars>>
        /\ \A q \in Requests : q # r => req'[q] = req[q]
        /\ req'[r].kind = k /\ k # "none" /\ req'[r].payment = p
    BY <1>1 DEF SignRequest, TypeOK, Kinds
  <1>3. \A q \in Requests : Signed(q) => req'[q] = req[q]
    BY <1>2
  <1>4. ViewInv'
    BY <1>2 DEF ViewInv
  <1>5. LedgerInv'
    BY <1>2, <1>3, EntryType DEF LedgerInv, Signed
  <1>6. KindInv'
    <2>1. \A q \in Requests : req[q].kind \in {"internal", "external"} => Signed(q)
      BY DEF Signed
    <2>. QED BY <2>1, <1>2, <1>3 DEF KindInv, TypeOK, Signed
  <1>7. CallInv'
    <2>1. call # NoCall => call.req \in Requests
      BY DEF TypeOK
    <2>. QED BY <2>1, <1>2, <1>3 DEF CallInv, SeqnoPast, Signed
  <1>8. ToldInv'
    BY <1>2, <1>3 DEF ToldInv, NeverLanded, Signed, Lapsed
  <1>9. ReplaceInv'
    <2>. SUFFICES ASSUME NEW a \in Requests, NEW b \in Requests, a # b,
                         req'[a].kind # "none", req'[b].kind # "none",
                         req'[a].payment = req'[b].payment
                  PROVE  Settled(a) \/ Settled(b)
      BY <1>2 DEF ReplaceInv, Signed, Settled
    <2>1. CASE a # r /\ b # r
      BY <2>1, <1>2 DEF ReplaceInv, Signed
    <2>2. CASE a = r \/ b = r
      BY <2>2, <1>2 DEF SignRequest, MaySign, Signed
    <2>. QED BY <2>1, <2>2
  <1>. QED BY <1>4, <1>5, <1>6, <1>7, <1>8, <1>9

LEMMA HandToRelayerStep ==
  ASSUME IInv, NEW r \in Requests, HandToRelayer(r)
  PROVE  IInv'
  <1>. USE DEF IInv, chainVars, sendVars, callerVars
  <1>1. TypeOK'
    BY TypeStep DEF Next, Caller
  <1>2. KindInv'
    BY DEF HandToRelayer, KindInv, Signed
  <1>3. ViewInv' /\ LedgerInv' /\ CallInv' /\ ToldInv' /\ ReplaceInv'
    BY DEF HandToRelayer, ViewInv, LedgerInv, CallInv, ToldInv, ReplaceInv, SeqnoPast,
           NeverLanded, Signed, Settled, Lapsed
  <1>. QED BY <1>1, <1>2, <1>3

LEMMA BroadcastStep ==
  ASSUME IInv, NEW r \in Requests, Broadcast(r)
  PROVE  IInv'
  <1>. USE DEF IInv, chainVars, sendVars, callerVars
  <1>1. TypeOK'
    BY TypeStep DEF Next, Caller
  <1>2. KindInv'
    BY DEF Broadcast, KindInv, Signed, TypeOK
  <1>3. ViewInv' /\ LedgerInv' /\ CallInv' /\ ToldInv' /\ ReplaceInv'
    BY DEF Broadcast, ViewInv, LedgerInv, CallInv, ToldInv, ReplaceInv, SeqnoPast,
           NeverLanded, Signed, Settled, Lapsed
  <1>. QED BY <1>1, <1>2, <1>3

\* A definite rejection by the wallet: in a state of the provider it asked the
\* seqno was the request's and the request had lapsed.
LEMMA RejectedIsOver ==
  ASSUME IInv, NEW r \in Requests, Signed(r), NEW x \in Exchanges(r, "primary"),
         SendBoc(x.reply).kind = "BroadcastRejected"
  PROVE  Lapsed(r, now) /\ NeverLanded(r)
  <1>. USE DEF IInv
  <1>1. x.reply.text = "code0"
    <2>1. x.reply \in Replies
      BY ExchangesReply
    <2>2. x.reply.status = "2xx" => x.reply.text \in {"plain", "nonJson"}
      BY DEF Exchanges, NoAnswer, TurnedAway
    <2>. QED BY <2>1, <2>2, RejectedReply
  <1>2. "code0" \in Verdicts(r, "primary")
    BY <1>1 DEF Exchanges, NoAnswer, TurnedAway
  <1>3. PICK t \in StatesOf("primary") : WalletVerdict(r, t) = "code0"
    BY <1>2 DEF Verdicts
  <1>4. req[r].seqno = Height(t) /\ Lapsed(r, t)
    BY <1>3 DEF WalletVerdict
  <1>5. t \in Nat /\ t <= now
    <2>1. "primary" \in Providers
      BY DEF Providers
    <2>2. t \in Nat /\ t <= view["primary"]
      BY <2>1, StatesType
    <2>. QED BY <2>1, <2>2 DEF ViewInv, TypeOK
  <1>6. req[r].seqno \in Nat /\ req[r].validUntil \in Int
    BY DEF TypeOK, Request, Signed, Unsigned
  <1>7. ~SeqnoPast(req[r].seqno, t)
    BY <1>4, <1>5, <1>6, HeightPast
  <1>8. req[r].validUntil - 1 <= t
    BY <1>4, <1>5, <1>6 DEF Lapsed
  <1>9. NeverLanded(r)
    BY <1>5, <1>7, <1>8, LapsedNeverLanded
  <1>10. Lapsed(r, now)
    BY <1>4, <1>5, <1>6 DEF Lapsed, TypeOK
  <1>. QED BY <1>9, <1>10

LEMMA SendKeeps ==
  ASSUME IInv, NEW r \in Requests, sending[r] # "idle", UNCHANGED <<chainVars, req, call>>,
         pool' \subseteq pool \cup {r}, NEW v, sending' = [sending EXCEPT ![r] = v]
  PROVE  ViewInv' /\ LedgerInv' /\ KindInv' /\ CallInv' /\ Signed(r)
  <1>. USE DEF IInv, chainVars
  <1>1. ViewInv' /\ LedgerInv' /\ CallInv'
    BY DEF ViewInv, LedgerInv, CallInv, SeqnoPast, Signed
  <1>2. req[r].kind = "external" /\ Signed(r)
    BY DEF KindInv, Signed
  <1>3. KindInv'
    BY <1>2 DEF KindInv, Signed, TypeOK
  <1>. QED BY <1>1, <1>2, <1>3

LEMMA ToldKept ==
  ASSUME IInv, UNCHANGED <<chainVars, req, told>>
  PROVE  ToldInv' /\ ReplaceInv'
  BY DEF IInv, ToldInv, ReplaceInv, NeverLanded, Signed, Settled, Lapsed, chainVars

LEMMA SendPrimaryStep ==
  ASSUME IInv, NEW r \in Requests, SendPrimary(r)
  PROVE  IInv'
  <1>. USE DEF IInv
  <1>1. TypeOK'
    BY TypeStep DEF Next, Caller
  <1>2. sending[r] # "idle" /\ UNCHANGED <<chainVars, req, call>>
    BY DEF SendPrimary
  <1>3. PICK x \in Exchanges(r, "primary") :
          /\ pool' = TakenInto(pool, r, x.taken)
          /\ LET outcome == SendBoc(x.reply) IN
             IF outcome.retryable /\ HasFallback
               THEN /\ sending' = [sending EXCEPT ![r] = "fallback"]
                    /\ handed' = TakenInto(handed, r, x.taken)
                    /\ UNCHANGED told
                    /\ ReturnsNothing
               ELSE Return(r, IF outcome.retryable THEN "BroadcastUncertain" ELSE outcome.kind,
                           x.taken)
    BY DEF SendPrimary
  <1>. DEFINE out == SendBoc(x.reply)
              end == IF out.retryable THEN "BroadcastUncertain" ELSE out.kind
  <1>4. pool' \subseteq pool \cup {r}
    BY <1>3 DEF TakenInto
  <1>5. CASE out.retryable /\ HasFallback
    <2>1. sending' = [sending EXCEPT ![r] = "fallback"] /\ UNCHANGED told
      BY <1>3, <1>5
    <2>. QED BY <2>1, <1>1, <1>2, <1>4, SendKeeps, ToldKept
  <1>6. CASE ~(out.retryable /\ HasFallback)
    <2>1. Return(r, end, x.taken)
      BY <1>3, <1>6
    <2>2. sending' = [sending EXCEPT ![r] = "idle"]
      BY <2>1 DEF Return
    <2>3. ViewInv' /\ LedgerInv' /\ KindInv' /\ CallInv' /\ Signed(r)
      BY <2>2, <1>2, <1>4, SendKeeps
    <2>4. CASE end = "BroadcastRejected"
      <3>1. Tell(r, "rejected")
        BY <2>1, <2>4 DEF Return
      <3>2. Lapsed(r, now) /\ NeverLanded(r)
        BY <2>3, <2>4, RejectedIsOver
      <3>3. ToldInv'
        BY <3>1, <3>2, <2>3, <1>2, ToldTrue DEF Answers
      <3>4. ReplaceInv'
        BY <3>1, <1>2, TellGrows, ReplaceKept
      <3>. QED BY <1>1, <2>3, <3>3, <3>4
    <2>5. CASE end # "BroadcastRejected"
      <3>1. UNCHANGED told
        BY <2>1, <2>5 DEF Return
      <3>. QED BY <3>1, <1>1, <1>2, <2>3, ToldKept
    <2>. QED BY <2>4, <2>5
  <1>. QED BY <1>5, <1>6

LEMMA SendFallbackStep ==
  ASSUME IInv, NEW r \in Requests, SendFallback(r)
  PROVE  IInv'
  <1>. USE DEF IInv
  <1>1. TypeOK'
    BY TypeStep DEF Next, Caller
  <1>2. sending[r] # "idle" /\ UNCHANGED <<chainVars, req, call>>
    BY DEF SendFallback
  <1>3. PICK x \in Exchanges(r, "fallback") :
          /\ pool' = TakenInto(pool, r, x.taken)
          /\ Return(r, AfterFallback(SendBoc(x.reply)), x.taken)
    BY DEF SendFallback
  <1>4. sending' = [sending EXCEPT ![r] = "idle"] /\ UNCHANGED told
    BY <1>3 DEF Return, AfterFallback
  <1>5. pool' \subseteq pool \cup {r}
    BY <1>3 DEF TakenInto
  <1>. QED BY <1>1, <1>2, <1>4, <1>5, SendKeeps, ToldKept

\* A call that goes on, or ends without an answer.
LEMMA ContinueStep ==
  ASSUME IInv, TypeOK', UNCHANGED <<chainVars, req, sendVars, told>>, CallInv'
  PROVE  IInv'
  <1>1. ViewInv' /\ LedgerInv' /\ KindInv'
    BY DEF IInv, ViewInv, LedgerInv, KindInv, Signed, chainVars, sendVars
  <1>. QED BY <1>1, ToldKept DEF IInv

\* A call that answers truly.
LEMMA AnswerStep ==
  ASSUME IInv, TypeOK', UNCHANGED <<chainVars, req, sendVars>>, NEW verdict \in Answers,
         call # NoCall, Answer(verdict), NEW r, r = call.req,
         verdict \in {"expired", "rejected"} => Lapsed(r, now) /\ NeverLanded(r),
         verdict # "failed",
         verdict = "consumed" => RelayHashes \/ Len(ledger) > req[r].seqno
  PROVE  IInv'
  <1>. USE DEF IInv
  <1>1. r \in Requests /\ Signed(r) /\ Tell(r, verdict)
    BY DEF TypeOK, CallInv, Answer
  <1>2. ViewInv' /\ LedgerInv' /\ KindInv'
    BY DEF ViewInv, LedgerInv, KindInv, Signed, chainVars, sendVars
  <1>3. CallInv'
    BY DEF CallInv, Answer
  <1>4. ToldInv'
    BY <1>1, ToldTrue
  <1>5. ReplaceInv'
    BY <1>1, TellGrows, ReplaceKept
  <1>. QED BY <1>2, <1>3, <1>4, <1>5

LEMMA AskStep ==
  ASSUME IInv, NEW r \in Requests, NEW h \in {None, r}, Ask(r, h)
  PROVE  IInv'
  <1>. USE DEF IInv
  <1>1. TypeOK'
    BY TypeStep DEF Next, Caller
  <1>2. CallInv'
    BY TonAssumption DEF Ask, CallInv, NoCall, Signed
  <1>. QED BY <1>1, <1>2, ContinueStep DEF Ask

LEMMA ReadSeqnoStep == IInv /\ ReadSeqno => IInv'
  <1>. SUFFICES ASSUME IInv, ReadSeqno PROVE IInv'
    OBVIOUS
  <1>. USE DEF IInv
  <1>1. TypeOK'
    BY TypeStep DEF Next, RequestState
  <1>. DEFINE r == call.req
              n == req[r].seqno
              v == view[call.on]
  <1>2. /\ call # NoCall /\ r \in Requests /\ call.on \in Providers /\ v \in Nat
        /\ Signed(r) /\ call.step = "seqno"
    BY DEF ReadSeqno, NoCall, TypeOK, CallInv
  <1>3. n \in Nat
    BY <1>2 DEF TypeOK, Request, Signed, Unsigned
  <1>4. PICK t \in StatesOf(call.on) :
          IF MovedPast(Height(t), n)
            THEN Answer("consumed")
            ELSE Continue([call EXCEPT !.step = IF call.hash = None THEN "head" ELSE "trace",
                                       !.from = v])
    BY DEF ReadSeqno
  <1>5. t \in Nat /\ t <= v /\ t >= v - StateLag
    BY <1>2, StatesType
  <1>6. UNCHANGED <<chainVars, req, sendVars>>
    BY DEF ReadSeqno
  <1>7. CASE MovedPast(Height(t), n)
    <2>1. Height(t) \in Nat /\ Height(t) <= Len(ledger)
      BY HeightType
    <2>2. Len(ledger) \in Nat
      BY DEF TypeOK
    <2>3. Height(t) > n
      BY <1>7 DEF MovedPast
    <2>4. Len(ledger) > n
      <3>. HIDE DEF n, IInv
      <3>. QED BY <2>1, <2>2, <2>3, <1>3
    <2>. QED BY <1>1, <1>2, <1>4, <1>6, <1>7, <2>4, AnswerStep DEF Answers
  <1>8. CASE ~MovedPast(Height(t), n)
    <2>1. ~SeqnoPast(n, t)
      <3>. SUFFICES ASSUME SeqnoPast(n, t) PROVE FALSE
        OBVIOUS
      <3>1. t \in Int /\ n + 1 \in Nat
        BY <1>5, <1>3
      <3>2. Height(t) \in Nat /\ ~(Height(t) > n)
        BY HeightType, <1>8 DEF MovedPast
      <3>3. Height(t) >= n + 1
        <4>. HIDE DEF n
        <4>. QED BY <3>1, <1>3, HeightPast
      <3>. HIDE DEF n, IInv
      <3>. QED BY <3>2, <3>3, <1>3
    <2>2. ~SeqnoPast(n, v - StateLag)
      <3>1. \A i \in DOMAIN ledger : ledger[i].at \in Int
        BY EntryType
      <3>2. t \in Int /\ v - StateLag \in Int /\ v - StateLag <= t
        BY <1>2, <1>5, TonAssumption
      <3>. QED BY <2>1, <3>1, <3>2 DEF SeqnoPast
    <2>3. /\ call' = [call EXCEPT !.step = IF call.hash = None THEN "head" ELSE "trace",
                                  !.from = v]
          /\ UNCHANGED told
      BY <1>4, <1>8 DEF Continue
    <2>4. /\ call'.req = r /\ call'.hash = call.hash /\ call'.on = call.on /\ call'.from = v
      BY <2>3, <1>2 DEF TypeOK
    <2>5. v <= v + Drift
      BY <1>2, TonAssumption
    <2>6. /\ ledger' = ledger /\ view' = view /\ req' = req
          /\ call'.step \in {"head", "trace"}
          /\ call'.step = "trace" => call.hash # None
      BY <2>3, <1>2, <1>6 DEF chainVars, TypeOK
    <2>7. CallInv'
      BY <2>2, <2>4, <2>5, <2>6, <1>2 DEF CallInv, SeqnoPast, Signed, NoCall
    <2>. QED BY <1>1, <1>6, <2>3, <2>7, ContinueStep
  <1>. QED BY <1>7, <1>8

LEMMA ReadTraceStep == IInv /\ ReadTrace => IInv'
  <1>. SUFFICES ASSUME IInv, ReadTrace PROVE IInv'
    OBVIOUS
  <1>. USE DEF IInv
  <1>1. TypeOK'
    BY TypeStep DEF Next, RequestState
  <1>2. /\ call # NoCall /\ call.req \in Requests /\ Signed(call.req) /\ call.step = "trace"
    BY DEF ReadTrace, NoCall, TypeOK, CallInv
  <1>3. UNCHANGED <<chainVars, req, sendVars>>
    BY DEF ReadTrace
  <1>4. CASE Continue([call EXCEPT !.step = "head"])
    <2>1. call' = [call EXCEPT !.step = "head"] /\ UNCHANGED told
      BY <1>4 DEF Continue
    <2>2. CallInv'
      BY <2>1, <1>2, <1>3 DEF CallInv, SeqnoPast, Signed, chainVars, TypeOK
    <2>. QED BY <1>1, <1>3, <2>1, <2>2, ContinueStep
  <1>5. CASE Continue(NoCall)
    <2>1. CallInv' /\ UNCHANGED told
      BY <1>5 DEF Continue, CallInv
    <2>. QED BY <1>1, <1>3, <2>1, ContinueStep
  <1>6. ASSUME NEW t \in StatesOf(call.on), HasTrace(call.hash, t), Answer("consumed")
        PROVE  IInv'
    <2>1. call.hash = call.req \/ call.hash = None
      BY <1>2 DEF CallInv
    <2>2. RelayHashes \/ Len(ledger) > req[call.req].seqno
      <3>. SUFFICES ASSUME ~RelayHashes PROVE Len(ledger) > req[call.req].seqno
        OBVIOUS
      <3>1. call.hash # None
        BY <1>2 DEF CallInv
      <3>2. call.hash = call.req /\ req[call.req].kind = "external"
        BY <1>2, <2>1, <3>1 DEF CallInv
      <3>3. PICK i \in DOMAIN ledger : ledger[i].req = call.req
        BY <1>6, <3>2 DEF HasTrace, Landed
      <3>. QED BY <3>3, LandedPast
    <2>. QED BY <1>1, <1>2, <1>3, <1>6, <2>2, AnswerStep DEF Answers
  <1>. QED BY <1>4, <1>5, <1>6 DEF ReadTrace

\* The head is past the lapse by more than the margin, so the seqno was read in
\* a state past the lapse.
LEMMA ReadHeadStep ==
  ASSUME MarginCovers, IInv, ReadHead
  PROVE  IInv'
  <1>. USE DEF IInv
  <1>1. TypeOK'
    BY TypeStep DEF Next, RequestState
  <1>. DEFINE r == call.req
              v == view[call.on]
              s == call.from - StateLag
  <1>2. /\ call # NoCall /\ r \in Requests /\ call.on \in Providers /\ call.from \in Nat
        /\ v \in Nat /\ Signed(r) /\ call.step = "head"
    BY DEF ReadHead, NoCall, TypeOK, CallInv
  <1>3. UNCHANGED <<chainVars, req, sendVars>>
    BY DEF ReadHead
  <1>4. CASE Continue(NoCall)
    <2>1. CallInv' /\ UNCHANGED told
      BY <1>4 DEF Continue, CallInv
    <2>. QED BY <1>1, <1>3, <2>1, ContinueStep
  <1>5. CASE Answer("expired") /\ ExpiredAt(v, req[r].validUntil)
    <2>1. req[r].validUntil \in Int /\ req[r].seqno \in Nat
      BY <1>2 DEF TypeOK, Request, Signed, Unsigned
    <2>2. /\ v <= call.from + Drift /\ ~SeqnoPast(req[r].seqno, s)
          /\ v < now /\ now \in Nat
      BY <1>2 DEF CallInv, ViewInv, TypeOK
    <2>3. req[r].validUntil - 1 <= s /\ s \in Int
      BY <1>2, <1>5, <2>1, <2>2, TonAssumption DEF ExpiredAt, MarginCovers
    <2>4. NeverLanded(r)
      BY <1>2, <2>2, <2>3, LapsedNeverLanded
    <2>5. Lapsed(r, now)
      BY <1>2, <1>5, <2>1, <2>2, TonAssumption DEF ExpiredAt, Lapsed
    <2>. QED BY <1>1, <1>2, <1>3, <1>5, <2>4, <2>5, AnswerStep DEF Answers
  <1>. QED BY <1>4, <1>5 DEF ReadHead

LEMMA ReadFailsStep == IInv /\ ReadFails => IInv'
  <1>. SUFFICES ASSUME IInv, ReadFails PROVE IInv'
    OBVIOUS
  <1>. USE DEF IInv
  <1>1. TypeOK'
    BY TypeStep DEF Next, RequestState
  <1>2. UNCHANGED <<chainVars, req, sendVars, told>> /\ call' = RetryCall /\ call # NoCall
    BY DEF ReadFails, Continue
  <1>3. CallInv'
    <2>1. CASE call' = NoCall
      BY <2>1 DEF CallInv
    <2>2. CASE call' = [call EXCEPT !.step = "seqno", !.on = "fallback", !.from = 0]
      <3>1. call'.step = "seqno" /\ call'.req = call.req /\ call'.hash = call.hash
        BY <2>2, <1>2 DEF TypeOK
      <3>. QED BY <3>1, <1>2 DEF CallInv, Signed
    <2>. QED BY <2>1, <2>2, <1>2 DEF RetryCall
  <1>. QED BY <1>1, <1>2, <1>3, ContinueStep

LEMMA ReadStatusStep ==
  ASSUME IInv, NEW r \in Requests, ReadStatus(r)
  PROVE  IInv'
  <1>. USE DEF IInv
  <1>1. TypeOK'
    BY TypeStep DEF Next, Caller
  <1>2. /\ Tell(r, "failed") /\ req[r].kind = "external"
        /\ UNCHANGED <<chainVars, req, sendVars, call>>
    BY DEF ReadStatus, StatusFailed
  <1>3. \E i \in DOMAIN ledger : ledger[i].req = r /\ ~ledger[i].paid
    BY <1>2 DEF ReadStatus, StatusFailed, KindInv
  <1>4. Signed(r)
    BY <1>2 DEF Signed
  <1>5. ViewInv' /\ LedgerInv' /\ KindInv' /\ CallInv'
    BY <1>2 DEF ViewInv, LedgerInv, KindInv, CallInv, SeqnoPast, Signed, chainVars, sendVars
  <1>6. ToldInv'
    BY <1>2, <1>3, <1>4, ToldTrue DEF Answers
  <1>7. ReplaceInv'
    BY <1>2, TellGrows, ReplaceKept
  <1>. QED BY <1>1, <1>5, <1>6, <1>7

LEMMA InvStep ==
  ASSUME MarginCovers, IInv, [Next]_vars
  PROVE  IInv'
  <1>1. ASSUME NEW r \in Requests, NEW p \in Payments, SignTransaction(r, p) PROVE IInv'
    <2>1. PICK q \in Providers : \E t \in StatesOf(q) : SignRequest(r, "external", p, Height(t))
      BY <1>1 DEF SignTransaction
    <2>2. PICK t \in StatesOf(q) : SignRequest(r, "external", p, Height(t))
      BY <2>1
    <2>3. Height(t) \in Nat /\ TypeOK'
      BY <1>1, HeightType, TypeStep DEF IInv, Next, Caller
    <2>. QED BY <2>2, <2>3, SignStep DEF Kinds
  <1>2. ASSUME NEW r \in Requests, NEW p \in Payments, SignAtSeqno(r, p) PROVE IInv'
    <2>1. PICK k \in Kinds, n \in {Len(ledger), Len(ledger) + 1} : SignRequest(r, k, p, n)
      BY <1>2 DEF SignAtSeqno
    <2>2. n \in Nat /\ TypeOK'
      <3>1. TypeOK'
        BY <1>2, TypeStep DEF IInv, Next, Caller
      <3>2. Len(ledger) \in Nat
        BY DEF IInv, TypeOK
      <3>. QED BY <3>1, <3>2
    <2>. QED BY <2>1, <2>2, SignStep
  <1>3. CASE Network
    BY <1>3, TickStep, AdvanceStep, LandStep, RunAndFailStep DEF Network
  <1>4. CASE Caller
    BY <1>1, <1>2, <1>4, HandToRelayerStep, BroadcastStep, SendPrimaryStep, SendFallbackStep,
       AskStep, ReadStatusStep
    DEF Caller
  <1>5. CASE RequestState
    BY <1>5, ReadSeqnoStep, ReadTraceStep, ReadHeadStep, ReadFailsStep DEF RequestState
  <1>6. CASE UNCHANGED vars
    <2>1. TypeOK'
      BY <1>6, TypeStep DEF IInv
    <2>2. CallInv' /\ UNCHANGED <<chainVars, req, sendVars, told>>
      BY <1>6 DEF IInv, CallInv, SeqnoPast, Signed, vars, chainVars, sendVars, callerVars
    <2>. QED BY <2>1, <2>2, ContinueStep
  <1>. QED BY <1>3, <1>4, <1>5, <1>6 DEF Next

-----------------------------------------------------------------------------
(* What the invariant says.                                                *)

LEMMA InvPaidOnce == IInv => PaidOnce
  <1>. SUFFICES ASSUME IInv, NEW i \in DOMAIN ledger, NEW j \in DOMAIN ledger,
                       ledger[i].paid, ledger[j].paid, i # j,
                       req[ledger[i].req].payment = req[ledger[j].req].payment
                PROVE  FALSE
    BY DEF PaidOnce
  <1>. USE DEF IInv
  <1>. DEFINE a == ledger[i].req
              b == ledger[j].req
  <1>1. a \in Requests /\ b \in Requests /\ Signed(a) /\ Signed(b)
    BY LandedPast
  <1>2. i \in Nat /\ j \in Nat /\ req[a].seqno = i - 1 /\ req[b].seqno = j - 1
    BY EntryType DEF LedgerInv
  <1>3. a # b
    BY <1>2
  <1>4. ASSUME NEW k \in DOMAIN ledger, ledger[k].paid, Settled(ledger[k].req)
        PROVE  FALSE
    <2>. DEFINE q == ledger[k].req
    <2>1. q \in Requests /\ ~NeverLanded(q)
      BY LandedPast DEF NeverLanded
    <2>2. "failed" \in told[q]
      BY <1>4, <2>1 DEF Settled, ToldInv
    <2>3. PICK m \in DOMAIN ledger : ledger[m].req = q /\ ~ledger[m].paid
      BY <2>1, <2>2 DEF ToldInv
    <2>4. m = k
      <3>1. m \in Nat /\ k \in Nat
        BY EntryType
      <3>2. req[q].seqno = m - 1 /\ req[q].seqno = k - 1
        BY <2>3 DEF LedgerInv
      <3>. QED BY <3>1, <3>2
    <2>. QED BY <1>4, <2>3, <2>4
  <1>. QED BY <1>1, <1>3, <1>4 DEF ReplaceInv

LEMMA InvAnswers ==
  IInv => ExpiredNeverLands /\ RejectedNeverLands /\ FailedNeverPays
  <1>. SUFFICES ASSUME IInv PROVE ExpiredNeverLands /\ RejectedNeverLands /\ FailedNeverPays
    OBVIOUS
  <1>. USE DEF IInv
  <1>1. ASSUME NEW r \in Requests, told[r] \cap {"expired", "rejected"} # {}
        PROVE  ~Landed(r, now) /\ ~CanLand(r)
    BY <1>1 DEF ToldInv, NeverLanded, Landed, CanLand
  <1>2. ASSUME NEW r \in Requests, "failed" \in told[r]
        PROVE  /\ ~CanLand(r)
               /\ \A i \in DOMAIN ledger : ledger[i].req = r => ~ledger[i].paid
    <2>1. PICK k \in DOMAIN ledger : ledger[k].req = r /\ ~ledger[k].paid
      BY <1>2 DEF ToldInv
    <2>2. Len(ledger) > req[r].seqno /\ req[r].seqno \in Nat
      BY <2>1, LandedPast
    <2>3. ASSUME NEW i \in DOMAIN ledger, ledger[i].req = r PROVE i = k
      <3>1. i \in Nat /\ k \in Nat
        BY EntryType
      <3>2. req[r].seqno = i - 1 /\ req[r].seqno = k - 1
        BY <2>1, <2>3 DEF LedgerInv
      <3>. QED BY <3>1, <3>2
    <2>. QED BY <2>1, <2>2, <2>3 DEF CanLand
  <1>. QED BY <1>1, <1>2 DEF ExpiredNeverLands, RejectedNeverLands, FailedNeverPays

\* The inductive invariant holds as long as the margin covers what the
\* providers' reads can trail.
THEOREM Invariance ==
  ASSUME MarginCovers
  PROVE  Spec => []IInv
  BY InvInit, InvStep, PTL DEF Spec

\* A caller who signs again only when told it is safe never pays twice, for any
\* number of requests, payments and providers' reads.
THEOREM NeverPaidTwice ==
  ASSUME MarginCovers
  PROVE  Spec => []PaidOnce
  BY Invariance, InvPaidOnce, PTL

\* getRequestState's "expired" is final.
THEOREM ExpiredIsFinal ==
  ASSUME MarginCovers
  PROVE  Spec => []ExpiredNeverLands
  BY Invariance, InvAnswers, PTL

\* broadcast's BroadcastRejected is final.
THEOREM RejectedIsFinal ==
  ASSUME MarginCovers
  PROVE  Spec => []RejectedNeverLands
  BY Invariance, InvAnswers, PTL

\* Both answers after which a caller may sign anew are final.
THEOREM AnswersFinal ==
  ASSUME MarginCovers
  PROVE  Spec => []AnswersAreFinal
  BY ExpiredIsFinal, RejectedIsFinal, PTL DEF AnswersAreFinal

\* The Failed status of an external request is final.
THEOREM FailedIsFinal ==
  ASSUME MarginCovers
  PROVE  Spec => []FailedNeverPays
  BY Invariance, InvAnswers, PTL

\* getRequestState's "consumed" is true of the chain when no relay's hash is
\* passed to it.
THEOREM ConsumedIsTrue ==
  ASSUME MarginCovers, ~RelayHashes
  PROVE  Spec => []ConsumedIsPast
  <1>1. IInv => ConsumedIsPast
    BY DEF IInv, ToldInv, ConsumedIsPast
  <1>. QED BY <1>1, Invariance, PTL

-----------------------------------------------------------------------------
(* What a broadcast that ends with a refusal did.                          *)

\* A call that handed the message to the network goes on to the fallback, and
\* remembers it until it ends.
HandedInv == \A r \in handed : sending[r] = "fallback"

\* The replies of a provider that took the message are its hash, or none: neither is
\* read as a refusal.
LEMMA TakenReply ==
  ASSUME NEW r, NEW p, NEW x \in Exchanges(r, p), x.taken
  PROVE  SendBoc(x.reply).retryable \/ SendBoc(x.reply).kind \in {"sent", "raw"}
  <1>1. x.reply \in NoAnswer \cup [status : {"2xx"}, text : {"plain"}]
    BY DEF Exchanges
  <1>. DEFINE http == TonHttpJson(x.reply)
  <1>2. \/ http.kind = "RpcError" /\ http.retryable /\ http.text \in {"plain", "nonJson"}
        \/ http.kind = "raw"
        \/ http.kind = "payload" /\ http.text = "plain"
    <2>1. CASE x.reply \in NoAnswer
      BY <2>1 DEF NoAnswer, TonHttpJson, Outcome, ProviderError
    <2>2. CASE x.reply \in [status : {"2xx"}, text : {"plain"}]
      BY <2>2 DEF TonHttpJson, Outcome
    <2>. QED BY <1>1, <2>1, <2>2
  <1>3. http.kind = "RpcError" /\ http.text \in {"plain", "nonJson"} => TonBroadcastReply(http) = http
    BY DEF TonBroadcastReply, SaysNothingOfLanding, MaybeLandedExitCodes, SeqnoMovedExitCodes, Refusals
  <1>4. http.kind # "RpcError" => TonBroadcastReply(http) = http
    BY DEF TonBroadcastReply
  <1>5. SendBoc(x.reply) = LET result == TonBroadcastReply(http) IN
                           IF result.kind = "payload" /\ result.text # "plain"
                             THEN Outcome("BroadcastRejected", FALSE, "plain")
                           ELSE IF result.kind \in {"payload", "null"}
                             THEN Outcome("sent", FALSE, "plain")
                           ELSE result
    BY DEF SendBoc
  <1>. HIDE DEF http
  <1>. QED BY <1>2, <1>3, <1>4, <1>5 DEF Outcome

LEMMA HandedStep ==
  ASSUME TypeOK, HandedInv, DefiniteRefusalSentNothing, [Next]_vars
  PROVE  HandedInv' /\ DefiniteRefusalSentNothing'
  <1>1. CASE UNCHANGED vars
    BY <1>1 DEF vars, sendVars, HandedInv, DefiniteRefusalSentNothing
  <1>2. ASSUME ReturnsNothing PROVE DefiniteRefusalSentNothing'
    BY <1>2 DEF ReturnsNothing, Nothing, DefiniteRefusalSentNothing
  <1>3. CASE UNCHANGED <<sending, handed>> /\ ReturnsNothing
    BY <1>2, <1>3 DEF HandedInv
  <1>4. ASSUME NEW r \in Requests, Broadcast(r)
        PROVE  HandedInv' /\ DefiniteRefusalSentNothing'
    <2>1. sending[r] = "idle" /\ UNCHANGED handed /\ ReturnsNothing
          /\ sending' = [sending EXCEPT ![r] = "primary"]
      BY <1>4 DEF Broadcast
    <2>2. \A u \in handed : u \in Requests /\ u # r
      BY <2>1 DEF TypeOK, HandedInv
    <2>. QED BY <1>2, <2>1, <2>2 DEF TypeOK, HandedInv
  <1>5. ASSUME NEW r \in Requests, NEW outcome, NEW taken, Return(r, outcome, taken),
               taken \/ r \in handed => outcome \notin {"RpcError", "NonceTooLow", "BroadcastRejected"}
        PROVE  HandedInv' /\ DefiniteRefusalSentNothing'
    <2>1. returned'.outcome = outcome /\ returned'.taken = (taken \/ r \in handed)
      BY <1>5 DEF Return
    <2>2. HandedInv'
      BY <1>5 DEF Return, TypeOK, HandedInv
    <2>. QED BY <1>5, <2>1, <2>2 DEF DefiniteRefusalSentNothing
  <1>6. ASSUME NEW r \in Requests, SendPrimary(r)
        PROVE  HandedInv' /\ DefiniteRefusalSentNothing'
    <2>1. r \notin handed
      BY <1>6 DEF SendPrimary, HandedInv
    <2>2. PICK x \in Exchanges(r, "primary") :
            LET outcome == SendBoc(x.reply) IN
            IF outcome.retryable /\ HasFallback
              THEN /\ sending' = [sending EXCEPT ![r] = "fallback"]
                   /\ handed' = TakenInto(handed, r, x.taken)
                   /\ ReturnsNothing
              ELSE Return(r, IF outcome.retryable THEN "BroadcastUncertain" ELSE outcome.kind, x.taken)
      BY <1>6 DEF SendPrimary
    <2>3. CASE SendBoc(x.reply).retryable /\ HasFallback
      BY <1>2, <2>2, <2>3 DEF TypeOK, HandedInv, TakenInto
    <2>4. CASE ~(SendBoc(x.reply).retryable /\ HasFallback)
      <3>. DEFINE out == SendBoc(x.reply)
                  end == IF out.retryable THEN "BroadcastUncertain" ELSE out.kind
      <3>1. Return(r, end, x.taken)
        BY <2>2, <2>4
      <3>2. x.taken => end \in {"BroadcastUncertain", "sent", "raw"}
        BY TakenReply
      <3>. HIDE DEF end
      <3>. QED BY <1>5, <2>1, <3>1, <3>2
    <2>. QED BY <2>3, <2>4
  <1>7. ASSUME NEW r \in Requests, SendFallback(r)
        PROVE  HandedInv' /\ DefiniteRefusalSentNothing'
    <2>1. PICK x \in Exchanges(r, "fallback") : Return(r, AfterFallback(SendBoc(x.reply)), x.taken)
      BY <1>7 DEF SendFallback
    <2>2. AfterFallback(SendBoc(x.reply)) \in {"sent", "BroadcastUncertain"}
      BY DEF AfterFallback
    <2>. QED BY <1>5, <2>1, <2>2
  <1>8. CASE Network
    <2>1. UNCHANGED sendVars /\ ReturnsNothing
      BY <1>8 DEF Network, Tick, Advance, Land, RunAndFail
    <2>. QED BY <1>3, <2>1 DEF sendVars
  <1>9. CASE RequestState
    <2>1. UNCHANGED sendVars /\ ReturnsNothing
      BY <1>9 DEF RequestState, ReadSeqno, ReadTrace, ReadHead, ReadFails
    <2>. QED BY <1>3, <2>1 DEF sendVars
  <1>10. ASSUME NEW r \in Requests,
                \/ \E p \in Payments : SignTransaction(r, p) \/ SignAtSeqno(r, p)
                \/ HandToRelayer(r)
                \/ \E h \in {None, r} : Ask(r, h)
                \/ ReadStatus(r)
         PROVE  HandedInv' /\ DefiniteRefusalSentNothing'
    <2>1. UNCHANGED <<sending, handed>> /\ ReturnsNothing
      BY <1>10 DEF SignTransaction, SignAtSeqno, SignRequest, HandToRelayer, Ask, ReadStatus, sendVars
    <2>. QED BY <1>3, <2>1
  <1>. QED BY <1>1, <1>4, <1>6, <1>7, <1>8, <1>9, <1>10 DEF Next, Caller

\* When a broadcast ends with a definite refusal, no provider it asked gave the
\* message to the network.
THEOREM RefusalSentNothing == Spec => []DefiniteRefusalSentNothing
  <1>1. Init => HandedInv /\ DefiniteRefusalSentNothing
    BY DEF Init, HandedInv, DefiniteRefusalSentNothing, Nothing
  <1>2. TypeOK /\ HandedInv /\ DefiniteRefusalSentNothing /\ [Next]_vars
          => HandedInv' /\ DefiniteRefusalSentNothing'
    BY HandedStep
  <1>. QED BY <1>1, <1>2, TypeCorrect, PTL DEF Spec

-----------------------------------------------------------------------------
(* TonRequests implements PaymentOnce.                                     *)

\* A request whose end was told cannot land any more; nor can one that landed.
LEMMA EndedCannotLand ==
  ASSUME IInv, NEW r \in Requests, Settled(r) \/ ~NeverLanded(r)
  PROVE  ~CanStillLand(r)
  <1>. USE DEF IInv
  <1>1. CASE told[r] \cap {"expired", "rejected"} # {}
    BY <1>1 DEF ToldInv, CanStillLand
  <1>2. CASE ~NeverLanded(r)
    <2>1. PICK i \in DOMAIN ledger : ledger[i].req = r
      BY <1>2 DEF NeverLanded
    <2>2. Len(ledger) > req[r].seqno /\ req[r].seqno \in Nat /\ Len(ledger) \in Nat
      BY <2>1, LandedPast DEF TypeOK
    <2>. QED BY <2>2 DEF CanStillLand
  <1>3. "failed" \in told[r] => ~NeverLanded(r)
    BY DEF ToldInv, NeverLanded
  <1>. QED BY <1>1, <1>2, <1>3 DEF Settled

\* A request that paid was not told of as ended: not as failed either.
LEMMA PaidNotSettled ==
  ASSUME IInv, NEW i \in DOMAIN ledger, ledger[i].paid
  PROVE  ~Settled(ledger[i].req)
  <1>. SUFFICES ASSUME Settled(ledger[i].req) PROVE FALSE
    OBVIOUS
  <1>. USE DEF IInv
  <1>. DEFINE q == ledger[i].req
  <1>1. q \in Requests /\ ~NeverLanded(q)
    BY LandedPast DEF NeverLanded
  <1>2. "failed" \in told[q]
    BY <1>1 DEF Settled, ToldInv
  <1>3. PICK m \in DOMAIN ledger : ledger[m].req = q /\ ~ledger[m].paid
    BY <1>1, <1>2 DEF ToldInv
  <1>4. m \in Nat /\ i \in Nat
    BY EntryType
  <1>5. req[q].seqno = m - 1 /\ req[q].seqno = i - 1
    BY <1>3 DEF LedgerInv
  <1>6. m = i
    BY <1>4, <1>5
  <1>. QED BY <1>3, <1>6

\* The entries that paid p.
Paying(p) == {i \in DOMAIN ledger : ledger[i].paid /\ req[ledger[i].req].payment = p}

\* One request at most holds a payment, and none once it is paid.
LEMMA OneHolder ==
  ASSUME IInv, NEW p \in Payments
  PROVE  /\ \A r, q \in Holders[p] : r = q
         /\ Paying(p) # {} => Holders[p] = {}
  <1>1. \A r \in Holders[p] : r \in Requests /\ CanStillLand(r) /\ Signed(r) /\ req[r].payment = p
    BY DEF Holders, CanStillLand
  <1>2. ASSUME NEW r \in Holders[p], NEW q \in Holders[p], r # q PROVE FALSE
    <2>1. Settled(r) \/ Settled(q)
      BY <1>1, <1>2 DEF IInv, ReplaceInv
    <2>. QED BY <1>1, <2>1, EndedCannotLand
  <1>3. ASSUME NEW r \in Holders[p], NEW i \in Paying(p) PROVE FALSE
    <2>1. i \in DOMAIN ledger /\ ledger[i].paid /\ req[ledger[i].req].payment = p
      BY DEF Paying
    <2>. DEFINE a == ledger[i].req
    <2>2. a \in Requests /\ Signed(a) /\ ~NeverLanded(a)
      BY <2>1, LandedPast DEF IInv, NeverLanded
    <2>3. ~Settled(a) /\ ~CanStillLand(a)
      BY <2>1, <2>2, PaidNotSettled, EndedCannotLand
    <2>4. ~Settled(r)
      BY <1>1, EndedCannotLand
    <2>. QED BY <1>1, <2>1, <2>2, <2>3, <2>4 DEF IInv, ReplaceInv
  <1>. QED BY <1>2, <1>3

\* How often p was paid is a number, and no number but 0 for a p that no entry paid.
LEMMA TimesIs ==
  ASSUME TypeOK, NEW p \in Payments
  PROVE  /\ IsFiniteSet(Paying(p)) /\ Times[p] = Cardinality(Paying(p))
         /\ Paying(p) = {} => Times[p] = 0
  <1>1. DOMAIN ledger = 1 .. Len(ledger) /\ 1 \in Int /\ Len(ledger) \in Int
    BY DEF TypeOK
  <1>2. IsFiniteSet(DOMAIN ledger)
    BY <1>1, FS_Interval
  <1>3. IsFiniteSet(Paying(p))
    BY <1>2, FS_Subset DEF Paying
  <1>4. Times[p] = Cardinality(Paying(p))
    BY DEF Times, Paying
  <1>. QED BY <1>3, <1>4, FS_EmptySet

LEMMA PromiseInit == Init => Promise!Init
  <1>. SUFFICES ASSUME Init PROVE Promise!Init
    OBVIOUS
  <1>1. \A r \in Requests : ~CanStillLand(r)
    BY DEF Init, CanStillLand, Signed, Unsigned
  <1>2. Holders = [p \in Payments |-> {}]
    BY <1>1 DEF Holders
  <1>3. \A p \in Payments : {i \in DOMAIN ledger :
                             ledger[i].paid /\ req[ledger[i].req].payment = p} = {}
    BY DEF Init
  <1>4. Times = [p \in Payments |-> 0]
    BY <1>3, FS_EmptySet DEF Times
  <1>. QED BY <1>2, <1>4 DEF Promise!Init

\* Fewer requests can still land, and nothing was paid.
LEMMA LapseStep ==
  ASSUME UNCHANGED Times, \A r \in Requests : CanStillLand(r)' => CanStillLand(r),
         UNCHANGED req
  PROVE  Promise!Next
  <1>1. Holders' \in [Payments -> SUBSET Requests]
    BY DEF Holders
  <1>2. \A p \in Payments : Holders'[p] \subseteq Holders[p]
    BY DEF Holders
  <1>. QED BY <1>1, <1>2 DEF Promise!Next, Promise!Lapse, Promise!Fewer

LEMMA PromiseSign ==
  ASSUME IInv, NEW r \in Requests, NEW k \in Kinds, NEW p \in Payments, NEW n \in Nat,
         SignRequest(r, k, p, n)
  PROVE  [Promise!Next]_(Promise!vars)
  <1>. USE DEF IInv
  <1>1. /\ ~Signed(r) /\ MaySign(p) /\ UNCHANGED <<now, ledger>>
        /\ req'[r].payment = p /\ \A q \in Requests : q # r => req'[q] = req[q]
    BY DEF SignRequest, chainVars, TypeOK
  <1>2. \A q \in Requests : q # r => CanStillLand(q)' = CanStillLand(q)
    BY <1>1 DEF CanStillLand, Signed, Lapsed
  <1>3. ~CanStillLand(r)
    BY <1>1 DEF CanStillLand
  <1>4. \A q \in Requests : Signed(q) /\ req[q].payment = p => ~CanStillLand(q)
    BY <1>1, EndedCannotLand DEF MaySign
  <1>5. \A i \in DOMAIN ledger : ledger[i].req \in Requests /\ ledger[i].req # r
    BY <1>1, EntryType DEF LedgerInv
  <1>6. UNCHANGED Times
    BY <1>1, <1>5 DEF Times
  <1>7. Paying(p) = {}
    <2>. SUFFICES ASSUME NEW i \in Paying(p) PROVE FALSE
      OBVIOUS
    <2>1. i \in DOMAIN ledger /\ ledger[i].paid /\ req[ledger[i].req].payment = p
      BY DEF Paying
    <2>2. ledger[i].req \in Requests /\ Signed(ledger[i].req) /\ ~Settled(ledger[i].req)
      BY <2>1, LandedPast, PaidNotSettled
    <2>. QED BY <1>1, <2>1, <2>2 DEF MaySign
  <1>8. Times[p] = 0
    BY <1>7, TimesIs
  <1>9. Holders[p] = {}
    BY <1>4 DEF Holders, CanStillLand
  <1>10. CASE CanStillLand(r)'
    <2>1. Holders' = [Holders EXCEPT ![p] = {r}]
      <3>1. \A q \in Payments : Holders'[q] = IF q = p THEN {r} ELSE Holders[q]
        BY <1>1, <1>2, <1>3, <1>4, <1>10 DEF Holders, CanStillLand
      <3>. QED BY <3>1 DEF Holders
    <2>. QED BY <1>6, <1>8, <1>9, <2>1 DEF Promise!Next, Promise!Sign
  <1>11. CASE ~CanStillLand(r)'
    <2>1. Holders' = Holders
      BY <1>1, <1>2, <1>3, <1>11 DEF Holders
    <2>. QED BY <1>6, <2>1 DEF Promise!vars
  <1>. QED BY <1>10, <1>11

LEMMA PromiseLand ==
  ASSUME IInv, NEW r \in Requests, NEW paid \in BOOLEAN, Land(r, paid)
  PROVE  Promise!Next
  <1>. USE DEF IInv
  <1>. DEFINE entry == [req |-> r, at |-> now, paid |-> paid]
              p == req[r].payment
  <1>1. /\ ledger' = Append(ledger, entry) /\ UNCHANGED <<now, req>>
        /\ Signed(r) /\ req[r].seqno = Len(ledger) /\ ~Lapsed(r, now)
    BY DEF Land, CanLand, KindInv
  <1>2. /\ Len(ledger) \in Nat /\ DOMAIN ledger = 1 .. Len(ledger)
        /\ DOMAIN ledger' = DOMAIN ledger \cup {Len(ledger) + 1}
        /\ Len(ledger) + 1 \notin DOMAIN ledger
        /\ Len(ledger') = Len(ledger) + 1
        /\ \A i \in DOMAIN ledger : ledger'[i] = ledger[i]
        /\ ledger'[Len(ledger) + 1] = entry
    BY <1>1 DEF TypeOK
  <1>3. entry.req = r /\ entry.paid = paid
    OBVIOUS
  <1>. HIDE DEF entry
  <1>4. p \in Payments /\ \A q \in Requests : Signed(q) => req[q].seqno \in Nat
    BY <1>1 DEF TypeOK, Request, Signed, Unsigned
  <1>5. CanStillLand(r) /\ ~CanStillLand(r)'
    BY <1>1, <1>2 DEF CanStillLand
  <1>6. \A q \in Requests : CanStillLand(q)' => CanStillLand(q)
    BY <1>1, <1>2, <1>4 DEF CanStillLand, Signed, Lapsed
  <1>7. CASE ~paid
    <2>1. \A q \in Payments : {i \in DOMAIN ledger' : ledger'[i].paid /\ req'[ledger'[i].req].payment = q}
                               = {i \in DOMAIN ledger : ledger[i].paid /\ req[ledger[i].req].payment = q}
      BY <1>1, <1>2, <1>3, <1>7
    <2>2. Times' = Times
      BY <2>1 DEF Times
    <2>. QED BY <1>1, <1>6, <2>2, LapseStep
  <1>8. CASE paid
    <2>1. r \in Holders[p] /\ \A q \in Holders[p] : q = r
      BY <1>4, <1>5, OneHolder DEF Holders
    <2>2. Holders' \in [Payments -> SUBSET Requests]
      BY DEF Holders
    <2>3. \A q \in Payments : Holders'[q] \subseteq Holders[q]
      BY <1>1, <1>6 DEF Holders
    <2>4. Holders'[p] = {}
      <3>1. r \notin Holders'[p]
        BY <1>4, <1>5 DEF Holders
      <3>. QED BY <1>4, <2>1, <2>3, <3>1
    <2>5. ASSUME NEW q \in Payments
          PROVE  {i \in DOMAIN ledger' : ledger'[i].paid /\ req'[ledger'[i].req].payment = q}
                   = IF q = p THEN Paying(p) \cup {Len(ledger) + 1} ELSE Paying(q)
      <3>1. \A i \in DOMAIN ledger :
              (ledger'[i].paid /\ req'[ledger'[i].req].payment = q) <=> i \in Paying(q)
        BY <1>1, <1>2 DEF Paying
      <3>2. LET i == Len(ledger) + 1 IN
            /\ ledger'[i].paid
            /\ (req'[ledger'[i].req].payment = q) <=> (p = q)
        BY <1>1, <1>2, <1>3, <1>8
      <3>3. \A u \in Payments : Paying(u) \subseteq DOMAIN ledger
        BY DEF Paying
      <3>. HIDE DEF p
      <3>. QED BY <1>2, <1>4, <3>1, <3>2, <3>3
    <2>6. Cardinality(Paying(p) \cup {Len(ledger) + 1}) = Cardinality(Paying(p)) + 1
      <3>1. IsFiniteSet(Paying(p)) /\ Len(ledger) + 1 \notin Paying(p)
        BY <1>2, <1>4, TimesIs DEF Paying
      <3>. QED BY <3>1, FS_AddElement
    <2>7. \A q \in Payments : Times'[q] = IF q = p THEN Times[p] + 1 ELSE Times[q]
      <3>. SUFFICES ASSUME NEW q \in Payments
                    PROVE  Times'[q] = IF q = p THEN Times[p] + 1 ELSE Times[q]
        OBVIOUS
      <3>1. Times'[q] = Cardinality(IF q = p THEN Paying(p) \cup {Len(ledger) + 1} ELSE Paying(q))
        BY <2>5 DEF Times
      <3>2. Times[q] = Cardinality(Paying(q))
        BY TimesIs
      <3>. QED BY <2>6, <3>1, <3>2
    <2>8. Times' = [Times EXCEPT ![p] = @ + 1]
      BY <1>4, <2>7 DEF Times
    <2>. QED BY <1>4, <2>1, <2>2, <2>3, <2>4, <2>8 DEF Promise!Next, Promise!Pay, Promise!Fewer
  <1>. QED BY <1>7, <1>8

LEMMA PromiseStep ==
  ASSUME IInv, [Next]_vars
  PROVE  [Promise!Next]_(Promise!vars)
  <1>. USE DEF chainVars
  <1>1. ASSUME UNCHANGED <<now, ledger, req>> PROVE UNCHANGED Promise!vars
    BY <1>1 DEF Promise!vars, Holders, Times, CanStillLand, Signed, Lapsed
  <1>2. CASE UNCHANGED vars
    BY <1>1, <1>2 DEF vars
  <1>3. CASE Tick
    <2>1. now' = now + 1 /\ now \in Nat /\ UNCHANGED <<ledger, req>>
      BY <1>3 DEF Tick, IInv, TypeOK
    <2>2. \A r \in Requests : CanStillLand(r)' => CanStillLand(r)
      <3>. SUFFICES ASSUME NEW r \in Requests, CanStillLand(r)' PROVE CanStillLand(r)
        OBVIOUS
      <3>1. Signed(r) /\ ~(now' >= req[r].validUntil) /\ req[r].seqno >= Len(ledger)
        BY <2>1 DEF CanStillLand, Signed, Lapsed
      <3>2. req[r].validUntil \in Int
        BY <3>1 DEF IInv, TypeOK, Request, Signed, Unsigned
      <3>. QED BY <2>1, <3>1, <3>2 DEF CanStillLand, Lapsed
    <2>3. UNCHANGED Times
      BY <2>1 DEF Times
    <2>. QED BY <2>1, <2>2, <2>3, LapseStep
  <1>4. ASSUME NEW p \in Providers, Advance(p) PROVE UNCHANGED <<now, ledger, req>>
    BY <1>4 DEF Advance
  <1>5. ASSUME NEW r \in Requests, NEW paid \in BOOLEAN, Land(r, paid) PROVE Promise!Next
    BY <1>5, PromiseLand
  <1>6. ASSUME NEW r \in Requests, RunAndFail(r) PROVE UNCHANGED <<now, ledger, req>>
    BY <1>6 DEF RunAndFail
  <1>7. ASSUME NEW r \in Requests, NEW p \in Payments, SignTransaction(r, p) \/ SignAtSeqno(r, p)
        PROVE  [Promise!Next]_(Promise!vars)
    <2>1. CASE SignTransaction(r, p)
      <3>1. PICK q \in Providers : \E t \in StatesOf(q) : SignRequest(r, "external", p, Height(t))
        BY <2>1 DEF SignTransaction
      <3>2. PICK t \in StatesOf(q) : SignRequest(r, "external", p, Height(t))
        BY <3>1
      <3>3. Height(t) \in Nat
        BY StatesType, HeightType DEF IInv
      <3>. QED BY <3>2, <3>3, PromiseSign DEF Kinds
    <2>2. CASE SignAtSeqno(r, p)
      <3>1. PICK k \in Kinds, n \in {Len(ledger), Len(ledger) + 1} : SignRequest(r, k, p, n)
        BY <2>2 DEF SignAtSeqno
      <3>2. n \in Nat
        BY DEF IInv, TypeOK
      <3>. QED BY <3>1, <3>2, PromiseSign
    <2>. QED BY <1>7, <2>1, <2>2
  <1>8. ASSUME NEW r \in Requests,
               \/ HandToRelayer(r) \/ Broadcast(r) \/ SendPrimary(r) \/ SendFallback(r)
               \/ \E h \in {None, r} : Ask(r, h)
               \/ ReadStatus(r)
        PROVE  UNCHANGED <<now, ledger, req>>
    BY <1>8 DEF HandToRelayer, Broadcast, SendPrimary, SendFallback, Ask, ReadStatus
  <1>9. ASSUME RequestState PROVE UNCHANGED <<now, ledger, req>>
    BY <1>9 DEF RequestState, ReadSeqno, ReadTrace, ReadHead, ReadFails
  <1>. QED BY <1>1, <1>2, <1>3, <1>4, <1>5, <1>6, <1>7, <1>8, <1>9 DEF Next, Network, Caller

\* Whatever the chain and the providers do, what callers sign, deliver and see expire
\* behaves as PaymentOnce says: every step is one of its steps, or none.
THEOREM ImplementsPaymentOnce ==
  ASSUME MarginCovers
  PROVE  Spec => PaysAtMostOnce
  <1>1. IInv /\ [Next]_vars => [Promise!Next]_(Promise!vars)
    BY PromiseStep
  <1>. QED BY <1>1, PromiseInit, Invariance, PTL DEF Spec, PaysAtMostOnce, Promise!Spec

-----------------------------------------------------------------------------
(* Traces (TonTrace).  Places in a tree of transactions.                   *)

\* A place below the root is its parent's, and the number of the message.
LEMMA PlaceParts ==
  ASSUME NEW p \in Seq(Nat), p # <<>>
  PROVE  /\ T!Front(p) \in Seq(Nat) /\ T!Last(p) \in Nat
         /\ p = Append(T!Front(p), T!Last(p))
         /\ Len(p) \in Nat /\ Len(p) > 0 /\ Len(T!Front(p)) = Len(p) - 1
  <1>1. Len(p) \in Nat \ {0} /\ \A i \in 1..Len(p) : p[i] \in Nat
    BY EmptySeq, ElementOfSeq
  <1>2. T!Front(p) \in Seq(Nat) /\ Len(T!Front(p)) = Len(p) - 1
        /\ \A i \in 1..(Len(p) - 1) : T!Front(p)[i] = p[i]
    <2>1. \A i \in 1..(Len(p) - 1) : p[i] \in Nat
      BY <1>1
    <2>2. 1 \in Int /\ Len(p) - 1 \in Int
      BY <1>1
    <2>3. /\ SubSeq(p, 1, Len(p) - 1) \in Seq(Nat)
          /\ Len(SubSeq(p, 1, Len(p) - 1)) = IF 1 <= Len(p) - 1 THEN Len(p) - 1 - 1 + 1 ELSE 0
          /\ \A i \in 1 .. Len(p) - 1 - 1 + 1 : SubSeq(p, 1, Len(p) - 1)[i] = p[1 + i - 1]
      BY <2>1, <2>2, SubSeqProperties
    <2> DEFINE f == SubSeq(p, 1, Len(p) - 1)
    <2>4. f \in Seq(Nat) /\ Len(f) = Len(p) - 1
      <3>1. Len(f) = IF 1 <= Len(p) - 1 THEN Len(p) - 1 - 1 + 1 ELSE 0
        BY <2>3
      <3>2. Len(p) \in Nat \ {0}
        BY <1>1
      <3> HIDE DEF f
      <3>3. \A n \in Nat \ {0} : (IF 1 <= n - 1 THEN n - 1 - 1 + 1 ELSE 0) = n - 1
        OBVIOUS
      <3>4. (IF 1 <= Len(p) - 1 THEN Len(p) - 1 - 1 + 1 ELSE 0) = Len(p) - 1
        BY <3>2, <3>3, Zenon
      <3>5. Len(f) = Len(p) - 1
        BY <3>1, <3>4
      <3>. QED BY <2>3, <3>5 DEF f
    <2>5. ASSUME NEW i \in 1..(Len(p) - 1) PROVE f[i] = p[i]
      <3>1. i \in 1 .. Len(p) - 1 - 1 + 1 /\ 1 + i - 1 = i
        BY <1>1
      <3>. QED BY <2>3, <3>1
    <2>. QED BY <2>4, <2>5 DEF T!Front
  <1>3. T!Last(p) \in Nat
    BY <1>1 DEF T!Last
  <1>4. p = Append(T!Front(p), T!Last(p))
    <2>1. Append(T!Front(p), T!Last(p)) \in Seq(Nat) /\ Len(Append(T!Front(p), T!Last(p))) = Len(p)
          /\ \A i \in 1..(Len(p) - 1) : Append(T!Front(p), T!Last(p))[i] = p[i]
      BY <1>1, <1>2, <1>3, AppendProperties
    <2>2. Append(T!Front(p), T!Last(p))[Len(p)] = p[Len(p)]
      BY <1>1, <1>2, <1>3 DEF T!Last
    <2>3. ASSUME NEW i \in 1..Len(p) PROVE Append(T!Front(p), T!Last(p))[i] = p[i]
      <3>1. i = Len(p) \/ i \in 1..(Len(p) - 1)
        BY <1>1
      <3>. QED BY <2>1, <2>2, <3>1
    <2>. QED BY <2>1, <2>3, SeqEqual
  <1>. QED BY <1>1, <1>2, <1>3, <1>4

\* What a message's receiver is called.
LEMMA PlaceOfMessage ==
  ASSUME NEW p \in Seq(Nat), NEW i \in Nat
  PROVE  /\ Append(p, i) \in Seq(Nat) /\ Append(p, i) # <<>>
         /\ T!Front(Append(p, i)) = p /\ T!Last(Append(p, i)) = i
  <1> DEFINE q == Append(p, i)
  <1>1. q \in Seq(Nat) /\ q # <<>>
    BY AppendProperties
  <1>2. q = Append(T!Front(q), T!Last(q)) /\ T!Front(q) \in Seq(Nat) /\ T!Last(q) \in Nat
    BY <1>1, PlaceParts
  <1>3. T!Front(q) = p /\ T!Last(q) = i
    BY <1>2, AppendInjective
  <1>. QED BY <1>1, <1>3

\* A set of places that has the parent of each, and is not empty, has the root.
LEMMA RootIsIn ==
  ASSUME NEW S \in SUBSET Seq(Nat), S # {}, T!Closed(S)
  PROVE  <<>> \in S
  <1> DEFINE L == {n \in Nat : \E p \in S : n = Len(p)}
  <1>1. \A p \in S : Len(p) \in L
    BY EmptySeq, LenProperties
  <1>2. PICK n \in L : \A k \in L : n <= k
    BY <1>1, LeastNatural
  <1>3. PICK p \in S : n = Len(p)
    OBVIOUS
  <1>4. p = <<>>
    <2>1. SUFFICES ASSUME p # <<>> PROVE FALSE
      OBVIOUS
    <2>2. T!Front(p) \in S
      BY <2>1 DEF T!Closed, T!Parent
    <2>3. Len(T!Front(p)) = n - 1 /\ n \in Nat
      BY <1>3, <2>1, PlaceParts
    <2>4. n - 1 \in L
      BY <1>1, <2>2, <2>3
    <2>. QED BY <1>2, <2>3, <2>4
  <1>. QED BY <1>4

-----------------------------------------------------------------------------
(* What messages the contracts send.                                       *)

Messages ==
  [from : T!Accounts \cup {"none"}, to : T!Accounts,
   op : {"none", "signed_internal"} \cup T!JettonMessageOps,
   value : Int, fwd : {1}, bounce : BOOLEAN, bounced : BOOLEAN, names : {"bob"}]

\* Who sends what to whom: only the wallet's own messages ask for something, and
\* jettons travel from a jetton wallet to the recipient's.
Routed(m) ==
  /\ m.bounced => m.op = "none" /\ ~m.bounce
  /\ m.bounce => m.from # "none"
  /\ m.op \in {"transfer", "signed_internal"} => m.from = "wallet" /\ m.bounce
  /\ m.op = "internal_transfer" =>
       /\ m.bounce
       /\ \/ m.from = "jwallet" /\ m.to = "jbob"
          \/ m.from = "fake" /\ m.to \in {"jbob", "fakebob"}

Transactions ==
  [place : Seq(Nat), account : T!Accounts, in : Messages, at : Nat,
   compute : {"ok", "failed", "no_state"}, action : {"ok", "failed", "none"},
   skipped : {0, 1}, aborted : BOOLEAN, outs : Seq(Messages)]

SendsBack(ran) == \E i \in DOMAIN ran.outs : ran.outs[i].bounced

\* What a transaction does with the message that it took: jettons go on only to where a
\* transfer sends them, and what is sent back was refused.
Reacts(m, ran) ==
  /\ \A i \in DOMAIN ran.outs :
       /\ Routed(ran.outs[i])
       /\ ran.outs[i].op \notin {"transfer", "signed_internal"}
       /\ ran.outs[i].op = "internal_transfer" => m.op = "transfer"
  /\ m.op = "transfer" => DOMAIN ran.outs \subseteq {1}
  /\ m.op = "internal_transfer" /\ m.from = "fake" /\ m.to = "jbob" => ran.aborted
  /\ SendsBack(ran) =>
       /\ DOMAIN ran.outs = {1} /\ ran.outs[1].to = m.from
       /\ ran.aborted /\ m.bounce

LEMMA MessageIsOne ==
  ASSUME NEW from \in T!Accounts \cup {"none"}, NEW to \in T!Accounts,
         NEW op \in {"none", "signed_internal"} \cup T!JettonMessageOps,
         NEW value \in Int, NEW bounce \in BOOLEAN
  PROVE  /\ T!Message(from, to, op, value, bounce) \in Messages
         /\ ~T!Message(from, to, op, value, bounce).bounced
         /\ T!Message(from, to, op, value, bounce).from = from
         /\ T!Message(from, to, op, value, bounce).to = to
         /\ T!Message(from, to, op, value, bounce).op = op
         /\ T!Message(from, to, op, value, bounce).bounce = bounce
  BY DEF T!Message, Messages

LEMMA BounceIsOne ==
  ASSUME NEW m \in Messages, m.from # "none"
  PROVE  /\ T!Bounce(m) \in Messages /\ Routed(T!Bounce(m))
         /\ T!Bounce(m).bounced /\ T!Bounce(m).op = "none" /\ T!Bounce(m).to = m.from
  <1> DEFINE x == T!Message(m.to, m.from, "none", m.value - 1, FALSE)
  <1>1. x \in Messages /\ x.to = m.from /\ x.op = "none" /\ ~x.bounce
    <2>1. m.from \in T!Accounts /\ m.to \in T!Accounts \cup {"none"} /\ m.value - 1 \in Int
      BY DEF Messages
    <2>2. \A from \in T!Accounts \cup {"none"}, to \in T!Accounts, value \in Int :
            LET y == T!Message(from, to, "none", value, FALSE)
            IN  y \in Messages /\ y.to = to /\ y.op = "none" /\ ~y.bounce
      BY DEF T!Message, Messages
    <2>. QED BY <2>1, <2>2
  <1>2. T!Bounce(m) = [x EXCEPT !.bounced = TRUE]
    BY DEF T!Bounce
  <1> HIDE DEF x
  <1>3. /\ [x EXCEPT !.bounced = TRUE] \in Messages
        /\ [x EXCEPT !.bounced = TRUE].bounced
        /\ [x EXCEPT !.bounced = TRUE].to = x.to
        /\ [x EXCEPT !.bounced = TRUE].op = x.op
        /\ [x EXCEPT !.bounced = TRUE].bounce = x.bounce
    BY <1>1 DEF Messages
  <1>. QED BY <1>1, <1>2, <1>3 DEF Routed

PhasesType ==
  [compute : {"ok", "failed", "no_state"}, action : {"ok", "failed", "none"},
   skipped : {0, 1}, aborted : BOOLEAN, outs : Seq(Messages)]

LEMMA OneMessage ==
  ASSUME NEW m
  PROVE  DOMAIN <<m>> = {1} /\ <<m>>[1] = m /\ (m \in Messages => <<m>> \in Seq(Messages))
  OBVIOUS

LEMMA RefusalsAreOne ==
  /\ \A m : T!Returned(m) \in Seq(Messages) =>
       /\ T!Failed(m) \in PhasesType /\ T!Failed(m).outs = T!Returned(m) /\ T!Failed(m).aborted
       /\ T!NoCode(m) \in PhasesType /\ T!NoCode(m).outs = T!Returned(m) /\ T!NoCode(m).aborted
  /\ T!Skipped \in PhasesType /\ T!Skipped.outs = <<>>
  /\ T!ActionFailed \in PhasesType /\ T!ActionFailed.outs = <<>>
  <1>1. ASSUME NEW outs \in Seq(Messages)
        PROVE  /\ T!Phases("failed", "none", 0, TRUE, outs) \in PhasesType
               /\ T!Phases("failed", "none", 0, TRUE, outs).outs = outs
               /\ T!Phases("failed", "none", 0, TRUE, outs).aborted
               /\ T!Phases("no_state", "none", 0, TRUE, outs) \in PhasesType
               /\ T!Phases("no_state", "none", 0, TRUE, outs).outs = outs
               /\ T!Phases("no_state", "none", 0, TRUE, outs).aborted
               /\ T!Phases("ok", "ok", 1, FALSE, outs) \in PhasesType
               /\ T!Phases("ok", "ok", 1, FALSE, outs).outs = outs
               /\ T!Phases("ok", "failed", 0, TRUE, outs) \in PhasesType
               /\ T!Phases("ok", "failed", 0, TRUE, outs).outs = outs
    BY DEF T!Phases, PhasesType
  <1>2. <<>> \in Seq(Messages)
    OBVIOUS
  <1>. QED BY <1>1, <1>2 DEF T!Failed, T!NoCode, T!Skipped, T!ActionFailed

\* What runs through sends what it sends.
LEMMA RanIsOne ==
  ASSUME NEW outs \in Seq(Messages)
  PROVE  T!Ran(outs) \in PhasesType /\ T!Ran(outs).outs = outs /\ ~T!Ran(outs).aborted
  BY DEF T!Ran, T!Phases, PhasesType

\* Sent back, refused, or nothing: what an account does with any message.
LEMMA RefusalsReact ==
  ASSUME NEW m \in Messages, Routed(m),
         NEW ran \in {T!Skipped, T!Failed(m), T!NoCode(m), T!ActionFailed, T!Ran(<<>>)},
         m.op = "internal_transfer" /\ m.from = "fake" /\ m.to = "jbob" => ran = T!Failed(m)
  PROVE  ran \in PhasesType /\ Reacts(m, ran)
  <1>1. T!Returned(m) \in Seq(Messages)
        /\ \/ DOMAIN T!Returned(m) = {}
           \/ /\ DOMAIN T!Returned(m) = {1} /\ m.bounce
              /\ Routed(T!Returned(m)[1]) /\ T!Returned(m)[1].op = "none" /\ T!Returned(m)[1].to = m.from
    <2>1. CASE m.bounce
      <3>1. m.from # "none"
        BY <2>1 DEF Routed
      <3>2. T!Bounce(m) \in Messages /\ Routed(T!Bounce(m)) /\ T!Bounce(m).op = "none" /\ T!Bounce(m).to = m.from
        BY <3>1, BounceIsOne
      <3>3. T!Returned(m) = <<T!Bounce(m)>>
        BY <2>1 DEF T!Returned
      <3>. QED BY <2>1, <3>2, <3>3, OneMessage
    <2>2. CASE ~m.bounce
      BY <2>2 DEF T!Returned
    <2>. QED BY <2>1, <2>2
  <1>2. CASE ran \in {T!Failed(m), T!NoCode(m)}
    <2>1. ran \in PhasesType /\ ran.outs = T!Returned(m) /\ ran.aborted
      BY <1>1, <1>2, RefusalsAreOne
    <2>. QED BY <1>1, <2>1 DEF Reacts, SendsBack
  <1>3. CASE ran \in {T!Skipped, T!ActionFailed, T!Ran(<<>>)}
    <2>1. ran \in PhasesType /\ ran.outs = <<>>
      <3>1. <<>> \in Seq(Messages)
        OBVIOUS
      <3>2. T!Ran(<<>>) \in PhasesType /\ T!Ran(<<>>).outs = <<>>
        BY <3>1, RanIsOne
      <3>. QED BY <1>3, <3>2, RefusalsAreOne
    <2>2. DOMAIN ran.outs = {}
      BY <2>1
    <2>3. m.op = "internal_transfer" /\ m.from = "fake" /\ m.to = "jbob" => ran.aborted
      <3>1. T!Failed(m).aborted
        BY <1>1, RefusalsAreOne
      <3>. QED BY <3>1
    <2>. QED BY <2>1, <2>2, <2>3 DEF Reacts, SendsBack
  <1>. QED BY <1>2, <1>3

LEMMA OneGoesOn ==
  ASSUME NEW m, NEW y \in Messages, Routed(y), ~y.bounced, y.op \notin {"transfer", "signed_internal"},
         y.op = "internal_transfer" => m.op = "transfer",
         ~(m.op = "internal_transfer" /\ m.from = "fake" /\ m.to = "jbob")
  PROVE  T!Ran(<<y>>) \in PhasesType /\ Reacts(m, T!Ran(<<y>>))
  <1> DEFINE ran == T!Ran(<<y>>)
  <1>1. <<y>> \in Seq(Messages) /\ DOMAIN <<y>> = {1} /\ <<y>>[1] = y
    BY OneMessage
  <1>2. ran \in PhasesType /\ ran.outs = <<y>>
    BY <1>1, RanIsOne
  <1> HIDE DEF ran
  <1>3. DOMAIN ran.outs = {1} /\ ran.outs[1] = y
    BY <1>1, <1>2
  <1>4. Reacts(m, ran)
    BY <1>3 DEF Reacts, SendsBack
  <1>. QED BY <1>2, <1>4 DEF ran

\* Every reaction of a contract is one of those.
LEMMA ReactionsReact ==
  ASSUME NEW m \in Messages, Routed(m), NEW ran \in T!Reactions(m)
  PROVE  ran \in PhasesType /\ Reacts(m, ran)
  <1>1. CASE ran \in {T!Skipped, T!NoCode(m), T!ActionFailed, T!Ran(<<>>)}
             /\ ~(m.op = "internal_transfer" /\ m.from = "fake" /\ m.to = "jbob")
    BY <1>1, RefusalsReact
  <1>2. CASE ran = T!Failed(m)
    BY <1>2, RefusalsReact
  <1> DEFINE Known == ran \in {T!Skipped, T!Failed(m), T!NoCode(m), T!ActionFailed, T!Ran(<<>>)}
  <1>3. CASE ~Known /\ m.op = "signed_internal"
    <2> DEFINE y == T!Message("vault", "bob", "none", 2, TRUE)
    <2>1. ran = T!Ran(<<y>>)
      BY <1>3 DEF T!Reactions, Messages
    <2>2. y \in Messages /\ Routed(y) /\ ~y.bounced /\ y.op = "none"
      BY DEF T!Message, Messages, Routed, T!Accounts
    <2> HIDE DEF y
    <2>. QED BY <1>3, <2>1, <2>2, OneGoesOn
  <1>4. CASE ~Known /\ m.op = "transfer" /\ m.to = "jwallet"
    <2> DEFINE y == T!Message("jwallet", "jbob", "internal_transfer", 4, TRUE)
    <2>1. ran = T!Ran(<<y>>)
      BY <1>4 DEF T!Reactions, Messages, Routed
    <2>2. y \in Messages /\ Routed(y) /\ ~y.bounced /\ y.op = "internal_transfer"
      BY DEF T!Message, Messages, Routed, T!Accounts, T!JettonMessageOps
    <2> HIDE DEF y
    <2>. QED BY <1>4, <2>1, <2>2, OneGoesOn
  <1>5. CASE ~Known /\ m.op = "transfer" /\ m.to = "fake"
    <2> DEFINE y(j) == T!Message("fake", j, "internal_transfer", 4, TRUE)
    <2>1. PICK j \in {"jbob", "fakebob"} : ran = T!Ran(<<y(j)>>)
      BY <1>5 DEF T!Reactions, Messages, Routed
    <2>2. y(j) \in Messages /\ Routed(y(j)) /\ ~y(j).bounced /\ y(j).op = "internal_transfer"
      BY DEF T!Message, Messages, Routed, T!Accounts, T!JettonMessageOps
    <2> HIDE DEF y
    <2>. QED BY <1>5, <2>1, <2>2, OneGoesOn
  <1>6. CASE ~Known /\ m.op = "internal_transfer"
    <2> DEFINE x == T!Message(m.to, "bob", "notification", 1, FALSE)
               y == T!Message(m.to, "wallet", "excesses", 1, FALSE)
    <2>1. ran = T!Ran(<<x, y>>) /\ ~(m.from = "fake" /\ m.to = "jbob")
      BY <1>6 DEF T!Reactions, Messages, Routed
    <2>2. m.to \in T!Accounts
      BY DEF Messages
    <2>3. /\ x \in Messages /\ Routed(x) /\ ~x.bounced /\ x.op = "notification"
          /\ y \in Messages /\ Routed(y) /\ ~y.bounced /\ y.op = "excesses"
      BY <2>2 DEF T!Message, Messages, Routed, T!Accounts, T!JettonMessageOps
    <2> HIDE DEF x, y
    <2>4. <<x, y>> \in Seq(Messages) /\ DOMAIN <<x, y>> = {1, 2} /\ <<x, y>>[1] = x /\ <<x, y>>[2] = y
      BY <2>3
    <2>5. ran \in PhasesType /\ ran.outs = <<x, y>>
      BY <2>1, <2>4, RanIsOne
    <2>6. DOMAIN ran.outs = {1, 2} /\ ran.outs[1] = x /\ ran.outs[2] = y
      BY <2>4, <2>5
    <2>. QED BY <1>6, <2>1, <2>3, <2>5, <2>6 DEF Reacts, SendsBack
  <1>7. CASE ~Known /\ (m.op \notin {"signed_internal", "internal_transfer"})
             /\ ~(m.op = "transfer" /\ m.to \in {"jwallet", "fake"})
    <2> DEFINE y == T!Message(m.to, "wallet", "none", 1, FALSE)
    <2>1. ran = T!Ran(<<y>>)
      BY <1>7 DEF T!Reactions, Messages, T!JettonMessageOps
    <2>2. m.to \in T!Accounts
      BY DEF Messages
    <2>3. y \in Messages /\ Routed(y) /\ ~y.bounced /\ y.op = "none"
      BY <2>2 DEF T!Message, Messages, Routed, T!Accounts
    <2> HIDE DEF y
    <2>. QED BY <1>7, <2>1, <2>3, OneGoesOn
  <1>8. CASE Known /\ ran # T!Failed(m) /\ m.op = "internal_transfer" /\ m.from = "fake" /\ m.to = "jbob"
    BY <1>8 DEF T!Reactions, Routed
  <1>. QED BY <1>1, <1>2, <1>3, <1>4, <1>5, <1>6, <1>7, <1>8

\* What a wallet may be signed for: its own messages, none of which carries jettons on.
LEMMA RequestsAreRouted ==
  ASSUME NEW r \in T!SignedRequests
  PROVE  /\ r \in Seq(Messages) /\ r # <<>>
         /\ \A i \in DOMAIN r : Routed(r[i]) /\ ~r[i].bounced /\ r[i].op # "internal_transfer"
  <1> DEFINE good(m) == m \in Messages /\ Routed(m) /\ ~m.bounced /\ m.op # "internal_transfer"
  <1>1. \A to \in T!Accounts, op \in {"none", "transfer"}, value \in Int :
          good(T!Message("wallet", to, op, value, TRUE))
    BY DEF T!Message, Messages, Routed, T!JettonMessageOps, T!Accounts
  <1>2. good(T!Message("wallet", "bob", "none", 3, FALSE))
    BY DEF T!Message, Messages, Routed, T!Accounts
  <1>3. good(T!Message("wallet", "vault", "signed_internal", 3, TRUE))
    BY DEF T!Message, Messages, Routed, T!Accounts
  <1>4. "bob" \in T!Accounts /\ "vault" \in T!Accounts /\ "jwallet" \in T!Accounts /\ "fake" \in T!Accounts
    BY DEF T!Accounts
  <1>5. /\ good(T!Paid("bob", "none", TRUE)) /\ good(T!Paid("bob", "none", FALSE))
        /\ good(T!Paid("bob", "transfer", TRUE)) /\ good(T!Paid("vault", "signed_internal", TRUE))
        /\ good(T!Message("wallet", "jwallet", "transfer", 6, TRUE))
        /\ good(T!Message("wallet", "fake", "transfer", 6, TRUE))
    <2> HIDE DEF good
    <2>1. 3 \in Int /\ 6 \in Int
      OBVIOUS
    <2>2. good(T!Message("wallet", "bob", "none", 3, TRUE)) /\ good(T!Message("wallet", "bob", "transfer", 3, TRUE))
          /\ good(T!Message("wallet", "jwallet", "transfer", 6, TRUE))
          /\ good(T!Message("wallet", "fake", "transfer", 6, TRUE))
      BY <1>1, <1>4, <2>1, Zenon
    <2>. QED BY <1>2, <1>3, <2>2, Zenon DEF T!Paid
  <1>6. \A x : good(x) => <<x>> \in Seq(Messages) /\ <<x>> # <<>> /\ \A i \in DOMAIN <<x>> : good(<<x>>[i])
    OBVIOUS
  <1>7. \A x, y : good(x) /\ good(y) =>
          <<x, y>> \in Seq(Messages) /\ <<x, y>> # <<>> /\ \A i \in DOMAIN <<x, y>> : good(<<x, y>>[i])
    <2> TAKE x, y
    <2> HAVE good(x) /\ good(y)
    <2>1. <<x, y>> \in Seq(Messages) /\ <<x, y>> # <<>> /\ DOMAIN <<x, y>> = {1, 2} /\ <<x, y>>[1] = x /\ <<x, y>>[2] = y
      OBVIOUS
    <2> HIDE DEF good
    <2>. QED BY <2>1
  <1> HIDE DEF good
  <1>8. r \in Seq(Messages) /\ r # <<>> /\ \A i \in DOMAIN r : good(r[i])
    BY <1>5, <1>6, <1>7 DEF T!SignedRequests
  <1>. QED BY <1>8 DEF good

\* The same of a request without its last message, and of none.
LEMMA WithoutTheLast ==
  ASSUME NEW r \in Seq(Messages), r # <<>>
  PROVE  /\ T!Front(r) \in Seq(Messages)
         /\ \A i \in DOMAIN T!Front(r) : i \in DOMAIN r /\ T!Front(r)[i] = r[i]
  <1>1. Len(r) \in Nat /\ Len(r) >= 1 /\ \A i \in 1..Len(r) : r[i] \in Messages
    BY EmptySeq, ElementOfSeq
  <1>2. /\ SubSeq(r, 1, Len(r) - 1) \in Seq(Messages)
        /\ Len(SubSeq(r, 1, Len(r) - 1)) = IF 1 <= Len(r) - 1 THEN Len(r) - 1 - 1 + 1 ELSE 0
        /\ \A i \in 1 .. Len(r) - 1 - 1 + 1 : SubSeq(r, 1, Len(r) - 1)[i] = r[1 + i - 1]
    <2>1. \A i \in 1..(Len(r) - 1) : r[i] \in Messages
      BY <1>1
    <2>2. 1 \in Int /\ Len(r) - 1 \in Int
      BY <1>1
    <2>. QED BY <2>1, <2>2, SubSeqProperties
  <1> DEFINE f == SubSeq(r, 1, Len(r) - 1)
  <1>3. f \in Seq(Messages) /\ Len(f) = IF 1 <= Len(r) - 1 THEN Len(r) - 1 - 1 + 1 ELSE 0
    BY <1>2
  <1>4. \A i \in 1 .. Len(r) - 1 - 1 + 1 : f[i] = r[1 + i - 1]
    BY <1>2
  <1>5. T!Front(r) = f
    BY DEF T!Front
  <1> HIDE DEF f
  <1>6. ASSUME NEW i \in DOMAIN f PROVE i \in DOMAIN r /\ f[i] = r[i]
    <2> DEFINE n == Len(r)
               k == Len(f)
    <2>1. n \in Nat /\ n >= 1 /\ k = IF 1 <= n - 1 THEN n - 1 - 1 + 1 ELSE 0
      BY <1>1, <1>3
    <2>2. DOMAIN f = 1..k /\ DOMAIN r = 1..n
      BY <1>3, LenProperties
    <2> HIDE DEF n, k
    <2>3. i \in 1..n /\ i \in 1 .. n - 1 - 1 + 1 /\ 1 + i - 1 = i
      BY <2>1, <2>2
    <2>. QED BY <1>4, <2>2, <2>3 DEF n
  <1>. QED BY <1>3, <1>5, <1>6

\* What the wallet's own transaction holds.
Rooted(tx) ==
  /\ tx.in = T!External
  /\ \A i \in DOMAIN tx.outs :
       Routed(tx.outs[i]) /\ ~tx.outs[i].bounced /\ tx.outs[i].op # "internal_transfer"

\* What the wallet's transaction may be.
RootRuns(r) == {T!Ran(r), [T!Ran(T!Front(r)) EXCEPT !.skipped = 1], T!ActionFailed}

LEMMA RootReacts ==
  ASSUME NEW r \in T!SignedRequests, NEW ran \in RootRuns(r)
  PROVE  /\ ran \in PhasesType
         /\ \A i \in DOMAIN ran.outs :
              Routed(ran.outs[i]) /\ ~ran.outs[i].bounced /\ ran.outs[i].op # "internal_transfer"
  <1>1. /\ r \in Seq(Messages) /\ r # <<>>
        /\ \A i \in DOMAIN r : Routed(r[i]) /\ ~r[i].bounced /\ r[i].op # "internal_transfer"
    BY RequestsAreRouted
  <1>2. /\ T!Front(r) \in Seq(Messages)
        /\ \A i \in DOMAIN T!Front(r) : i \in DOMAIN r /\ T!Front(r)[i] = r[i]
    BY <1>1, WithoutTheLast
  <1>3. CASE ran = T!Ran(r)
    <2>1. ran \in PhasesType /\ ran.outs = r
      BY <1>1, <1>3, RanIsOne
    <2>. QED BY <1>1, <2>1
  <1>4. CASE ran = [T!Ran(T!Front(r)) EXCEPT !.skipped = 1]
    <2> DEFINE base == T!Ran(T!Front(r))
    <2>1. base \in PhasesType /\ base.outs = T!Front(r)
      BY <1>2, RanIsOne
    <2>2. ran = [base EXCEPT !.skipped = 1]
      BY <1>4
    <2> HIDE DEF base
    <2>3. ran \in PhasesType /\ ran.outs = T!Front(r)
      BY <2>1, <2>2 DEF PhasesType
    <2>. QED BY <1>1, <1>2, <2>3
  <1>5. CASE ran = T!ActionFailed
    <2>1. ran \in PhasesType /\ ran.outs = <<>>
      BY <1>5, RefusalsAreOne
    <2>2. DOMAIN ran.outs = {}
      BY <2>1
    <2>. QED BY <2>1, <2>2
  <1>. QED BY <1>3, <1>4, <1>5 DEF RootRuns

-----------------------------------------------------------------------------
(* The tree: every transaction but the root took a message that its parent *)
(* sent, and is in no earlier block.                                       *)

Hangs(p) ==
  /\ T!Parent(p) \in DOMAIN chain
  /\ T!Last(p) \in DOMAIN chain[T!Parent(p)].outs
  /\ chain[p].in = chain[T!Parent(p)].outs[T!Last(p)]
  /\ Reacts(chain[p].in, chain[p])
  /\ chain[p].at > 0 => chain[T!Parent(p)].at > 0 /\ chain[T!Parent(p)].at <= chain[p].at

Grown(p) ==
  /\ chain[p].place = p /\ chain[p].account = chain[p].in.to /\ chain[p].at <= head
  /\ Routed(chain[p].in)
  /\ IF p = <<>> THEN Rooted(chain[p]) ELSE Hangs(p)

Tree ==
  /\ DOMAIN chain \in SUBSET Seq(Nat) /\ IsFiniteSet(DOMAIN chain)
  /\ chain \in [DOMAIN chain -> Transactions]
  /\ head \in Nat
  /\ \A p \in DOMAIN chain : Grown(p)

LEMMA TransactionIsOne ==
  ASSUME NEW p \in Seq(Nat), NEW in \in Messages, NEW ran \in PhasesType
  PROVE  LET tx == T!Transaction(p, in, ran)
         IN  /\ tx \in Transactions /\ tx.place = p /\ tx.account = in.to /\ tx.in = in /\ tx.at = 0
             /\ tx.outs = ran.outs /\ tx.aborted = ran.aborted
  BY DEF T!Transaction, Transactions, PhasesType, Messages

LEMMA ExecuteGrows ==
  ASSUME Tree, NEW p \in Seq(Nat), NEW in \in Messages, NEW ran \in PhasesType,
         p \notin DOMAIN chain, T!Execute(p, in, ran), Routed(in),
         IF p = <<>> THEN /\ in = T!External
                          /\ \A i \in DOMAIN ran.outs : Routed(ran.outs[i]) /\ ~ran.outs[i].bounced
                                                        /\ ran.outs[i].op # "internal_transfer"
         ELSE /\ T!Parent(p) \in DOMAIN chain
              /\ T!Last(p) \in DOMAIN chain[T!Parent(p)].outs
              /\ in = chain[T!Parent(p)].outs[T!Last(p)]
              /\ Reacts(in, ran)
  PROVE  Tree'
  <1> DEFINE tx == T!Transaction(p, in, ran)
  <1>1. /\ tx \in Transactions /\ tx.place = p /\ tx.account = in.to /\ tx.in = in /\ tx.at = 0
        /\ tx.outs = ran.outs /\ tx.aborted = ran.aborted
    BY TransactionIsOne
  <1> HIDE DEF tx
  <1>2. chain' = [q \in DOMAIN chain \cup {p} |-> IF q = p THEN tx ELSE chain[q]] /\ head' = head
    BY DEF T!Execute, T!With, tx
  <1>3. /\ DOMAIN chain' = DOMAIN chain \cup {p} /\ chain'[p] = tx
        /\ \A q \in DOMAIN chain : q # p /\ chain'[q] = chain[q]
    BY <1>2
  <1>4. DOMAIN chain' \in SUBSET Seq(Nat) /\ IsFiniteSet(DOMAIN chain') /\ head' \in Nat
    <2>1. IsFiniteSet(DOMAIN chain \cup {p})
      BY FS_AddElement DEF Tree
    <2>. QED BY <1>2, <1>3, <2>1 DEF Tree
  <1>5. chain' \in [DOMAIN chain' -> Transactions]
    BY <1>1, <1>2, <1>3 DEF Tree
  <1>6. ASSUME NEW q \in DOMAIN chain PROVE Grown(q)'
    BY <1>2, <1>3, <1>6 DEF Tree, Grown, Hangs
  <1>7. Grown(p)'
    <2>1. head \in Nat /\ tx.at <= head'
      BY <1>1, <1>2 DEF Tree
    <2>2. CASE p = <<>>
      BY <1>1, <1>3, <2>1, <2>2 DEF Grown, Rooted
    <2>3. CASE p # <<>>
      <3>1. Reacts(in, tx)
        BY <1>1, <2>3 DEF Reacts, SendsBack
      <3>. QED BY <1>1, <1>3, <2>1, <2>3, <3>1 DEF Grown, Hangs
    <2>. QED BY <2>2, <2>3
  <1>. QED BY <1>3, <1>4, <1>5, <1>6, <1>7 DEF Tree

\* The transactions are places, whose parents are among them.
LEMMA TreeIsClosed ==
  ASSUME Tree
  PROVE  T!Closed(DOMAIN chain)
  BY DEF Tree, Grown, Hangs, T!Closed

LEMMA PendingHangs ==
  ASSUME Tree, NEW p \in T!Pending(chain)
  PROVE  /\ p \in Seq(Nat) /\ p # <<>> /\ p \notin DOMAIN chain
         /\ T!Parent(p) \in DOMAIN chain
         /\ T!Last(p) \in DOMAIN chain[T!Parent(p)].outs
         /\ chain[T!Parent(p)].outs[T!Last(p)] \in Messages
         /\ Routed(chain[T!Parent(p)].outs[T!Last(p)])
  <1>1. PICK q \in DOMAIN chain : \E i \in DOMAIN chain[q].outs : p = Append(q, i)
    BY DEF T!Pending
  <1>2. PICK i \in DOMAIN chain[q].outs : p = Append(q, i)
    BY <1>1
  <1>3. chain[q].outs \in Seq(Messages) /\ q \in Seq(Nat)
    BY DEF Tree, Transactions
  <1>4. i \in Nat /\ chain[q].outs[i] \in Messages
    BY <1>3, ElementOfSeq
  <1>5. p \in Seq(Nat) /\ p # <<>> /\ T!Parent(p) = q /\ T!Last(p) = i
    BY <1>2, <1>3, <1>4, PlaceOfMessage DEF T!Parent
  <1>6. p \notin DOMAIN chain
    BY DEF T!Pending
  <1>7. Routed(chain[q].outs[i])
    BY DEF Tree, Grown, Rooted, Hangs, Reacts
  <1>. QED BY <1>4, <1>5, <1>6, <1>7

LEMMA StartIsExecute ==
  ASSUME T!Start
  PROVE  /\ chain = T!NoChanges
         /\ \E r \in T!SignedRequests : \E ran \in RootRuns(r) : T!Execute(<<>>, T!External, ran)
  BY DEF T!Start, RootRuns

LEMMA StartGrows ==
  ASSUME Tree, T!Start
  PROVE  Tree'
  <1>1. DOMAIN chain = {}
    BY StartIsExecute DEF T!NoChanges
  <1>2. PICK r \in T!SignedRequests : \E ran \in RootRuns(r) : T!Execute(<<>>, T!External, ran)
    BY StartIsExecute
  <1>6. PICK ran \in RootRuns(r) : T!Execute(<<>>, T!External, ran)
    BY <1>2
  <1>3. /\ ran \in PhasesType
        /\ \A i \in DOMAIN ran.outs :
             Routed(ran.outs[i]) /\ ~ran.outs[i].bounced /\ ran.outs[i].op # "internal_transfer"
    BY RootReacts
  <1>4. T!External \in Messages /\ Routed(T!External)
    BY DEF T!External, T!Message, Messages, Routed, T!Accounts
  <1>5. <<>> \in Seq(Nat) /\ <<>> \notin DOMAIN chain
    BY <1>1
  <1>. QED BY <1>3, <1>4, <1>5, <1>6, ExecuteGrows

LEMMA TakeGrows ==
  ASSUME Tree, T!Take
  PROVE  Tree'
  <1>1. PICK p \in T!Pending(chain) :
          \E ran \in T!Reactions(chain[T!Parent(p)].outs[T!Last(p)]) :
             T!Execute(p, chain[T!Parent(p)].outs[T!Last(p)], ran)
    BY DEF T!Take
  <1> DEFINE m == chain[T!Parent(p)].outs[T!Last(p)]
  <1>2. PICK ran \in T!Reactions(m) : T!Execute(p, m, ran)
    BY <1>1
  <1>3. /\ p \in Seq(Nat) /\ p # <<>> /\ p \notin DOMAIN chain
        /\ T!Parent(p) \in DOMAIN chain
        /\ T!Last(p) \in DOMAIN chain[T!Parent(p)].outs
        /\ m \in Messages /\ Routed(m)
    BY PendingHangs
  <1>4. ran \in PhasesType /\ Reacts(m, ran)
    BY <1>2, <1>3, ReactionsReact
  <1>5. m = chain[T!Parent(p)].outs[T!Last(p)]
    OBVIOUS
  <1> HIDE DEF m
  <1>. QED BY <1>2, <1>3, <1>4, <1>5, ExecuteGrows

\* A block only numbers transactions.
LEMMA BlockNumbers ==
  ASSUME Tree, T!Block
  PROVE  /\ head' = head + 1 /\ DOMAIN chain' = DOMAIN chain /\ chain' \in [DOMAIN chain' -> Transactions]
         /\ \A p \in DOMAIN chain :
              /\ chain'[p].place = chain[p].place /\ chain'[p].account = chain[p].account
              /\ chain'[p].in = chain[p].in /\ chain'[p].outs = chain[p].outs
              /\ chain'[p].compute = chain[p].compute /\ chain'[p].action = chain[p].action
              /\ chain'[p].skipped = chain[p].skipped /\ chain'[p].aborted = chain[p].aborted
              /\ chain'[p].at = chain[p].at \/ (chain[p].at = 0 /\ chain'[p].at = head + 1)
              /\ chain[p].at > 0 => chain'[p] = chain[p]
         /\ \A p \in DOMAIN chain : chain'[p].at > 0 /\ p # <<>> => chain'[T!Parent(p)].at > 0
  <1>1. PICK S \in SUBSET DOMAIN chain :
          /\ T!Committed \subseteq S /\ T!Closed(S)
          /\ head' = head + 1
          /\ chain' = [p \in DOMAIN chain |->
                          IF p \in S \ T!Committed THEN [chain[p] EXCEPT !.at = head + 1] ELSE chain[p]]
    BY DEF T!Block
  <1>2. DOMAIN chain' = DOMAIN chain
    BY <1>1
  <1>3. ASSUME NEW p \in DOMAIN chain
        PROVE  /\ chain'[p] \in Transactions
               /\ chain'[p].place = chain[p].place /\ chain'[p].account = chain[p].account
               /\ chain'[p].in = chain[p].in /\ chain'[p].outs = chain[p].outs
               /\ chain'[p].compute = chain[p].compute /\ chain'[p].action = chain[p].action
               /\ chain'[p].skipped = chain[p].skipped /\ chain'[p].aborted = chain[p].aborted
               /\ chain'[p].at = chain[p].at \/ (chain[p].at = 0 /\ chain'[p].at = head + 1)
               /\ chain[p].at > 0 => chain'[p] = chain[p]
               /\ chain'[p].at > 0 <=> p \in S
    <2>1. chain[p] \in Transactions /\ chain[p].at \in Nat /\ head \in Nat
      BY DEF Tree, Transactions
    <2>2. p \in T!Committed <=> chain[p].at > 0
      BY DEF T!Committed
    <2>3. CASE p \in S \ T!Committed
      <3>1. chain'[p] = [chain[p] EXCEPT !.at = head + 1] /\ chain[p].at = 0
        BY <1>1, <2>1, <2>2, <2>3
      <3>. QED BY <2>1, <2>3, <3>1 DEF Transactions
    <2>4. CASE p \notin S \ T!Committed
      <3>1. chain'[p] = chain[p]
        BY <1>1, <2>4
      <3>. QED BY <1>1, <2>1, <2>2, <2>4, <3>1
    <2>. QED BY <2>3, <2>4
  <1>4. ASSUME NEW p \in DOMAIN chain, chain'[p].at > 0, p # <<>> PROVE chain'[T!Parent(p)].at > 0
    <2>1. p \in S
      BY <1>3, <1>4
    <2>2. T!Parent(p) \in S
      BY <1>1, <1>4, <2>1 DEF T!Closed
    <2>. QED BY <1>3, <2>2
  <1>5. chain' \in [DOMAIN chain' -> Transactions]
    <2>1. chain' = [p \in DOMAIN chain |-> chain'[p]]
      BY <1>1
    <2>. QED BY <1>2, <1>3, <2>1
  <1>. QED BY <1>1, <1>2, <1>3, <1>4, <1>5

LEMMA BlockGrows ==
  ASSUME Tree, T!Block
  PROVE  Tree'
  <1>1. /\ head' = head + 1 /\ DOMAIN chain' = DOMAIN chain /\ chain' \in [DOMAIN chain' -> Transactions]
        /\ \A p \in DOMAIN chain :
             /\ chain'[p].place = chain[p].place /\ chain'[p].account = chain[p].account
             /\ chain'[p].in = chain[p].in /\ chain'[p].outs = chain[p].outs
             /\ chain'[p].aborted = chain[p].aborted
             /\ chain'[p].at = chain[p].at \/ (chain[p].at = 0 /\ chain'[p].at = head + 1)
        /\ \A p \in DOMAIN chain : chain'[p].at > 0 /\ p # <<>> => chain'[T!Parent(p)].at > 0
    BY BlockNumbers
  <1>2. ASSUME NEW p \in DOMAIN chain PROVE Grown(p)'
    <2>1. chain[p].at \in Nat /\ head \in Nat /\ Grown(p)
      BY DEF Tree, Transactions
    <2>2. chain'[p].place = p /\ chain'[p].account = chain'[p].in.to /\ chain'[p].at <= head' /\ Routed(chain'[p].in)
      BY <1>1, <2>1 DEF Grown
    <2>3. CASE p = <<>>
      BY <1>1, <2>1, <2>2, <2>3 DEF Grown, Rooted
    <2>4. CASE p # <<>>
      <3>1. Hangs(p) /\ T!Parent(p) \in DOMAIN chain
        BY <2>1, <2>4 DEF Grown, Hangs
      <3>2. Reacts(chain'[p].in, chain'[p])
        BY <1>1, <3>1 DEF Hangs, Reacts, SendsBack
      <3>3. chain[T!Parent(p)].at \in Nat
        BY <3>1 DEF Tree, Transactions
      <3>4. chain'[p].at > 0 => chain'[T!Parent(p)].at > 0 /\ chain'[T!Parent(p)].at <= chain'[p].at
        <4>1. chain[T!Parent(p)].at <= head
          BY <3>1 DEF Tree, Grown
        <4> SUFFICES ASSUME chain'[p].at > 0 PROVE chain'[T!Parent(p)].at <= chain'[p].at
          BY <1>1, <2>4
        <4>2. chain[p].at > 0 => chain[T!Parent(p)].at > 0 /\ chain[T!Parent(p)].at <= chain[p].at
          BY <3>1 DEF Hangs
        <4>3. chain'[p].at = chain[p].at \/ (chain[p].at = 0 /\ chain'[p].at = head + 1)
          BY <1>1
        <4>4. chain'[T!Parent(p)].at = chain[T!Parent(p)].at
              \/ (chain[T!Parent(p)].at = 0 /\ chain'[T!Parent(p)].at = head + 1)
          BY <1>1, <3>1
        <4>. QED BY <2>1, <3>3, <4>1, <4>2, <4>3, <4>4
      <3>. QED BY <1>1, <2>2, <2>4, <3>1, <3>2, <3>4 DEF Grown, Hangs
    <2>. QED BY <2>3, <2>4
  <1>3. head' \in Nat
    BY <1>1 DEF Tree
  <1>. QED BY <1>1, <1>2, <1>3 DEF Tree

LEMMA ReplaceGrows ==
  ASSUME Tree, T!Replace
  PROVE  Tree'
  <1>1. PICK p \in DOMAIN chain \ T!Committed :
          p # <<>> /\ T!ChildrenOf(chain, p) = {} /\ chain' = T!Without(chain, p)
    BY DEF T!Replace
  <1>2. chain' = [q \in DOMAIN chain \ {p} |-> chain[q]] /\ head' = head
    BY <1>1 DEF T!Replace, T!Without
  <1>3. DOMAIN chain' \in SUBSET Seq(Nat) /\ IsFiniteSet(DOMAIN chain') /\ head' \in Nat
        /\ chain' \in [DOMAIN chain' -> Transactions]
    <2>1. IsFiniteSet(DOMAIN chain \ {p})
      BY FS_Subset DEF Tree
    <2>. QED BY <1>2, <2>1 DEF Tree
  <1>4. ASSUME NEW q \in DOMAIN chain' PROVE Grown(q)'
    <2>1. q \in DOMAIN chain /\ chain'[q] = chain[q] /\ Grown(q)
      BY <1>2 DEF Tree
    <2>2. q # <<>> => T!Parent(q) # p
      BY <1>1, <2>1 DEF T!ChildrenOf
    <2>. QED BY <1>2, <2>1, <2>2 DEF Grown, Hangs
  <1>. QED BY <1>3, <1>4 DEF Tree

LEMMA TreeAtFirst ==
  ASSUME T!Init
  PROVE  Tree
  <1>1. DOMAIN chain = {} /\ chain = [p \in {} |-> 0] /\ head = 0
    BY DEF T!Init, T!NoChanges
  <1>. QED BY <1>1, FS_EmptySet DEF Tree

LEMMA TreeStays ==
  ASSUME Tree, T!Next \/ UNCHANGED traceVars
  PROVE  Tree'
  <1>1. CASE UNCHANGED <<chain, head>>
    BY <1>1 DEF Tree, Grown, Hangs
  <1>2. CASE T!Start
    BY <1>2, StartGrows
  <1>3. CASE T!Take
    BY <1>3, TakeGrows
  <1>4. CASE T!Block
    BY <1>4, BlockGrows
  <1>5. CASE T!Replace
    BY <1>5, ReplaceGrows
  <1>. QED BY <1>1, <1>2, <1>3, <1>4, <1>5
       DEF T!Next, T!Ask, T!GetAccountTransfers, T!ReadTrace, T!ReadHead, T!Emulate, traceVars

-----------------------------------------------------------------------------
(* What a provider's reply holds of the chain, when it passed the checks.  *)

Went(ran) == ran.compute \in {"ok", "no_state"} /\ ran.action # "failed" /\ ran.skipped = 0

\* A reply's transaction is the chain's.
Shows(tx, ran) ==
  /\ tx.place = ran.place /\ tx.account = ran.account /\ tx.in = ran.in
  /\ tx.aborted = ran.aborted /\ tx.outs = ran.outs
  /\ tx.success <=> Went(ran)

Numbered(n, at) == n \in Nat /\ (n > 0 => at > 0 /\ n <= at /\ at - RefLag <= n)

Reply(trace) ==
  /\ DOMAIN trace.txs \subseteq DOMAIN chain /\ <<>> \in DOMAIN trace.txs
  /\ \A p \in DOMAIN trace.txs :
       Shows(trace.txs[p], chain[p]) /\ Numbered(trace.txs[p].seqno, chain[p].at)
  /\ trace.complete => T!Closed(DOMAIN trace.txs) /\ T!Pending(trace.txs) = {}

LEMMA GivenShows ==
  ASSUME Tree, NEW S \in SUBSET DOMAIN chain, NEW seqno, NEW q \in S
  PROVE  Shows(T!Given(S, seqno)[q], chain[q]) /\ T!Given(S, seqno)[q].seqno = seqno[q]
         /\ DOMAIN T!Given(S, seqno) = S
  <1>1. chain[q] \in Transactions /\ chain[q].place = q
    BY DEF Tree, Grown
  <1>2. T!tonTransactionOutcome(chain[q]).success <=> Went(chain[q])
    BY DEF T!tonTransactionOutcome, Went
  <1>3. /\ T!Given(S, seqno)[q].place = q /\ T!Given(S, seqno)[q].account = chain[q].account
        /\ T!Given(S, seqno)[q].in = chain[q].in /\ T!Given(S, seqno)[q].aborted = chain[q].aborted
        /\ T!Given(S, seqno)[q].outs = chain[q].outs /\ T!Given(S, seqno)[q].seqno = seqno[q]
        /\ T!Given(S, seqno)[q].success = T!tonTransactionOutcome(chain[q]).success
        /\ DOMAIN T!Given(S, seqno) = S
    BY DEF T!Given
  <1>. QED BY <1>1, <1>2, <1>3 DEF Shows

\* A reply that lost transactions still shows the others, and one whose message was altered
\* does not pass.
LEMMA SufferedShows ==
  ASSUME Tree, NEW S \in SUBSET DOMAIN chain, S # {}, T!Closed(S),
         NEW seqno, \A q \in S : Numbered(seqno[q], chain[q].at),
         NEW fault \in {"none", "gap", "left_out", "altered"}, NEW p, fault # "none" => p \in S \ {<<>>},
         NEW trace, trace.txs = T!Suffers(T!Given(S, seqno), fault, p), T!Consistent(trace)
  PROVE  Reply(trace)
  <1> DEFINE txs == T!Given(S, seqno)
  <1>1. DOMAIN txs = S /\ \A q \in S : Shows(txs[q], chain[q]) /\ Numbered(txs[q].seqno, chain[q].at)
    BY GivenShows
  <1>2. <<>> \in S /\ S \in SUBSET Seq(Nat)
    BY RootIsIn DEF Tree
  <1> HIDE DEF txs
  <1>3. /\ DOMAIN trace.txs \subseteq S /\ <<>> \in DOMAIN trace.txs
        /\ \A q \in DOMAIN trace.txs : trace.txs[q] = txs[q]
    <2>1. CASE fault = "gap"
      <3>1. <<>> \notin T!Below(S, p)
        <4>1. p \in Seq(Nat) /\ p # <<>> /\ Len(p) > 0
          BY <1>2, <2>1, PlaceParts
        <4>2. Len(p) \in Nat /\ Len(<<>>) = 0
          BY <4>1, LenProperties
        <4>. QED BY <4>1, <4>2 DEF T!Below, T!IsPrefix
      <3>2. trace.txs = [q \in S \ T!Below(S, p) |-> txs[q]]
        BY <1>1, <2>1 DEF T!Suffers, T!Restrict, txs
      <3>. QED BY <1>2, <3>1, <3>2
    <2>2. CASE fault = "left_out"
      <3>1. trace.txs = [q \in S \ {p} |-> txs[q]]
        BY <1>1, <2>2 DEF T!Suffers, T!Without, txs
      <3>. QED BY <1>2, <2>2, <3>1
    <2>3. CASE fault = "none"
      BY <1>1, <1>2, <2>3 DEF T!Suffers, txs
    <2>4. CASE fault = "altered"
      <3> DEFINE bad == [txs[p] EXCEPT !.in = [txs[p].in EXCEPT !.value = txs[p].in.value + 1]]
      <3>1. trace.txs = [txs EXCEPT ![p] = bad]
        BY <2>4 DEF T!Suffers, txs
      <3>2. p \in S /\ p # <<>> /\ T!Parent(p) \in S
        BY <2>4 DEF T!Closed
      <3>3. T!Parent(p) # p
        <4>1. Len(p) \in Nat /\ Len(T!Front(p)) = Len(p) - 1
          BY <1>2, <3>2, PlaceParts
        <4>. QED BY <4>1 DEF T!Parent
      <3>4. trace.txs[T!Parent(p)] = txs[T!Parent(p)] /\ trace.txs[p] = bad /\ DOMAIN trace.txs = S
        BY <1>1, <3>1, <3>2, <3>3
      <3>5. txs[T!Parent(p)].outs[T!Last(p)] = bad.in
        <4>1. T!ReceivedWhatWasSent(trace, p)
          BY <3>2, <3>4 DEF T!Consistent
        <4>2. txs[T!Parent(p)].outs[T!Last(p)] = trace.txs[p].in
          BY <3>4, <4>1 DEF T!ReceivedWhatWasSent
        <4>. QED BY <3>4, <4>2
      <3>6. txs[T!Parent(p)].outs = chain[T!Parent(p)].outs /\ txs[p].in = chain[p].in /\ chain[p].in \in Messages
        BY <1>1, <3>2 DEF Shows, Tree, Transactions
      <3>7. chain[p].in = chain[T!Parent(p)].outs[T!Last(p)]
        BY <3>2 DEF Tree, Grown, Hangs
      <3>8. txs[p].in = bad.in
        BY <3>5, <3>6, <3>7
      <3>9. bad.in = [chain[p].in EXCEPT !.value = chain[p].in.value + 1]
        <4> DEFINE tx == txs[p]
                   v == [chain[p].in EXCEPT !.value = chain[p].in.value + 1]
        <4>1. "in" \in DOMAIN tx
          <5>1. tx = [seqno |-> seqno[p], success |-> T!tonTransactionOutcome(chain[p]).success, place |-> p,
                      account |-> chain[p].account, in |-> chain[p].in, aborted |-> chain[p].aborted,
                      outs |-> chain[p].outs]
            BY <3>2 DEF txs, T!Given
          <5>. QED BY <5>1
        <4>2. bad = [tx EXCEPT !.in = v]
          BY <3>6
        <4> HIDE DEF tx, v
        <4>3. [tx EXCEPT !.in = v].in = v
          BY <4>1
        <4>. QED BY <4>2, <4>3 DEF v
      <3>10. [chain[p].in EXCEPT !.value = chain[p].in.value + 1].value = chain[p].in.value + 1
             /\ chain[p].in.value \in Int
        BY <3>6 DEF Messages
      <3> DEFINE m == chain[p].in
                 n == [m EXCEPT !.value = m.value + 1]
      <3>11. m = n
        <4> HIDE DEF bad
        <4>. QED BY <3>6, <3>8, <3>9
      <3>12. n.value = m.value + 1 /\ m.value \in Int
        BY <3>10
      <3> HIDE DEF n, m
      <3>. QED BY <3>11, <3>12
    <2>. QED BY <2>1, <2>2, <2>3, <2>4
  <1>4. trace.complete => T!Closed(DOMAIN trace.txs) /\ T!Pending(trace.txs) = {}
    BY DEF T!Consistent, T!Closed
  <1>. QED BY <1>1, <1>3, <1>4 DEF Reply

LEMMA CheckedReply ==
  ASSUME NEW trace, trace.kind = "trace", T!assertTraceConsistent(trace).kind = "trace"
  PROVE  T!assertTraceConsistent(trace) = trace /\ T!Consistent(trace)
  BY DEF T!assertTraceConsistent, T!Failure

LEMMA FoundIsTrace ==
  ASSUME NEW complete, NEW txs
  PROVE  LET trace == T!Found(complete, txs)
         IN  trace.kind = "trace" /\ trace.txs = txs /\ trace.complete = complete
  BY DEF T!Found

LEMMA StrikesAreFaults ==
  ASSUME NEW S, NEW faults, faults \subseteq {"gap", "left_out", "altered"}, NEW x \in T!Strikes(S, faults)
  PROVE  x.fault \in {"none", "gap", "left_out", "altered"} /\ (x.fault # "none" => x.on \in S \ {<<>>})
  <1>1. CASE x \in [fault : faults, on : S \ {<<>>}]
    BY <1>1
  <1>2. CASE x = [fault |-> "none", on |-> <<>>]
    BY <1>2
  <1>. QED BY <1>1, <1>2 DEF T!Strikes

LEMMA ToncenterReplies ==
  ASSUME Tree, NEW t \in T!FromToncenter, t.kind = "trace"
  PROVE  Reply(t)
  <1>1. t # T!Failure
    BY DEF T!Failure
  <1> DEFINE Ends(S) == {FALSE} \cup {f \in {TRUE} : S # {} /\ T!Pending(T!Restrict(chain, S)) = {}}
             Of(h, S) == {T!traceBy(T!SeenAt(h, S), finished, x.fault, x.on) :
                            finished \in Ends(S), x \in T!Strikes(S, Faults)}
             Seen(h) == {R \in SUBSET DOMAIN chain : T!ToncenterSees(h, R)}
             At(h) == UNION {Of(h, S) : S \in Seen(h)}
  <1>2. t \in UNION {At(h) : h \in 0..head}
    <2>1. T!FromToncenter = {T!Failure} \cup UNION {At(h) : h \in 0..head}
      BY SMT DEF T!FromToncenter
    <2> HIDE DEF At
    <2>. QED BY <1>1, <2>1
  <1>3. PICK h \in 0..head : t \in At(h)
    <2> HIDE DEF At
    <2>. QED BY <1>2
  <1>12. PICK S \in Seen(h) : t \in Of(h, S)
    <2> HIDE DEF Of, Seen
    <2>. QED BY <1>3
  <1>4. PICK finished \in Ends(S), x \in T!Strikes(S, Faults) :
          t = T!traceBy(T!SeenAt(h, S), finished, x.fault, x.on)
    <2> HIDE DEF Ends
    <2>. QED BY <1>12
  <1> DEFINE seqno == [q \in S |-> IF chain[q].at \in 1..h THEN chain[q].at ELSE 0]
             missing == x.fault = "left_out"
             found == T!Found(finished /\ ~missing, T!Suffers(T!Given(S, seqno), x.fault, x.on))
  <1>5. S # {} /\ t = T!assertTraceConsistent(found)
    <2>1. T!SeenAt(h, S) = T!Given(S, seqno)
      BY DEF T!SeenAt
    <2>2. S = {} => T!SeenAt(h, S) = T!NoChanges
      BY <2>1 DEF T!Given, T!NoChanges
    <2>3. T!NotSeen.kind # "trace" /\ T!Failure.kind # "trace"
      BY DEF T!NotSeen, T!Failure
    <2> HIDE DEF seqno
    <2>. QED BY <1>4, <2>1, <2>2, <2>3 DEF T!traceBy
  <1>6. found.kind = "trace" /\ found.txs = T!Suffers(T!Given(S, seqno), x.fault, x.on)
    BY FoundIsTrace
  <1>7. \A q \in S : Numbered(seqno[q], chain[q].at)
    <2> TAKE q \in S
    <2>1. chain[q].at \in Nat /\ RefLag \in Nat /\ h \in Nat
      BY <1>3, TonMCAssumption DEF Tree, Transactions
    <2>2. seqno[q] = IF chain[q].at \in 1..h THEN chain[q].at ELSE 0
      OBVIOUS
    <2> HIDE DEF seqno
    <2>. QED BY <2>1, <2>2 DEF Numbered
  <1>8. x.fault \in {"none", "gap", "left_out", "altered"} /\ (x.fault # "none" => x.on \in S \ {<<>>})
    BY StrikesAreFaults, TonMCAssumption
  <1>9. T!Closed(S) /\ S \in SUBSET DOMAIN chain
    BY <1>12 DEF T!ToncenterSees
  <1> HIDE DEF found, seqno
  <1>10. t = found /\ T!Consistent(found)
    BY <1>5, <1>6, CheckedReply
  <1>. QED BY <1>5, <1>6, <1>7, <1>8, <1>9, <1>10, SufferedShows

LEMMA TonapiReplies ==
  ASSUME Tree, NEW t \in T!FromTonapi, t.kind = "trace"
  PROVE  Reply(t)
  <1>1. t # T!Failure
    BY DEF T!Failure
  <1> DEFINE R(h) == {q \in T!Committed : chain[q].at <= h}
             At(h) == {T!traceAt(h, lag, x.fault, x.on) :
                         lag \in 0..RefLag, x \in T!Strikes(R(h), Faults \ {"left_out"})}
  <1>2. PICK h \in 0..head : t \in At(h)
    <2>1. T!FromTonapi = {T!Failure} \cup UNION {At(h) : h \in 0..head}
      BY SMT DEF T!FromTonapi
    <2> HIDE DEF At
    <2>. QED BY <1>1, <2>1
  <1>3. PICK lag \in 0..RefLag, x \in T!Strikes(R(h), Faults \ {"left_out"}) :
          t = T!traceAt(h, lag, x.fault, x.on)
    <2> HIDE DEF R
    <2>. QED BY <1>2
  <1> DEFINE S == {q \in DOMAIN chain : chain[q].at \in 1..h}
             seqno == [q \in S |-> IF chain[q].at > lag THEN chain[q].at - lag ELSE 1]
             reply == T!Suffers(T!Given(S, seqno), x.fault, x.on)
             found == T!Found(T!isComplete(reply), reply)
  <1>4. S # {} /\ t = T!assertTraceConsistent(found)
    BY <1>3 DEF T!traceAt, T!NotSeen
  <1>5. found.kind = "trace" /\ found.txs = T!Suffers(T!Given(S, seqno), x.fault, x.on)
    BY FoundIsTrace
  <1>6. \A q \in S : Numbered(seqno[q], chain[q].at)
    <2> TAKE q \in S
    <2>1. chain[q].at \in Nat /\ RefLag \in Nat /\ lag \in Nat /\ lag <= RefLag /\ chain[q].at >= 1
      BY <1>2, <1>3, TonMCAssumption DEF Tree, Transactions
    <2>2. seqno[q] = IF chain[q].at > lag THEN chain[q].at - lag ELSE 1
      OBVIOUS
    <2> HIDE DEF seqno
    <2>. QED BY <2>1, <2>2 DEF Numbered
  <1>7. S = {q \in T!Committed : chain[q].at <= h}
    <2>1. \A q \in DOMAIN chain : chain[q].at \in Nat
      BY DEF Tree, Transactions
    <2>2. h \in Nat
      BY DEF Tree
    <2>. QED BY <2>1, <2>2 DEF T!Committed
  <1>8. x.fault \in {"none", "gap", "left_out", "altered"} /\ (x.fault # "none" => x.on \in S \ {<<>>})
    <2> HIDE DEF S
    <2>1. Faults \ {"left_out"} \subseteq {"gap", "left_out", "altered"}
      BY TonMCAssumption
    <2>. QED BY <1>7, <2>1, StrikesAreFaults
  <1>9. T!Closed(S)
    <2> SUFFICES ASSUME NEW q \in S, q # <<>> PROVE T!Parent(q) \in S
      BY DEF T!Closed
    <2>1. T!Parent(q) \in DOMAIN chain /\ chain[T!Parent(q)].at > 0 /\ chain[T!Parent(q)].at <= chain[q].at
      BY DEF Tree, Grown, Hangs
    <2>2. chain[q].at \in Nat /\ chain[T!Parent(q)].at \in Nat /\ h \in Nat
      BY <2>1 DEF Tree, Transactions
    <2>. QED BY <2>1, <2>2
  <1>10. S \in SUBSET DOMAIN chain
    OBVIOUS
  <1> HIDE DEF found, seqno, S
  <1>11. t = found /\ T!Consistent(found)
    BY <1>4, <1>5, CheckedReply
  <1>. QED BY <1>4, <1>5, <1>6, <1>8, <1>9, <1>10, <1>11, SufferedShows

LEMMA TracesAreReplies ==
  ASSUME Tree, NEW t \in T!Traces
  PROVE  Reply(t)
  BY ToncenterReplies, TonapiReplies DEF T!Traces, T!Replies

LEMMA EmulationsAreReplies ==
  ASSUME Tree, chain # T!NoChanges, NEW t \in T!Emulations, t.kind = "trace"
  PROVE  Reply(t) /\ t.complete
  <1> DEFINE S == DOMAIN chain
             seqno == [q \in S |-> 0]
  <1>1. PICK x \in T!Strikes(S, Faults \ {"left_out"}) :
          t = T!assertTraceConsistent(T!Found(TRUE, T!Suffers(T!Given(S, seqno), x.fault, x.on)))
    BY Zenon DEF T!Emulations
  <1> DEFINE found == T!Found(TRUE, T!Suffers(T!Given(S, seqno), x.fault, x.on))
  <1>2. found.kind = "trace" /\ found.txs = T!Suffers(T!Given(S, seqno), x.fault, x.on) /\ found.complete
    BY DEF T!Found
  <1>3. \A q \in S : Numbered(seqno[q], chain[q].at)
    BY DEF Numbered
  <1>4. x.fault \in {"none", "gap", "left_out", "altered"} /\ (x.fault # "none" => x.on \in S \ {<<>>})
    <2>1. Faults \ {"left_out"} \subseteq {"gap", "left_out", "altered"}
      BY TonMCAssumption
    <2>. QED BY <2>1, StrikesAreFaults
  <1>5. S # {}
    <2>1. chain = [p \in DOMAIN chain |-> chain[p]]
      BY DEF Tree
    <2>. QED BY <2>1 DEF T!NoChanges
  <1>6. T!Closed(S) /\ S \in SUBSET DOMAIN chain
    BY TreeIsClosed
  <1>7. t = T!assertTraceConsistent(found)
    BY <1>1
  <1> HIDE DEF found, seqno, S
  <1>8. t = found /\ T!Consistent(found)
    BY <1>2, <1>7, CheckedReply
  <1>. QED BY <1>2, <1>3, <1>4, <1>5, <1>6, <1>8, SufferedShows

\* A reply that says it is complete is the whole tree, and nothing is on its way.
LEMMA WholeReply ==
  ASSUME Tree, NEW trace, Reply(trace), trace.complete
  PROVE  DOMAIN trace.txs = DOMAIN chain /\ ~T!Running
  <1> DEFINE D == DOMAIN trace.txs
             Lost == DOMAIN chain \ D
             L == {n \in Nat : \E p \in Lost : n = Len(p)}
  <1>1. D \subseteq DOMAIN chain /\ <<>> \in D /\ T!Pending(trace.txs) = {}
        /\ \A p \in D : trace.txs[p].outs = chain[p].outs
    BY DEF Reply, Shows
  <1>2. \A p \in Lost : p \in Seq(Nat) /\ Len(p) \in L
    BY LenProperties DEF Tree
  <1>3. Lost = {}
    <2> SUFFICES ASSUME Lost # {} PROVE FALSE
      OBVIOUS
    <2>1. PICK n \in L : \A k \in L : n <= k
      BY <1>2, LeastNatural
    <2>2. PICK p \in Lost : n = Len(p)
      OBVIOUS
    <2>3. p \in Seq(Nat) /\ p # <<>> /\ p \in DOMAIN chain
      BY <1>1, <1>2
    <2>4. T!Parent(p) \in DOMAIN chain /\ T!Last(p) \in DOMAIN chain[T!Parent(p)].outs
      BY <2>3 DEF Tree, Grown, Hangs
    <2>5. p = Append(T!Parent(p), T!Last(p)) /\ Len(T!Parent(p)) = n - 1 /\ n \in Nat
      BY <2>2, <2>3, PlaceParts DEF T!Parent
    <2>6. T!Parent(p) \in D
      <3>1. SUFFICES ASSUME T!Parent(p) \in Lost PROVE FALSE
        BY <2>4
      <3>2. n - 1 \in L
        BY <1>2, <2>5, <3>1
      <3>. QED BY <2>1, <2>5, <3>2
    <2>7. T!Last(p) \in DOMAIN trace.txs[T!Parent(p)].outs
      BY <1>1, <2>4, <2>6
    <2>8. p \in T!Pending(trace.txs)
      BY <2>2, <2>5, <2>6, <2>7 DEF T!Pending
    <2>. QED BY <1>1, <2>8
  <1>4. D = DOMAIN chain
    BY <1>1, <1>3
  <1>5. T!Pending(chain) = {}
    <2> SUFFICES ASSUME NEW p \in T!Pending(chain) PROVE FALSE
      OBVIOUS
    <2>1. p \notin DOMAIN chain /\ \E q \in DOMAIN chain : \E i \in DOMAIN chain[q].outs : p = Append(q, i)
      BY DEF T!Pending
    <2>2. PICK q \in DOMAIN chain : \E i \in DOMAIN chain[q].outs : p = Append(q, i)
      BY <2>1
    <2>3. PICK i \in DOMAIN chain[q].outs : p = Append(q, i)
      BY <2>2
    <2>4. i \in DOMAIN trace.txs[q].outs /\ q \in D
      BY <1>1, <1>4
    <2>5. p \in T!Pending(trace.txs)
      BY <1>4, <2>1, <2>3, <2>4 DEF T!Pending
    <2>. QED BY <1>1, <2>5
  <1>6. chain # T!NoChanges
    <2>1. <<>> \in DOMAIN chain
      BY <1>1
    <2>. QED BY <2>1 DEF T!NoChanges
  <1>. QED BY <1>4, <1>5, <1>6 DEF T!Running

LEMMA SettledReply ==
  ASSUME Tree, NEW trace, Reply(trace), T!Settled(trace)
  PROVE  DOMAIN trace.txs = DOMAIN chain /\ ~T!Running /\ T!Committed = DOMAIN chain
  <1>1. DOMAIN trace.txs = DOMAIN chain /\ ~T!Running
    BY WholeReply DEF T!Settled
  <1>2. \A p \in DOMAIN chain : chain[p].at > 0
    BY <1>1 DEF T!Settled, Reply, Numbered
  <1>. QED BY <1>1, <1>2 DEF T!Committed

\* Once the trace ended and is committed, only the head moves.
LEMMA EndedIsFrozen ==
  ASSUME Tree, ~T!Running, T!Committed = DOMAIN chain, T!Next \/ UNCHANGED traceVars
  PROVE  /\ UNCHANGED <<chain, coins, jettons>> /\ head' \in Nat /\ head <= head'
         /\ ~T!Running' /\ T!Committed' = DOMAIN chain'
  <1>1. UNCHANGED <<chain, coins, jettons>> /\ (head' = head \/ head' = head + 1)
    <2>1. CASE UNCHANGED <<chain, head, coins, jettons>>
      BY <2>1
    <2>2. ~T!Start
      BY StartIsExecute DEF T!Running
    <2>3. ~T!Take
      BY DEF T!Take, T!Running
    <2>4. CASE T!Block
      <3>1. head' = head + 1 /\ DOMAIN chain' = DOMAIN chain /\ chain' \in [DOMAIN chain' -> Transactions]
            /\ \A p \in DOMAIN chain : chain[p].at > 0 => chain'[p] = chain[p]
        BY <2>4, BlockNumbers
      <3>2. \A p \in DOMAIN chain : chain'[p] = chain[p]
        BY <3>1 DEF T!Committed
      <3>3. chain' = chain
        <4>1. chain' = [p \in DOMAIN chain |-> chain'[p]] /\ chain = [p \in DOMAIN chain |-> chain[p]]
          BY <3>1 DEF Tree
        <4>. QED BY <3>2, <4>1
      <3>. QED BY <2>4, <3>1, <3>3 DEF T!Block
    <2>5. ~T!Replace
      BY DEF T!Replace
    <2>. QED BY <2>1, <2>2, <2>3, <2>4, <2>5
         DEF T!Next, T!Ask, T!GetAccountTransfers, T!ReadTrace, T!ReadHead, T!Emulate, traceVars
  <1>2. ~T!Running' /\ T!Committed' = DOMAIN chain'
    BY <1>1 DEF T!Running, T!Pending, T!Committed
  <1>. QED BY <1>1, <1>2 DEF Tree

-----------------------------------------------------------------------------
(* An account's transfers in two readings of one tree.                     *)

Alike(tx, other) ==
  tx.account = other.account /\ tx.in = other.in /\ tx.aborted = other.aborted /\ tx.outs = other.outs

\* Every place's message is one that its parent sent.
Sane(txs) ==
  /\ DOMAIN txs \subseteq Seq(Nat) /\ T!Closed(DOMAIN txs)
  /\ \A p \in DOMAIN txs :
       /\ txs[p].outs \in Seq(Messages)
       /\ p # <<>> => txs[p].in = txs[T!Parent(p)].outs[T!Last(p)]

\* What one reading holds in a block, another holds too.
Keeps(one, two) ==
  \A p \in DOMAIN one.txs :
    /\ one.txs[p].seqno > 0 => p \in DOMAIN two.txs /\ Alike(one.txs[p], two.txs[p]) /\ two.txs[p].seqno > 0
    /\ one.txs[p].seqno > 0 /\ p # <<>> /\ T!Parent(p) \in DOMAIN one.txs =>
         T!Parent(p) \in DOMAIN two.txs /\ one.txs[T!Parent(p)].in = two.txs[T!Parent(p)].in

\* Two readings that differ in the numbers of blocks at most.
Twins(one, two) ==
  /\ two.complete
  /\ DOMAIN one.txs = DOMAIN two.txs
  /\ \A p \in DOMAIN one.txs : Alike(one.txs[p], two.txs[p])

LEMMA MoveIsKept ==
  ASSUME NEW one, NEW two, Keeps(one, two),
         NEW p \in T!getJettonTransfers(one.txs), p # <<>>, one.txs[p].seqno > 0
  PROVE  /\ p \in T!getJettonTransfers(two.txs) /\ T!Parent(p) \in DOMAIN one.txs
         /\ one.txs[T!Parent(p)].in = two.txs[T!Parent(p)].in
  <1>1. p \in T!tonJettonCreditsOf(one.txs) /\ T!Vouched(one.txs, p)
    BY DEF T!getJettonTransfers
  <1>2. p \in DOMAIN one.txs /\ T!Parent(p) \in DOMAIN one.txs
    BY <1>1 DEF T!tonJettonCreditsOf, T!Vouched
  <1>3. /\ p \in DOMAIN two.txs /\ Alike(one.txs[p], two.txs[p])
        /\ T!Parent(p) \in DOMAIN two.txs /\ one.txs[T!Parent(p)].in = two.txs[T!Parent(p)].in
    BY <1>2 DEF Keeps
  <1>4. p \in T!tonJettonCreditsOf(two.txs)
    BY <1>1, <1>3 DEF T!tonJettonCreditsOf, Alike
  <1>5. T!Vouched(two.txs, p)
    BY <1>1, <1>3 DEF T!Vouched, Alike
  <1>. QED BY <1>2, <1>3, <1>4, <1>5 DEF T!getJettonTransfers

\* What a jetton transfer is made of, its messages show.
LEMMA PartsAreShaped ==
  ASSUME NEW txs, Sane(txs), NEW q \in T!PartOfJetton(txs), q # <<>>, T!Parent(q) \in DOMAIN txs
  PROVE  txs[T!Parent(q)].outs[T!Last(q)].op \in T!JettonMessageOps
  <1> DEFINE moved == T!getJettonTransfers(txs)
             follow(p) == {j \in DOMAIN txs[p].outs : txs[p].outs[j].op \in T!FollowUpOps}
  <1>1. \A p \in moved : /\ p \in DOMAIN txs /\ txs[p].in.op = "internal_transfer"
                         /\ T!Parent(p) \in DOMAIN txs /\ txs[T!Parent(p)].in.op = "transfer"
    BY DEF T!getJettonTransfers, T!tonJettonCreditsOf, T!Vouched
  <1>2. q \in moved \cup {T!Parent(p) : p \in moved} \cup UNION {{Append(p, i) : i \in follow(p)} : p \in moved}
    BY DEF T!PartOfJetton
  <1> HIDE DEF moved
  <1>3. CASE q \in moved
    BY <1>1, <1>3 DEF Sane, T!JettonMessageOps
  <1>4. CASE q \in {T!Parent(p) : p \in moved}
    <2>1. PICK p \in moved : q = T!Parent(p)
      BY <1>4
    <2>2. q \in DOMAIN txs /\ txs[q].in.op = "transfer"
      BY <1>1, <2>1
    <2>. QED BY <2>2 DEF Sane, T!JettonMessageOps
  <1>5. CASE q \in UNION {{Append(p, i) : i \in follow(p)} : p \in moved}
    <2> HIDE DEF follow
    <2>1. PICK p \in moved : \E i \in follow(p) : q = Append(p, i)
      BY <1>5
    <2>2. PICK i \in follow(p) : q = Append(p, i)
      BY <2>1
    <2>3. p \in Seq(Nat) /\ i \in Nat
      <3>1. txs[p].outs \in Seq(Messages) /\ p \in Seq(Nat)
        BY <1>1 DEF Sane
      <3>2. i \in DOMAIN txs[p].outs
        BY DEF follow
      <3>. QED BY <3>1, <3>2, ElementOfSeq
    <2>4. T!Parent(q) = p /\ T!Last(q) = i
      BY <2>2, <2>3, PlaceOfMessage DEF T!Parent
    <2>. QED BY <2>4 DEF follow, T!FollowUpOps, T!JettonMessageOps
  <1>. QED BY <1>2, <1>3, <1>4, <1>5

LEMMA TwinsShareParts ==
  ASSUME NEW one, NEW two, Twins(one, two)
  PROVE  /\ T!getJettonTransfers(one.txs) = T!getJettonTransfers(two.txs)
         /\ T!PartOfJetton(one.txs) = T!PartOfJetton(two.txs)
  <1> DEFINE f == one.txs
             g == two.txs
  <1>1. DOMAIN f = DOMAIN g /\ \A p \in DOMAIN f : /\ f[p].account = g[p].account /\ f[p].in = g[p].in
                                                   /\ f[p].aborted = g[p].aborted /\ f[p].outs = g[p].outs
    BY DEF Twins, Alike
  <1> HIDE DEF f, g
  <1>2. T!tonJettonCreditsOf(f) = T!tonJettonCreditsOf(g)
    BY <1>1 DEF T!tonJettonCreditsOf
  <1>3. \A p \in T!tonJettonCreditsOf(f) : T!Vouched(f, p) <=> T!Vouched(g, p)
    <2>1. \A p \in T!tonJettonCreditsOf(f) : p \in DOMAIN f
      BY DEF T!tonJettonCreditsOf
    <2>. QED BY <1>1, <2>1 DEF T!Vouched
  <1>4. T!getJettonTransfers(f) = T!getJettonTransfers(g)
    BY <1>2, <1>3 DEF T!getJettonTransfers
  <1>5. \A p \in T!getJettonTransfers(f) : p \in DOMAIN f /\ f[p].outs = g[p].outs
    BY <1>1 DEF T!getJettonTransfers, T!tonJettonCreditsOf
  <1> DEFINE M == T!getJettonTransfers(f)
             Follow(h) == {{Append(p, i) : i \in {j \in DOMAIN h[p].outs : h[p].outs[j].op \in T!FollowUpOps}} : p \in M}
  <1>6. Follow(f) = Follow(g)
    <2> DEFINE after(p, outs) == {Append(p, i) : i \in {j \in DOMAIN outs : outs[j].op \in T!FollowUpOps}}
    <2>1. Follow(f) = {after(p, f[p].outs) : p \in M} /\ Follow(g) = {after(p, g[p].outs) : p \in M}
      OBVIOUS
    <2> HIDE DEF after, Follow, M
    <2>2. \A p \in M : f[p].outs = g[p].outs
      BY <1>5 DEF M
    <2>3. {after(p, f[p].outs) : p \in M} = {after(p, g[p].outs) : p \in M}
      BY <2>2
    <2>. QED BY <2>1, <2>3
  <1>7. /\ T!PartOfJetton(f) = M \cup {T!Parent(p) : p \in M} \cup UNION Follow(f)
        /\ T!PartOfJetton(g) = M \cup {T!Parent(p) : p \in M} \cup UNION Follow(g)
    BY <1>4 DEF T!PartOfJetton
  <1>. QED BY <1>4, <1>6, <1>7 DEF f, g

LEMMA TransferFields ==
  ASSUME NEW direction, NEW asset, NEW amount, NEW trace, NEW p, NEW i, NEW other, NEW shaped
  PROVE  LET t == T!Transfer(direction, asset, amount, trace, p, i, other, shaped)
         IN  t.final = T!IsFinal(trace, p, shaped) /\ t.shaped = shaped
  BY DEF T!Transfer

LEMMA SameTransfer ==
  ASSUME NEW direction, NEW asset, NEW amount, NEW one, NEW two, NEW p, NEW i, NEW other, NEW shaped,
         T!IsFinal(one, p, shaped), T!IsFinal(two, p, shaped)
  PROVE  T!Transfer(direction, asset, amount, one, p, i, other, shaped)
         = T!Transfer(direction, asset, amount, two, p, i, other, shaped)
  BY DEF T!Transfer

\* What is kept of a message: what was not sent on.
Carried(outs) == T!FoldFunction(+, 0, [i \in DOMAIN outs |-> outs[i].value])
Keep(tx, gross) == tx.in.value - (IF gross THEN 0 ELSE Carried(tx.outs))
Jettonish(m) == m.op \in T!JettonMessageOps
Receivable(tx, owner, gross) ==
  /\ tx.account = owner /\ tx.in.value > 0
  /\ ~(tx.aborted /\ \E i \in DOMAIN tx.outs : tx.outs[i].bounced)
  /\ Keep(tx, gross) > 0
Receipt(trace, p, gross) ==
  T!Transfer("RECEIVE", "native", Keep(trace.txs[p], gross), trace, p, 0, trace.txs[p].in.from,
             Jettonish(trace.txs[p].in))

LEMMA ReceiptsAre ==
  ASSUME NEW owner, NEW trace, NEW gross
  PROVE  T!Receipts(owner, trace, gross)
         = {Receipt(trace, p, gross) :
              p \in {q \in DOMAIN trace.txs \ (T!PartOfJetton(trace.txs) \cup {<<>>}) :
                       Receivable(trace.txs[q], owner, gross)}}
  BY Zenon DEF T!Receipts, Receipt, Receivable, Keep, Carried, Jettonish

LEMMA AlikeReceipts ==
  ASSUME NEW tx, NEW other, Alike(tx, other), NEW owner, NEW gross
  PROVE  /\ Receivable(tx, owner, gross) <=> Receivable(other, owner, gross)
         /\ Keep(tx, gross) = Keep(other, gross)
  <1>1. tx.account = other.account /\ tx.in = other.in /\ tx.aborted = other.aborted /\ tx.outs = other.outs
    BY DEF Alike
  <1>2. Keep(tx, gross) = Keep(other, gross)
    BY <1>1 DEF Keep
  <1>. QED BY <1>1, <1>2 DEF Receivable

LEMMA FinalOf ==
  ASSUME NEW one, NEW two, NEW p, NEW shaped, T!IsFinal(one, p, shaped), two.txs[p].seqno > 0,
         ~shaped \/ two.complete
  PROVE  T!IsFinal(two, p, shaped)
  BY DEF T!IsFinal

LEMMA ReceiptStays ==
  ASSUME NEW one, NEW two, NEW owner, NEW gross, Keeps(one, two), Sane(two.txs),
         NEW t \in T!Receipts(owner, one, gross), t.final, ~t.shaped \/ Twins(one, two)
  PROVE  t \in T!Receipts(owner, two, gross)
  <1>1. PICK p \in DOMAIN one.txs : /\ p \notin T!PartOfJetton(one.txs) /\ p # <<>>
                                    /\ Receivable(one.txs[p], owner, gross)
                                    /\ t = Receipt(one, p, gross)
    BY ReceiptsAre
  <1> DEFINE shaped == Jettonish(one.txs[p].in)
  <1>2. T!IsFinal(one, p, shaped) /\ (~shaped \/ Twins(one, two))
    BY <1>1, TransferFields DEF Receipt
  <1>3. one.txs[p].seqno > 0
    BY <1>2 DEF T!IsFinal
  <1>4. p \in DOMAIN two.txs /\ Alike(one.txs[p], two.txs[p]) /\ two.txs[p].seqno > 0
    BY <1>3 DEF Keeps
  <1>5. one.txs[p].in = two.txs[p].in
    BY <1>4 DEF Alike
  <1>6. p \notin T!PartOfJetton(two.txs)
    <2>1. CASE Twins(one, two)
      BY <1>1, <2>1, TwinsShareParts
    <2>2. CASE ~shaped
      <3> SUFFICES ASSUME p \in T!PartOfJetton(two.txs) PROVE FALSE
        OBVIOUS
      <3>1. T!Parent(p) \in DOMAIN two.txs /\ two.txs[p].in = two.txs[T!Parent(p)].outs[T!Last(p)]
        BY <1>1, <1>4 DEF Sane, T!Closed
      <3>2. two.txs[T!Parent(p)].outs[T!Last(p)].op \in T!JettonMessageOps
        BY <1>1, <3>1, PartsAreShaped
      <3>. QED BY <1>5, <2>2, <3>1, <3>2 DEF Jettonish
    <2>. QED BY <1>2, <2>1, <2>2
  <1>7. Receivable(two.txs[p], owner, gross) /\ Keep(one.txs[p], gross) = Keep(two.txs[p], gross)
    BY <1>1, <1>4, AlikeReceipts
  <1>8. T!IsFinal(two, p, shaped)
    <2> HIDE DEF shaped
    <2>. QED BY <1>2, <1>4, FinalOf DEF Twins
  <1>9. t = Receipt(two, p, gross)
    <2>1. T!Transfer("RECEIVE", "native", Keep(one.txs[p], gross), one, p, 0, one.txs[p].in.from, shaped)
          = T!Transfer("RECEIVE", "native", Keep(one.txs[p], gross), two, p, 0, one.txs[p].in.from, shaped)
      <3> HIDE DEF shaped
      <3>. QED BY <1>2, <1>8, SameTransfer
    <2>. QED BY <1>1, <1>5, <1>7, <2>1 DEF Receipt
  <1>. QED BY <1>1, <1>4, <1>6, <1>7, <1>9, ReceiptsAre

\* What an account sent, each message named by its receiver's place.
SentPlaces(txs, owner) ==
  UNION {{Append(p, i) : i \in T!Sent(txs[p])} : p \in {q \in DOMAIN txs : txs[q].account = owner}}
MessageAt(txs, p) == txs[T!Parent(p)].outs[T!Last(p)]
Sending(trace, p) ==
  T!Transfer("SEND", "native", MessageAt(trace.txs, p).value, trace, T!Parent(p), T!Last(p),
             MessageAt(trace.txs, p).to, Jettonish(MessageAt(trace.txs, p)))

LEMMA SendingsAre ==
  ASSUME NEW owner, NEW trace
  PROVE  T!Sendings(owner, trace)
         = {Sending(trace, p) : p \in {q \in SentPlaces(trace.txs, owner) \ T!PartOfJetton(trace.txs) :
                                         MessageAt(trace.txs, q).value > 0}}
  BY Zenon DEF T!Sendings, Sending, SentPlaces, MessageAt, Jettonish

LEMMA SentPlacesAre ==
  ASSUME NEW txs, NEW owner, NEW q \in SentPlaces(txs, owner),
         \A p \in DOMAIN txs : p \in Seq(Nat) /\ txs[p].outs \in Seq(Messages)
  PROVE  /\ q = Append(T!Parent(q), T!Last(q)) /\ q # <<>>
         /\ T!Parent(q) \in DOMAIN txs /\ txs[T!Parent(q)].account = owner
         /\ T!Last(q) \in T!Sent(txs[T!Parent(q)])
  <1>1. PICK p \in DOMAIN txs : txs[p].account = owner /\ \E i \in T!Sent(txs[p]) : q = Append(p, i)
    BY DEF SentPlaces
  <1>2. PICK i \in T!Sent(txs[p]) : q = Append(p, i)
    BY <1>1
  <1>3. p \in Seq(Nat) /\ txs[p].outs \in Seq(Messages) /\ i \in DOMAIN txs[p].outs
    BY DEF T!Sent
  <1>4. i \in Nat
    BY <1>3, ElementOfSeq
  <1>5. T!Parent(q) = p /\ T!Last(q) = i /\ q # <<>>
    BY <1>2, <1>3, <1>4, PlaceOfMessage DEF T!Parent
  <1>. QED BY <1>1, <1>2, <1>5

LEMMA SendingStays ==
  ASSUME NEW one, NEW two, NEW owner, Keeps(one, two), Sane(two.txs),
         \A p \in DOMAIN one.txs : p \in Seq(Nat) /\ one.txs[p].outs \in Seq(Messages),
         NEW t \in T!Sendings(owner, one), t.final, ~t.shaped \/ Twins(one, two)
  PROVE  t \in T!Sendings(owner, two)
  <1>1. PICK q \in SentPlaces(one.txs, owner) : /\ q \notin T!PartOfJetton(one.txs)
                                                /\ MessageAt(one.txs, q).value > 0
                                                /\ t = Sending(one, q)
    BY SendingsAre
  <1> DEFINE p == T!Parent(q)
             i == T!Last(q)
             m == MessageAt(one.txs, q)
             shaped == Jettonish(m)
  <1>2. T!IsFinal(one, p, shaped) /\ (~shaped \/ Twins(one, two))
    BY <1>1, TransferFields DEF Sending
  <1>3. /\ q = Append(p, i) /\ q # <<>>
        /\ p \in DOMAIN one.txs /\ one.txs[p].account = owner
        /\ i \in T!Sent(one.txs[p])
    BY SentPlacesAre
  <1>4. one.txs[p].seqno > 0
    BY <1>2 DEF T!IsFinal
  <1>5. p \in DOMAIN two.txs /\ Alike(one.txs[p], two.txs[p]) /\ two.txs[p].seqno > 0
    <2> HIDE DEF p
    <2>. QED BY <1>3, <1>4 DEF Keeps
  <1>6. m = MessageAt(two.txs, q)
    BY <1>5 DEF Alike, MessageAt
  <1>7. q \in SentPlaces(two.txs, owner)
    <2>1. two.txs[p].account = owner /\ i \in T!Sent(two.txs[p])
      BY <1>3, <1>5 DEF Alike, T!Sent
    <2> HIDE DEF p, i
    <2>2. p \in {x \in DOMAIN two.txs : two.txs[x].account = owner}
      BY <1>5, <2>1
    <2>3. q \in {Append(p, j) : j \in T!Sent(two.txs[p])}
      BY <1>3, <2>1
    <2>. QED BY <2>2, <2>3 DEF SentPlaces
  <1>8. q \notin T!PartOfJetton(two.txs)
    <2>1. CASE Twins(one, two)
      BY <1>1, <2>1, TwinsShareParts
    <2>2. CASE ~shaped
      <3> SUFFICES ASSUME q \in T!PartOfJetton(two.txs) PROVE FALSE
        OBVIOUS
      <3>1. two.txs[T!Parent(q)].outs[T!Last(q)].op \in T!JettonMessageOps
        BY <1>3, <1>5, PartsAreShaped
      <3>. QED BY <1>6, <2>2, <3>1 DEF Jettonish, MessageAt
    <2>. QED BY <1>2, <2>1, <2>2
  <1>9. T!IsFinal(two, p, shaped)
    <2> HIDE DEF shaped, p
    <2>. QED BY <1>2, <1>5, FinalOf DEF Twins
  <1>10. t = Sending(two, q)
    <2>1. T!Transfer("SEND", "native", m.value, one, p, i, m.to, shaped)
          = T!Transfer("SEND", "native", m.value, two, p, i, m.to, shaped)
      <3> HIDE DEF shaped, p, i, m
      <3>. QED BY <1>2, <1>9, SameTransfer
    <2>2. t = T!Transfer("SEND", "native", m.value, one, p, i, m.to, shaped)
      BY <1>1 DEF Sending
    <2>3. Sending(two, q) = T!Transfer("SEND", "native", m.value, two, p, i, m.to, shaped)
      BY <1>6 DEF Sending
    <2>. QED BY <2>1, <2>2, <2>3
  <1>11. MessageAt(two.txs, q).value > 0
    BY <1>1, <1>6
  <1>. QED BY <1>7, <1>8, <1>10, <1>11, SendingsAre

JettonMovesAt(owner, trace, p) ==
  (IF owner = "wallet" THEN {T!Transfer("SEND", "jetton", 1, trace, p, 0, "bob", FALSE)} ELSE {})
  \cup (IF owner = trace.txs[T!Parent(p)].in.names
        THEN {T!Transfer("RECEIVE", "jetton", 1, trace, p, 0, "wallet", FALSE)} ELSE {})

LEMMA JettonMovesAre ==
  ASSUME NEW owner, NEW trace
  PROVE  T!JettonMoves(owner, trace)
         = UNION {JettonMovesAt(owner, trace, p) : p \in T!getJettonTransfers(trace.txs)}
  BY Zenon DEF T!JettonMoves, JettonMovesAt

LEMMA JettonMoveStays ==
  ASSUME NEW one, NEW two, NEW owner, Keeps(one, two),
         <<>> \in DOMAIN one.txs => one.txs[<<>>].in.op # "internal_transfer",
         NEW t \in T!JettonMoves(owner, one), t.final
  PROVE  t \in T!JettonMoves(owner, two)
  <1>1. PICK p \in T!getJettonTransfers(one.txs) : t \in JettonMovesAt(owner, one, p)
    <2> HIDE DEF JettonMovesAt
    <2>. QED BY JettonMovesAre
  <1>2. p # <<>> /\ p \in DOMAIN one.txs
    BY DEF T!getJettonTransfers, T!tonJettonCreditsOf
  <1>3. T!IsFinal(one, p, FALSE)
    <2>1. CASE t = T!Transfer("SEND", "jetton", 1, one, p, 0, "bob", FALSE)
      BY <2>1 DEF T!Transfer
    <2>2. CASE t = T!Transfer("RECEIVE", "jetton", 1, one, p, 0, "wallet", FALSE)
      BY <2>2 DEF T!Transfer
    <2>. QED BY <1>1, <2>1, <2>2 DEF JettonMovesAt
  <1>4. one.txs[p].seqno > 0
    BY <1>3 DEF T!IsFinal
  <1>5. /\ p \in T!getJettonTransfers(two.txs) /\ T!Parent(p) \in DOMAIN one.txs
        /\ one.txs[T!Parent(p)].in = two.txs[T!Parent(p)].in
    BY <1>2, <1>4, MoveIsKept
  <1>6. two.txs[p].seqno > 0
    BY <1>2, <1>4 DEF Keeps
  <1>7. T!IsFinal(two, p, FALSE)
    BY <1>6 DEF T!IsFinal
  <1>8. /\ T!Transfer("SEND", "jetton", 1, one, p, 0, "bob", FALSE)
           = T!Transfer("SEND", "jetton", 1, two, p, 0, "bob", FALSE)
        /\ T!Transfer("RECEIVE", "jetton", 1, one, p, 0, "wallet", FALSE)
           = T!Transfer("RECEIVE", "jetton", 1, two, p, 0, "wallet", FALSE)
    BY <1>3, <1>7 DEF T!Transfer
  <1>9. t \in JettonMovesAt(owner, two, p)
    BY <1>1, <1>5, <1>8, Zenon DEF JettonMovesAt
  <1>. QED BY <1>5, <1>9, JettonMovesAre

\* What is told as final stays, and so does all of a reading with the whole tree.
LEMMA TransferStays ==
  ASSUME NEW one, NEW two, NEW owner, NEW gross, Keeps(one, two), Sane(two.txs),
         \A p \in DOMAIN one.txs : p \in Seq(Nat) /\ one.txs[p].outs \in Seq(Messages),
         <<>> \in DOMAIN one.txs => one.txs[<<>>].in.op # "internal_transfer",
         NEW t \in T!accountTransfersOf(owner, one, gross), t.final, ~t.shaped \/ Twins(one, two)
  PROVE  t \in T!accountTransfersOf(owner, two, gross)
  <1>1. CASE t \in T!Receipts(owner, one, gross)
    BY <1>1, ReceiptStays DEF T!accountTransfersOf
  <1>2. CASE t \in T!Sendings(owner, one)
    BY <1>2, SendingStays DEF T!accountTransfersOf
  <1>3. CASE t \in T!JettonMoves(owner, one)
    BY <1>3, JettonMoveStays DEF T!accountTransfersOf
  <1>. QED BY <1>1, <1>2, <1>3 DEF T!accountTransfersOf

LEMMA WholeIs ==
  ASSUME Tree
  PROVE  /\ T!Whole.complete /\ DOMAIN T!Whole.txs = DOMAIN chain
         /\ \A p \in DOMAIN chain : Shows(T!Whole.txs[p], chain[p]) /\ T!Whole.txs[p].seqno = chain[p].at
         /\ Sane(T!Whole.txs)
  <1> DEFINE seqno == [p \in DOMAIN chain |-> chain[p].at]
             txs == T!Given(DOMAIN chain, seqno)
  <1>1. T!Whole.complete /\ T!Whole.txs = txs
    BY DEF T!Whole
  <1>2. \A p \in DOMAIN chain : Shows(txs[p], chain[p]) /\ txs[p].seqno = seqno[p]
    BY GivenShows
  <1>3. DOMAIN txs = DOMAIN chain
    BY DEF T!Given
  <1>4. \A p \in DOMAIN chain : seqno[p] = chain[p].at
    OBVIOUS
  <1> HIDE DEF txs, seqno
  <1>5. Sane(txs)
    <2>1. DOMAIN txs \subseteq Seq(Nat) /\ T!Closed(DOMAIN txs)
      BY <1>3, TreeIsClosed DEF Tree
    <2>2. ASSUME NEW p \in DOMAIN txs
          PROVE  txs[p].outs \in Seq(Messages) /\ (p # <<>> => txs[p].in = txs[T!Parent(p)].outs[T!Last(p)])
      <3>1. txs[p].outs = chain[p].outs /\ txs[p].in = chain[p].in /\ chain[p].outs \in Seq(Messages)
        BY <1>2, <1>3 DEF Shows, Tree, Transactions
      <3>2. p # <<>> => T!Parent(p) \in DOMAIN chain /\ chain[p].in = chain[T!Parent(p)].outs[T!Last(p)]
        BY <1>3 DEF Tree, Grown, Hangs
      <3>3. p # <<>> => txs[T!Parent(p)].outs = chain[T!Parent(p)].outs
        BY <1>2, <3>2 DEF Shows
      <3>. QED BY <3>1, <3>2, <3>3
    <2>. QED BY <2>1, <2>2 DEF Sane
  <1>. QED BY <1>1, <1>2, <1>3, <1>4, <1>5

LEMMA ReplyReads ==
  ASSUME Tree, NEW trace, Reply(trace)
  PROVE  /\ Keeps(trace, T!Whole)
         /\ \A p \in DOMAIN trace.txs : p \in Seq(Nat) /\ trace.txs[p].outs \in Seq(Messages)
         /\ <<>> \in DOMAIN trace.txs => trace.txs[<<>>].in.op # "internal_transfer"
  <1>1. /\ DOMAIN trace.txs \subseteq DOMAIN chain
        /\ \A p \in DOMAIN trace.txs :
             Shows(trace.txs[p], chain[p]) /\ Numbered(trace.txs[p].seqno, chain[p].at)
    BY DEF Reply
  <1>2. DOMAIN T!Whole.txs = DOMAIN chain
        /\ \A p \in DOMAIN chain : Shows(T!Whole.txs[p], chain[p]) /\ T!Whole.txs[p].seqno = chain[p].at
    BY WholeIs
  <1>3. Keeps(trace, T!Whole)
    BY <1>1, <1>2 DEF Keeps, Alike, Shows, Numbered
  <1>4. \A p \in DOMAIN trace.txs : p \in Seq(Nat) /\ trace.txs[p].outs \in Seq(Messages)
    BY <1>1 DEF Shows, Tree, Transactions
  <1>5. T!External.op = "none"
    BY DEF T!External, T!Message
  <1>6. <<>> \in DOMAIN trace.txs => trace.txs[<<>>].in = T!External
    BY <1>1 DEF Shows, Tree, Grown, Rooted
  <1>. QED BY <1>3, <1>4, <1>5, <1>6

\* All that is told of a trace that ended, and is final, is final.
LEMMA AllIsFinal ==
  ASSUME NEW trace, T!Settled(trace), NEW owner, NEW gross,
         \A p \in DOMAIN trace.txs : p \in Seq(Nat) /\ trace.txs[p].outs \in Seq(Messages),
         NEW t \in T!accountTransfersOf(owner, trace, gross)
  PROVE  t.final
  <1>1. \A p \in DOMAIN trace.txs : \A shaped : T!IsFinal(trace, p, shaped)
    BY DEF T!Settled, T!IsFinal
  <1>2. CASE t \in T!Receipts(owner, trace, gross)
    <2>1. PICK p \in DOMAIN trace.txs : t = Receipt(trace, p, gross)
      BY <1>2, ReceiptsAre
    <2>. QED BY <1>1, <2>1, TransferFields DEF Receipt
  <1>3. CASE t \in T!Sendings(owner, trace)
    <2>1. PICK q \in SentPlaces(trace.txs, owner) : t = Sending(trace, q)
      BY <1>3, SendingsAre
    <2>2. T!Parent(q) \in DOMAIN trace.txs
      BY SentPlacesAre
    <2>. QED BY <1>1, <2>1, <2>2, TransferFields DEF Sending
  <1>4. CASE t \in T!JettonMoves(owner, trace)
    <2>1. PICK p \in T!getJettonTransfers(trace.txs) : t \in JettonMovesAt(owner, trace, p)
      <3> HIDE DEF JettonMovesAt
      <3>. QED BY <1>4, JettonMovesAre
    <2>2. T!IsFinal(trace, p, FALSE)
      BY <1>1 DEF T!getJettonTransfers, T!tonJettonCreditsOf
    <2>3. CASE t = T!Transfer("SEND", "jetton", 1, trace, p, 0, "bob", FALSE)
      BY <2>2, <2>3 DEF T!Transfer
    <2>4. CASE t = T!Transfer("RECEIVE", "jetton", 1, trace, p, 0, "wallet", FALSE)
      BY <2>2, <2>4 DEF T!Transfer
    <2>. QED BY <2>1, <2>3, <2>4 DEF JettonMovesAt
  <1>. QED BY <1>2, <1>3, <1>4 DEF T!accountTransfersOf

\* What was told as settled is all of the account's transfers.
LEMMA SettledIsAll ==
  ASSUME Tree, NEW trace, Reply(trace), T!Settled(trace), NEW owner, NEW gross
  PROVE  T!accountTransfersOf(owner, trace, gross) = T!accountTransfersOf(owner, T!Whole, gross)
  <1>1. DOMAIN trace.txs = DOMAIN chain /\ T!Committed = DOMAIN chain
    BY SettledReply
  <1>2. /\ T!Whole.complete /\ DOMAIN T!Whole.txs = DOMAIN chain
        /\ \A p \in DOMAIN chain : Shows(T!Whole.txs[p], chain[p]) /\ T!Whole.txs[p].seqno = chain[p].at
        /\ Sane(T!Whole.txs)
    BY WholeIs
  <1>3. /\ Keeps(trace, T!Whole)
        /\ \A p \in DOMAIN trace.txs : p \in Seq(Nat) /\ trace.txs[p].outs \in Seq(Messages)
        /\ <<>> \in DOMAIN trace.txs => trace.txs[<<>>].in.op # "internal_transfer"
    BY ReplyReads
  <1>4. \A p \in DOMAIN chain : Alike(trace.txs[p], T!Whole.txs[p]) /\ Alike(T!Whole.txs[p], trace.txs[p])
    <2>1. \A p \in DOMAIN chain : Shows(trace.txs[p], chain[p])
      BY <1>1 DEF Reply
    <2>. QED BY <1>2, <2>1 DEF Shows, Alike
  <1>5. Twins(trace, T!Whole) /\ Twins(T!Whole, trace) /\ trace.complete
    BY <1>1, <1>2, <1>4 DEF Twins, T!Settled
  <1>6. Keeps(T!Whole, trace)
    <2>1. \A p \in DOMAIN chain : trace.txs[p].seqno > 0
      BY <1>1 DEF T!Settled
    <2>. QED BY <1>1, <1>2, <1>4, <2>1 DEF Keeps, Alike
  <1>7. Sane(trace.txs)
    <2>1. \A p \in DOMAIN chain : trace.txs[p].outs = T!Whole.txs[p].outs /\ trace.txs[p].in = T!Whole.txs[p].in
      BY <1>4 DEF Alike
    <2>2. T!Closed(DOMAIN chain)
      BY TreeIsClosed
    <2>. QED BY <1>1, <1>2, <2>1, <2>2 DEF Sane, T!Closed
  <1>8. /\ \A p \in DOMAIN T!Whole.txs : p \in Seq(Nat) /\ T!Whole.txs[p].outs \in Seq(Messages)
        /\ <<>> \in DOMAIN T!Whole.txs => T!Whole.txs[<<>>].in.op # "internal_transfer"
    <2>1. \A p \in DOMAIN chain : T!Whole.txs[p].in = trace.txs[p].in
      BY <1>4 DEF Alike
    <2>. QED BY <1>1, <1>2, <1>3, <2>1 DEF Sane
  <1>9. T!Settled(T!Whole)
    BY <1>1, <1>2 DEF T!Settled, T!Committed
  <1>10. ASSUME NEW t \in T!accountTransfersOf(owner, trace, gross)
         PROVE  t \in T!accountTransfersOf(owner, T!Whole, gross)
    <2>1. t.final
      BY <1>3, AllIsFinal
    <2>. QED BY <1>2, <1>3, <1>5, <2>1, TransferStays
  <1>11. ASSUME NEW t \in T!accountTransfersOf(owner, T!Whole, gross)
         PROVE  t \in T!accountTransfersOf(owner, trace, gross)
    <2>1. t.final
      BY <1>8, <1>9, AllIsFinal
    <2>. QED BY <1>5, <1>6, <1>7, <1>8, <2>1, TransferStays
  <1>. QED BY <1>10, <1>11

\* A transfer that could be part of a jetton transfer is final in a complete trace only.
LEMMA ShapedIsComplete ==
  ASSUME NEW trace, NEW owner, NEW gross,
         \A p \in DOMAIN trace.txs : p \in Seq(Nat) /\ trace.txs[p].outs \in Seq(Messages),
         NEW t \in T!accountTransfersOf(owner, trace, gross), t.final, t.shaped
  PROVE  trace.complete
  <1>1. CASE t \in T!Receipts(owner, trace, gross)
    <2>1. PICK p \in DOMAIN trace.txs : t = Receipt(trace, p, gross)
      BY <1>1, ReceiptsAre
    <2> DEFINE shaped == Jettonish(trace.txs[p].in)
    <2>2. T!IsFinal(trace, p, shaped) /\ shaped
      BY <2>1, TransferFields DEF Receipt
    <2>. QED BY <2>2 DEF T!IsFinal
  <1>2. CASE t \in T!Sendings(owner, trace)
    <2>1. PICK q \in SentPlaces(trace.txs, owner) : t = Sending(trace, q)
      BY <1>2, SendingsAre
    <2> DEFINE shaped == Jettonish(MessageAt(trace.txs, q))
    <2>2. T!IsFinal(trace, T!Parent(q), shaped) /\ shaped
      BY <2>1, TransferFields DEF Sending
    <2>. QED BY <2>2 DEF T!IsFinal
  <1>3. CASE t \in T!JettonMoves(owner, trace)
    <2>1. PICK p \in T!getJettonTransfers(trace.txs) : t \in JettonMovesAt(owner, trace, p)
      <3> HIDE DEF JettonMovesAt
      <3>. QED BY <1>3, JettonMovesAre
    <2>2. CASE t = T!Transfer("SEND", "jetton", 1, trace, p, 0, "bob", FALSE)
      BY <2>2 DEF T!Transfer
    <2>3. CASE t = T!Transfer("RECEIVE", "jetton", 1, trace, p, 0, "wallet", FALSE)
      BY <2>3 DEF T!Transfer
    <2>. QED BY <2>1, <2>2, <2>3 DEF JettonMovesAt
  <1>. QED BY <1>1, <1>2, <1>3 DEF T!accountTransfersOf

\* A committed transaction stays as it is.
LEMMA CommittedStays ==
  ASSUME Tree, T!Next \/ UNCHANGED traceVars, NEW p \in DOMAIN chain, chain[p].at > 0
  PROVE  p \in DOMAIN chain' /\ chain'[p] = chain[p]
  <1>1. CASE UNCHANGED chain
    BY <1>1
  <1>2. CASE T!Start
    <2>1. DOMAIN chain = {}
      BY <1>2, StartIsExecute DEF T!NoChanges
    <2>. QED BY <2>1
  <1>3. CASE T!Take
    <2>1. PICK q \in T!Pending(chain) :
            \E ran \in T!Reactions(chain[T!Parent(q)].outs[T!Last(q)]) :
               T!Execute(q, chain[T!Parent(q)].outs[T!Last(q)], ran)
      BY <1>3 DEF T!Take
    <2>2. q \notin DOMAIN chain
      BY PendingHangs
    <2>. QED BY <2>1, <2>2 DEF T!Execute, T!With
  <1>4. CASE T!Block
    BY <1>4, BlockNumbers
  <1>5. CASE T!Replace
    <2>1. PICK q \in DOMAIN chain \ T!Committed : chain' = T!Without(chain, q)
      BY <1>5 DEF T!Replace
    <2>2. p # q
      BY <2>1 DEF T!Committed
    <2>. QED BY <2>1, <2>2 DEF T!Without
  <1>. QED BY <1>1, <1>2, <1>3, <1>4, <1>5
       DEF T!Next, T!Ask, T!GetAccountTransfers, T!ReadTrace, T!ReadHead, T!Emulate, traceVars

LEMMA WholeIsSane ==
  Tree => DOMAIN T!Whole.txs = DOMAIN chain
          /\ (\A p \in DOMAIN chain : Shows(T!Whole.txs[p], chain[p]) /\ T!Whole.txs[p].seqno = chain[p].at)
          /\ Sane(T!Whole.txs)
  BY WholeIs

\* What the whole tree holds in a block, it holds after a step.
LEMMA WholeKeeps ==
  ASSUME Tree, Tree', T!Next \/ UNCHANGED traceVars
  PROVE  Keeps(T!Whole, T!Whole')
  <1>1. DOMAIN T!Whole.txs = DOMAIN chain
        /\ \A p \in DOMAIN chain : Shows(T!Whole.txs[p], chain[p]) /\ T!Whole.txs[p].seqno = chain[p].at
    BY WholeIs
  <1>2. DOMAIN T!Whole'.txs = DOMAIN chain'
        /\ \A p \in DOMAIN chain' : Shows(T!Whole'.txs[p], chain'[p]) /\ T!Whole'.txs[p].seqno = chain'[p].at
    <2>1. (Tree => DOMAIN T!Whole.txs = DOMAIN chain
                   /\ (\A p \in DOMAIN chain : Shows(T!Whole.txs[p], chain[p]) /\ T!Whole.txs[p].seqno = chain[p].at)
                   /\ Sane(T!Whole.txs))'
      BY WholeIsSane, PTL
    <2>. QED BY <2>1
  <1>3. ASSUME NEW p \in DOMAIN chain, chain[p].at > 0
        PROVE  /\ p \in DOMAIN chain' /\ Alike(T!Whole.txs[p], T!Whole'.txs[p]) /\ T!Whole'.txs[p].seqno > 0
               /\ p # <<>> => /\ T!Parent(p) \in DOMAIN chain /\ T!Parent(p) \in DOMAIN chain'
                              /\ T!Whole.txs[T!Parent(p)].in = T!Whole'.txs[T!Parent(p)].in
    <2>1. p \in DOMAIN chain' /\ chain'[p] = chain[p]
      BY <1>3, CommittedStays
    <2>2. Alike(T!Whole.txs[p], T!Whole'.txs[p]) /\ T!Whole'.txs[p].seqno > 0
      BY <1>1, <1>2, <1>3, <2>1 DEF Alike, Shows
    <2>3. CASE p # <<>>
      <3>1. T!Parent(p) \in DOMAIN chain /\ chain[T!Parent(p)].at > 0
        BY <1>3, <2>3 DEF Tree, Grown, Hangs
      <3>2. T!Parent(p) \in DOMAIN chain' /\ chain'[T!Parent(p)] = chain[T!Parent(p)]
        BY <3>1, CommittedStays
      <3>3. T!Whole.txs[T!Parent(p)].in = chain[T!Parent(p)].in
        BY <1>1, <3>1 DEF Shows
      <3>4. T!Whole'.txs[T!Parent(p)].in = chain'[T!Parent(p)].in
        BY <1>2, <3>2 DEF Shows
      <3>. QED BY <2>1, <2>2, <3>1, <3>2, <3>3, <3>4
    <2>. QED BY <2>1, <2>2, <2>3
  <1>. QED BY <1>1, <1>2, <1>3 DEF Keeps

\* What was told as settled is all there is, and what was told as final of messages that no
\* jetton transfer can be made of is firm: the tree holds it in a block.
Firm ==
  answer.kind = "transfers" =>
    /\ answer.settled => /\ ~T!Running /\ T!Committed = DOMAIN chain
                         /\ answer.transfers = T!TransfersIn(T!Whole)
    /\ ~answer.settled => \A w \in T!Inquiries : \A t \in answer.transfers[w] :
         ~(t.shaped /\ answer.open) =>
           t.final /\ ~t.shaped /\ t \in T!accountTransfersOf(w[1], T!Whole, w[2])

LEMMA FirmWhenTold ==
  ASSUME Tree, Tree', NEW trace \in T!Traces, T!GetAccountTransfers(trace)
  PROVE  Firm'
  <1> DEFINE Final(w) == {t \in T!accountTransfersOf(w[1], trace, w[2]) : t.final}
  <1>1. answer' = [kind |-> "transfers", settled |-> T!Settled(trace),
                   open |-> \E p \in DOMAIN trace.txs : trace.txs[p].seqno = 0,
                   transfers |-> [w \in T!Inquiries |-> Final(w)]]
    BY DEF T!GetAccountTransfers
  <1>2. UNCHANGED chain
    BY DEF T!GetAccountTransfers
  <1>3. /\ answer'.settled = T!Settled(trace)
        /\ answer'.open = (\E p \in DOMAIN trace.txs : trace.txs[p].seqno = 0)
        /\ answer'.transfers = [w \in T!Inquiries |-> Final(w)]
    BY <1>1
  <1>4. Reply(trace)
    BY TracesAreReplies
  <1>5. T!Whole' = T!Whole
    BY <1>2 DEF T!Whole, T!Given, T!tonTransactionOutcome
  <1>6. T!Inquiries' = T!Inquiries /\ T!TransfersIn(T!Whole)' = T!TransfersIn(T!Whole)
    BY <1>5 DEF T!TransfersIn, T!Inquiries
  <1>7. /\ Keeps(trace, T!Whole)
        /\ \A p \in DOMAIN trace.txs : p \in Seq(Nat) /\ trace.txs[p].outs \in Seq(Messages)
        /\ <<>> \in DOMAIN trace.txs => trace.txs[<<>>].in.op # "internal_transfer"
    BY <1>4, ReplyReads
  <1>8. Sane(T!Whole.txs)
    BY WholeIs
  <1>9. ASSUME T!Settled(trace)
        PROVE  ~T!Running' /\ T!Committed' = DOMAIN chain' /\ answer'.transfers = T!TransfersIn(T!Whole)'
    <2>1. ~T!Running /\ T!Committed = DOMAIN chain
      BY <1>4, <1>9, SettledReply
    <2>2. ~T!Running' /\ T!Committed' = DOMAIN chain'
      BY <1>2, <2>1 DEF T!Running, T!Pending, T!Committed
    <2>3. ASSUME NEW w \in T!Inquiries
          PROVE  Final(w) = T!accountTransfersOf(w[1], T!Whole, w[2])
      <3>1. \A t \in T!accountTransfersOf(w[1], trace, w[2]) : t.final
        BY <1>7, <1>9, AllIsFinal
      <3>2. Final(w) = T!accountTransfersOf(w[1], trace, w[2])
        BY <3>1
      <3> HIDE DEF Final
      <3>. QED BY <1>4, <1>9, <3>2, SettledIsAll
    <2> HIDE DEF Final
    <2>4. [w \in T!Inquiries |-> Final(w)] = T!TransfersIn(T!Whole)
      BY <2>3 DEF T!TransfersIn
    <2>. QED BY <1>3, <1>6, <2>2, <2>4
  <1>10. ASSUME ~T!Settled(trace), NEW w \in T!Inquiries, NEW t \in Final(w), ~(t.shaped /\ answer'.open)
         PROVE  t.final /\ ~t.shaped /\ t \in T!accountTransfersOf(w[1], T!Whole, w[2])
    <2>1. t \in T!accountTransfersOf(w[1], trace, w[2]) /\ t.final
      OBVIOUS
    <2>2. ~t.shaped
      <3> SUFFICES ASSUME t.shaped PROVE FALSE
        OBVIOUS
      <3>1. \A p \in DOMAIN trace.txs : trace.txs[p].seqno # 0
        BY <1>3, <1>10
      <3>2. \A p \in DOMAIN trace.txs : trace.txs[p].seqno > 0
        BY <1>4, <3>1 DEF Reply, Numbered
      <3>3. trace.complete
        BY <1>7, <2>1, ShapedIsComplete
      <3>. QED BY <1>10, <3>2, <3>3 DEF T!Settled
    <2>3. t \in T!accountTransfersOf(w[1], T!Whole, w[2])
      BY <1>7, <1>8, <2>1, <2>2, TransferStays
    <2>. QED BY <2>1, <2>2, <2>3
  <1> HIDE DEF Final
  <1>11. \A w \in T!Inquiries : answer'.transfers[w] = Final(w)
    BY <1>3
  <1>. QED BY <1>3, <1>5, <1>6, <1>9, <1>10, <1>11 DEF Firm

LEMMA FirmStays ==
  ASSUME Tree, Tree', Firm, T!Next \/ UNCHANGED traceVars, UNCHANGED answer
  PROVE  Firm'
  <1> SUFFICES ASSUME answer.kind = "transfers" PROVE Firm'
    BY DEF Firm
  <1>1. CASE answer.settled
    <2>1. ~T!Running /\ T!Committed = DOMAIN chain /\ answer.transfers = T!TransfersIn(T!Whole)
      BY <1>1 DEF Firm
    <2>2. UNCHANGED chain /\ ~T!Running' /\ T!Committed' = DOMAIN chain'
      BY <2>1, EndedIsFrozen
    <2>3. T!TransfersIn(T!Whole)' = T!TransfersIn(T!Whole)
      <3>1. T!Whole' = T!Whole
        BY <2>2 DEF T!Whole, T!Given, T!tonTransactionOutcome
      <3>. QED BY <3>1 DEF T!TransfersIn, T!Inquiries
    <2>. QED BY <1>1, <2>1, <2>2, <2>3 DEF Firm
  <1>2. CASE ~answer.settled
    <2>1. Keeps(T!Whole, T!Whole')
      BY WholeKeeps
    <2>2. Sane(T!Whole.txs) /\ DOMAIN T!Whole.txs = DOMAIN chain
          /\ \A p \in DOMAIN chain : Shows(T!Whole.txs[p], chain[p])
      BY WholeIs
    <2>3. Sane(T!Whole.txs)'
      <3>1. (Tree => DOMAIN T!Whole.txs = DOMAIN chain
                     /\ (\A p \in DOMAIN chain : Shows(T!Whole.txs[p], chain[p]) /\ T!Whole.txs[p].seqno = chain[p].at)
                     /\ Sane(T!Whole.txs))'
        BY WholeIsSane, PTL
      <3>. QED BY <3>1
    <2>4. /\ \A p \in DOMAIN T!Whole.txs : p \in Seq(Nat) /\ T!Whole.txs[p].outs \in Seq(Messages)
          /\ <<>> \in DOMAIN T!Whole.txs => T!Whole.txs[<<>>].in.op # "internal_transfer"
      <3>1. T!External.op = "none"
        BY DEF T!External, T!Message
      <3>2. <<>> \in DOMAIN chain => T!Whole.txs[<<>>].in = T!External
        BY <2>2 DEF Shows, Tree, Grown, Rooted
      <3>. QED BY <2>2, <3>1, <3>2 DEF Sane
    <2>5. ASSUME NEW w \in T!Inquiries, NEW t \in answer.transfers[w], ~(t.shaped /\ answer.open)
          PROVE  t.final /\ ~t.shaped /\ t \in T!accountTransfersOf(w[1], T!Whole', w[2])
      <3>1. t.final /\ ~t.shaped /\ t \in T!accountTransfersOf(w[1], T!Whole, w[2])
        BY <1>2, <2>5 DEF Firm
      <3>. QED BY <2>1, <2>3, <2>4, <3>1, TransferStays
    <2>6. T!Inquiries' = T!Inquiries
      BY DEF T!Inquiries
    <2>. QED BY <1>2, <2>5, <2>6 DEF Firm
  <1>. QED BY <1>1, <1>2

LEMMA TraceStep ==
  ASSUME [MCNext]_<<scene, vars, traceVars>>
  PROVE  T!Next \/ UNCHANGED traceVars
  BY DEF MCNext, Play

LEMMA FirmNext ==
  ASSUME Tree, Tree', Firm, T!Next \/ UNCHANGED traceVars
  PROVE  Firm'
  <1>1. CASE UNCHANGED answer
    BY <1>1, FirmStays
  <1>2. CASE \E trace \in T!Traces : T!GetAccountTransfers(trace)
    BY <1>2, FirmWhenTold
  <1>3. CASE T!ReadHead
    <2>1. PICK tip \in 0..head, minDepth \in MinDepths :
            LET depth == T!Max({tip - T!SeqnoOf(read), 0})
            IN  answer' = IF depth < minDepth THEN T!Unasked ELSE T!fromTrace(read, depth)
      BY <1>3 DEF T!ReadHead
    <2>2. answer'.kind # "transfers"
      BY <2>1 DEF T!Unasked, T!fromTrace
    <2>. QED BY <2>2 DEF Firm
  <1>4. CASE T!Emulate
    <2>1. PICK trace : answer' = [T!fromTrace(trace, 0) EXCEPT !.kind = "emulation"]
      BY <1>4 DEF T!Emulate
    <2>2. answer'.kind = "emulation"
      BY <2>1 DEF T!fromTrace
    <2>. QED BY <2>2 DEF Firm
  <1>. QED BY <1>1, <1>2, <1>3, <1>4
       DEF T!Next, T!Start, T!Take, T!Execute, T!Block, T!Replace, T!Ask, T!ReadTrace, traceVars

\* A transfer told as final is among the account's transfers once the trace ended and is
\* committed, and those told as settled are all of them, whichever provider answered, from
\* however far behind, with whatever left out: but for a message shaped like a jetton
\* transfer's in a trace that was not yet final.
THEOREM TransfersAreKept == MCSpec => []FinalTransfersStay
  <1>1. MCInit => Tree /\ Firm
    <2>1. SUFFICES ASSUME MCInit PROVE Tree /\ Firm
      OBVIOUS
    <2>2. Tree
      BY <2>1, TreeAtFirst DEF MCInit
    <2>3. answer.kind = "unasked"
      BY <2>1 DEF MCInit, T!Init, T!Unasked
    <2>. QED BY <2>2, <2>3 DEF Firm
  <1>2. Tree /\ Firm /\ [MCNext]_<<scene, vars, traceVars>> => (Tree /\ Firm)'
    <2> SUFFICES ASSUME Tree, Firm, [MCNext]_<<scene, vars, traceVars>> PROVE (Tree /\ Firm)'
      OBVIOUS
    <2>1. T!Next \/ UNCHANGED traceVars
      BY TraceStep
    <2>2. Tree'
      BY <2>1, TreeStays
    <2>. QED BY <2>1, <2>2, FirmNext
  <1>3. Tree /\ Firm => FinalTransfersStay
    <2> SUFFICES ASSUME Firm, answer.kind = "transfers", T!Ended
                 PROVE  /\ \A w \in T!Inquiries :
                              {t \in answer.transfers[w] : ~(t.shaped /\ answer.open)}
                                \subseteq T!accountTransfersOf(w[1], T!Whole, w[2])
                        /\ answer.settled => answer.transfers = T!TransfersIn(T!Whole)
      BY DEF FinalTransfersStay, T!FinalTransfersStay
    <2>1. \A w \in T!Inquiries : T!TransfersIn(T!Whole)[w] = T!accountTransfersOf(w[1], T!Whole, w[2])
      BY DEF T!TransfersIn
    <2>. QED BY <2>1 DEF Firm
  <1>. QED BY <1>1, <1>2, <1>3, PTL DEF MCSpec

-----------------------------------------------------------------------------
(* What the accounts gained is what the transactions moved.                *)

Folded(f) == T!FoldFunction(+, 0, f)

LEMMA FoldIsSum == \A f : Folded(f) = Sum(f, DOMAIN f)
  BY DEF Folded, Sum, T!FoldFunction, T!FoldFunctionOnSet, T!MapThenFoldSet, MapThenSumSet, MapThenFoldSet

LEMMA PlacesOfSeq ==
  ASSUME NEW s \in Seq(Messages)
  PROVE  IsFiniteSet(DOMAIN s) /\ \A i \in DOMAIN s : s[i] \in Messages /\ i \in Nat
  <1>1. Len(s) \in Nat /\ DOMAIN s = 1..Len(s)
    BY LenProperties
  <1>. QED BY <1>1, ElementOfSeq, PlacesAreFinite

Outgoing(outs) == [i \in DOMAIN outs |-> outs[i].value + outs[i].fwd]

LEMMA SentByIsInteger ==
  ASSUME NEW outs \in Seq(Messages)
  PROVE  T!SentBy(outs) = Sum(Outgoing(outs), DOMAIN outs) /\ T!SentBy(outs) \in Int
  <1>1. T!SentBy(outs) = Folded(Outgoing(outs))
    BY Zenon DEF T!SentBy, Outgoing, Folded
  <1>2. DOMAIN Outgoing(outs) = DOMAIN outs
    BY DEF Outgoing
  <1>3. T!SentBy(outs) = Sum(Outgoing(outs), DOMAIN outs)
    BY <1>1, <1>2, FoldIsSum
  <1>4. IsFiniteSet(DOMAIN outs) /\ \A i \in DOMAIN outs : Outgoing(outs)[i] \in Int
    <2>1. IsFiniteSet(DOMAIN outs) /\ \A i \in DOMAIN outs : outs[i] \in Messages
      BY PlacesOfSeq
    <2>2. \A m \in Messages : m.value + m.fwd \in Int
      BY DEF Messages
    <2>3. \A i \in DOMAIN outs : Outgoing(outs)[i] = outs[i].value + outs[i].fwd
      BY DEF Outgoing
    <2>. QED BY <2>1, <2>2, <2>3
  <1>. QED BY <1>3, <1>4, SumIsInteger

LEMMA MovedIsInteger ==
  ASSUME NEW tx \in Transactions
  PROVE  T!Moved(tx) \in [T!Accounts -> Int] /\ T!Credited(tx) \in [{"wallet", "bob"} -> Int]
  <1>1. T!SentBy(tx.outs) \in Int /\ tx.in.value \in Int
    BY SentByIsInteger DEF Transactions, Messages
  <1> DEFINE n == (IF tx.place = <<>> THEN 0 ELSE tx.in.value) - T!Fee - T!SentBy(tx.outs)
  <1>2. n \in Int
    <2> DEFINE s == T!SentBy(tx.outs)
               v == tx.in.value
    <2>1. s \in Int /\ v \in Int
      BY <1>1
    <2> HIDE DEF s, v
    <2>2. (IF tx.place = <<>> THEN 0 ELSE v) - 1 - s \in Int
      BY <2>1
    <2>. QED BY <2>2 DEF T!Fee, s, v
  <1>3. T!Moved(tx) = [a \in T!Accounts |-> IF a = tx.account THEN n ELSE 0]
    BY DEF T!Moved
  <1> HIDE DEF n
  <1>4. T!Moved(tx) \in [T!Accounts -> Int]
    BY <1>2, <1>3
  <1>5. T!Credited(tx) \in [{"wallet", "bob"} -> Int]
    BY DEF T!Credited
  <1>. QED BY <1>4, <1>5

LEMMA MovedAlike ==
  ASSUME NEW tx, NEW other, tx.place = other.place, Alike(tx, other)
  PROVE  T!Moved(tx) = T!Moved(other) /\ T!Credited(tx) = T!Credited(other)
  <1>1. tx.account = other.account /\ tx.in = other.in /\ tx.aborted = other.aborted /\ tx.outs = other.outs
    BY DEF Alike
  <1>2. T!Moved(tx) = T!Moved(other)
    BY <1>1 DEF T!Moved
  <1>3. T!Credited(tx) = T!Credited(other)
    BY <1>1 DEF T!Credited
  <1>. QED BY <1>2, <1>3

MovedOf(a) == [p \in DOMAIN chain |-> T!Moved(chain[p])[a]]
CreditedOf(a) == [p \in DOMAIN chain |-> T!Credited(chain[p])[a]]

Gains ==
  /\ coins \in [T!Accounts -> Int] /\ jettons \in [{"wallet", "bob"} -> Int]
  /\ \A a \in T!Accounts : coins[a] = Sum(MovedOf(a), DOMAIN chain)
  /\ \A a \in {"wallet", "bob"} : jettons[a] = Sum(CreditedOf(a), DOMAIN chain)

LEMMA PlusMinus ==
  ASSUME NEW A, NEW f \in [A -> Int], NEW g \in [A -> Int]
  PROVE  /\ T!Plus(f, g) \in [A -> Int] /\ T!Minus(f, g) \in [A -> Int]
         /\ \A a \in A : T!Plus(f, g)[a] = f[a] + g[a] /\ T!Minus(f, g)[a] = f[a] - g[a]
  BY DEF T!Plus, T!Minus

\* A sum over the tree before and after one more transaction.
LEMMA SumGrows ==
  ASSUME NEW f, NEW g, NEW S, IsFiniteSet(S), NEW p, p \notin S,
         \A q \in S : f[q] \in Int /\ g[q] = f[q], g[p] \in Int
  PROVE  Sum(g, S \cup {p}) = Sum(f, S) + g[p]
  <1>1. IsFiniteSet(S \cup {p}) /\ \A q \in S \cup {p} : g[q] \in Int
    BY FS_AddElement
  <1> DEFINE R == S \cup {p}
  <1>2. p \in R /\ R \ {p} = S
    OBVIOUS
  <1> HIDE DEF R
  <1>3. Sum(g, R) = g[p] + Sum(g, S)
    <2>1. IsFiniteSet(R) /\ \A q \in R : g[q] \in Int
      BY <1>1 DEF R
    <2>2. Sum(g, R) = g[p] + Sum(g, R \ {p})
      BY <1>2, <2>1, SumTakes
    <2>. QED BY <1>2, <2>2
  <1>4. Sum(g, S) = Sum(f, S)
    BY SumsAgree
  <1>5. Sum(f, S) \in Int
    BY SumIsInteger
  <1>. QED BY <1>3, <1>4, <1>5 DEF R

LEMMA GainParts ==
  ASSUME Tree
  PROVE  /\ \A p \in DOMAIN chain : /\ T!Moved(chain[p]) \in [T!Accounts -> Int]
                                    /\ T!Credited(chain[p]) \in [{"wallet", "bob"} -> Int]
         /\ \A a \in T!Accounts : \A p \in DOMAIN chain :
              MovedOf(a)[p] = T!Moved(chain[p])[a] /\ MovedOf(a)[p] \in Int
         /\ \A a \in {"wallet", "bob"} : \A p \in DOMAIN chain :
              CreditedOf(a)[p] = T!Credited(chain[p])[a] /\ CreditedOf(a)[p] \in Int
  <1>1. \A p \in DOMAIN chain : /\ T!Moved(chain[p]) \in [T!Accounts -> Int]
                                /\ T!Credited(chain[p]) \in [{"wallet", "bob"} -> Int]
    BY MovedIsInteger DEF Tree
  <1>. QED BY <1>1 DEF MovedOf, CreditedOf

LEMMA ExecuteGains ==
  ASSUME Tree, Gains, NEW p \in Seq(Nat), NEW in \in Messages, NEW ran \in PhasesType,
         p \notin DOMAIN chain, T!Execute(p, in, ran)
  PROVE  Gains'
  <1> DEFINE tx == T!Transaction(p, in, ran)
  <1>1. tx \in Transactions
    BY TransactionIsOne
  <1> HIDE DEF tx
  <1>2. /\ DOMAIN chain' = DOMAIN chain \cup {p} /\ chain'[p] = tx
        /\ \A q \in DOMAIN chain : chain'[q] = chain[q]
    BY DEF T!Execute, T!With, tx
  <1>3. T!Moved(tx) \in [T!Accounts -> Int] /\ T!Credited(tx) \in [{"wallet", "bob"} -> Int]
    BY <1>1, MovedIsInteger
  <1>4. coins' = T!Plus(coins, T!Moved(tx)) /\ jettons' = T!Plus(jettons, T!Credited(tx))
    BY <1>2 DEF T!Execute
  <1>5. /\ coins' \in [T!Accounts -> Int] /\ \A a \in T!Accounts : coins'[a] = coins[a] + T!Moved(tx)[a]
        /\ jettons' \in [{"wallet", "bob"} -> Int]
        /\ \A a \in {"wallet", "bob"} : jettons'[a] = jettons[a] + T!Credited(tx)[a]
    <2>1. coins \in [T!Accounts -> Int] /\ jettons \in [{"wallet", "bob"} -> Int]
      BY DEF Gains
    <2> DEFINE m == T!Moved(tx)
               c == T!Credited(tx)
    <2>2. m \in [T!Accounts -> Int] /\ c \in [{"wallet", "bob"} -> Int]
      BY <1>3
    <2> HIDE DEF m, c
    <2>3. T!Plus(coins, m) \in [T!Accounts -> Int] /\ \A a \in T!Accounts : T!Plus(coins, m)[a] = coins[a] + m[a]
      BY <2>1, <2>2 DEF T!Plus
    <2>4. /\ T!Plus(jettons, c) \in [{"wallet", "bob"} -> Int]
          /\ \A a \in {"wallet", "bob"} : T!Plus(jettons, c)[a] = jettons[a] + c[a]
      BY <2>1, <2>2 DEF T!Plus
    <2>. QED BY <1>4, <2>3, <2>4 DEF m, c
  <1>6. IsFiniteSet(DOMAIN chain)
    BY DEF Tree
  <1>7. ASSUME NEW a \in T!Accounts PROVE coins'[a] = Sum(MovedOf(a)', DOMAIN chain')
    <2> DEFINE f == MovedOf(a)
               g == [q \in DOMAIN chain' |-> T!Moved(chain'[q])[a]]
    <2>1. \A q \in DOMAIN chain : f[q] \in Int /\ f[q] = T!Moved(chain[q])[a]
      BY GainParts
    <2>2. g[p] = T!Moved(tx)[a] /\ g[p] \in Int /\ \A q \in DOMAIN chain : g[q] = T!Moved(chain[q])[a]
      BY <1>2, <1>3
    <2>3. MovedOf(a)' = g /\ coins[a] = Sum(f, DOMAIN chain)
      BY DEF MovedOf, Gains
    <2> HIDE DEF f, g
    <2>4. Sum(g, DOMAIN chain \cup {p}) = Sum(f, DOMAIN chain) + g[p]
      BY <1>6, <2>1, <2>2, SumGrows
    <2>. QED BY <1>2, <1>5, <2>2, <2>3, <2>4
  <1>8. ASSUME NEW a \in {"wallet", "bob"} PROVE jettons'[a] = Sum(CreditedOf(a)', DOMAIN chain')
    <2> DEFINE f == CreditedOf(a)
               g == [q \in DOMAIN chain' |-> T!Credited(chain'[q])[a]]
    <2>1. \A q \in DOMAIN chain : f[q] \in Int /\ f[q] = T!Credited(chain[q])[a]
      BY GainParts
    <2>2. g[p] = T!Credited(tx)[a] /\ g[p] \in Int /\ \A q \in DOMAIN chain : g[q] = T!Credited(chain[q])[a]
      BY <1>2, <1>3
    <2>3. CreditedOf(a)' = g /\ jettons[a] = Sum(f, DOMAIN chain)
      BY DEF CreditedOf, Gains
    <2> HIDE DEF f, g
    <2>4. Sum(g, DOMAIN chain \cup {p}) = Sum(f, DOMAIN chain) + g[p]
      BY <1>6, <2>1, <2>2, SumGrows
    <2>. QED BY <1>2, <1>5, <2>2, <2>3, <2>4
  <1>. QED BY <1>5, <1>7, <1>8 DEF Gains

LEMMA BlockGains ==
  ASSUME Tree, Gains, T!Block
  PROVE  Gains'
  <1>1. /\ DOMAIN chain' = DOMAIN chain
        /\ \A p \in DOMAIN chain : chain'[p].place = chain[p].place /\ Alike(chain'[p], chain[p])
    BY BlockNumbers DEF Alike
  <1>2. \A p \in DOMAIN chain : T!Moved(chain'[p]) = T!Moved(chain[p]) /\ T!Credited(chain'[p]) = T!Credited(chain[p])
    BY <1>1, MovedAlike
  <1>3. \A a : MovedOf(a)' = MovedOf(a) /\ CreditedOf(a)' = CreditedOf(a)
    BY <1>1, <1>2 DEF MovedOf, CreditedOf
  <1>4. UNCHANGED <<coins, jettons>>
    BY DEF T!Block
  <1>. QED BY <1>1, <1>3, <1>4 DEF Gains

LEMMA ReplaceGains ==
  ASSUME Tree, Gains, T!Replace
  PROVE  Gains'
  <1>1. PICK p \in DOMAIN chain : /\ chain' = T!Without(chain, p)
                                  /\ coins' = T!Minus(coins, T!Moved(chain[p]))
                                  /\ jettons' = T!Minus(jettons, T!Credited(chain[p]))
    BY DEF T!Replace
  <1>2. /\ DOMAIN chain' = DOMAIN chain \ {p} /\ \A q \in DOMAIN chain' : chain'[q] = chain[q]
    BY <1>1 DEF T!Without
  <1>3. T!Moved(chain[p]) \in [T!Accounts -> Int] /\ T!Credited(chain[p]) \in [{"wallet", "bob"} -> Int]
    BY GainParts
  <1>4. /\ coins' \in [T!Accounts -> Int] /\ \A a \in T!Accounts : coins'[a] = coins[a] - T!Moved(chain[p])[a]
        /\ jettons' \in [{"wallet", "bob"} -> Int]
        /\ \A a \in {"wallet", "bob"} : jettons'[a] = jettons[a] - T!Credited(chain[p])[a]
    BY <1>1, <1>3, PlusMinus DEF Gains
  <1>5. IsFiniteSet(DOMAIN chain) /\ IsFiniteSet(DOMAIN chain \ {p})
    BY FS_Subset DEF Tree
  <1>6. ASSUME NEW a \in T!Accounts PROVE coins'[a] = Sum(MovedOf(a)', DOMAIN chain')
    <2> DEFINE f == MovedOf(a)
               g == [q \in DOMAIN chain' |-> T!Moved(chain'[q])[a]]
               D == DOMAIN chain \ {p}
    <2>1. \A q \in DOMAIN chain : f[q] \in Int /\ f[q] = T!Moved(chain[q])[a]
      BY GainParts
    <2>2. \A q \in D : g[q] = f[q]
      BY <1>2, <2>1
    <2>3. MovedOf(a)' = g /\ coins[a] = Sum(f, DOMAIN chain)
      BY DEF MovedOf, Gains
    <2> HIDE DEF f, g
    <2>4. Sum(f, DOMAIN chain) = f[p] + Sum(f, D)
      BY <1>5, <2>1, SumTakes
    <2>5. Sum(g, D) = Sum(f, D) /\ Sum(f, D) \in Int
      BY <1>5, <2>1, <2>2, SumsAgree, SumIsInteger
    <2>6. f[p] = T!Moved(chain[p])[a] /\ f[p] \in Int
      BY <2>1
    <2> HIDE DEF D
    <2>. QED BY <1>2, <1>4, <2>3, <2>4, <2>5, <2>6 DEF D
  <1>7. ASSUME NEW a \in {"wallet", "bob"} PROVE jettons'[a] = Sum(CreditedOf(a)', DOMAIN chain')
    <2> DEFINE f == CreditedOf(a)
               g == [q \in DOMAIN chain' |-> T!Credited(chain'[q])[a]]
               D == DOMAIN chain \ {p}
    <2>1. \A q \in DOMAIN chain : f[q] \in Int /\ f[q] = T!Credited(chain[q])[a]
      BY GainParts
    <2>2. \A q \in D : g[q] = f[q]
      BY <1>2, <2>1
    <2>3. CreditedOf(a)' = g /\ jettons[a] = Sum(f, DOMAIN chain)
      BY DEF CreditedOf, Gains
    <2> HIDE DEF f, g
    <2>4. Sum(f, DOMAIN chain) = f[p] + Sum(f, D)
      BY <1>5, <2>1, SumTakes
    <2>5. Sum(g, D) = Sum(f, D) /\ Sum(f, D) \in Int
      BY <1>5, <2>1, <2>2, SumsAgree, SumIsInteger
    <2>6. f[p] = T!Credited(chain[p])[a] /\ f[p] \in Int
      BY <2>1
    <2> HIDE DEF D
    <2>. QED BY <1>2, <1>4, <2>3, <2>4, <2>5, <2>6 DEF D
  <1>. QED BY <1>4, <1>6, <1>7 DEF Gains

LEMMA GainsAtFirst ==
  ASSUME T!Init
  PROVE  Gains
  <1>1. DOMAIN chain = {} /\ coins = [a \in T!Accounts |-> 0] /\ jettons = [a \in {"wallet", "bob"} |-> 0]
    BY DEF T!Init, T!NoChanges
  <1>2. \A f : Sum(f, DOMAIN chain) = 0
    BY <1>1, SumOfNothing
  <1>. QED BY <1>1, <1>2 DEF Gains

LEMMA GainsStay ==
  ASSUME Tree, Gains, T!Next \/ UNCHANGED traceVars
  PROVE  Gains'
  <1>1. CASE UNCHANGED <<chain, coins, jettons>>
    BY <1>1 DEF Gains, MovedOf, CreditedOf
  <1>2. CASE T!Start
    <2>1. PICK r \in T!SignedRequests : \E ran \in RootRuns(r) : T!Execute(<<>>, T!External, ran)
      BY <1>2, StartIsExecute
    <2>2. PICK ran \in RootRuns(r) : T!Execute(<<>>, T!External, ran)
      BY <2>1
    <2>3. ran \in PhasesType
      BY RootReacts
    <2>4. T!External \in Messages
      BY DEF T!External, T!Message, Messages, T!Accounts
    <2>5. <<>> \in Seq(Nat) /\ <<>> \notin DOMAIN chain
      BY <1>2, StartIsExecute DEF T!NoChanges
    <2>. QED BY <2>2, <2>3, <2>4, <2>5, ExecuteGains
  <1>3. CASE T!Take
    <2>1. PICK p \in T!Pending(chain) :
            \E ran \in T!Reactions(chain[T!Parent(p)].outs[T!Last(p)]) :
               T!Execute(p, chain[T!Parent(p)].outs[T!Last(p)], ran)
      BY <1>3 DEF T!Take
    <2> DEFINE m == chain[T!Parent(p)].outs[T!Last(p)]
    <2>2. PICK ran \in T!Reactions(m) : T!Execute(p, m, ran)
      BY <2>1
    <2>3. p \in Seq(Nat) /\ p \notin DOMAIN chain /\ m \in Messages /\ Routed(m)
      BY PendingHangs
    <2> HIDE DEF m
    <2>4. ran \in PhasesType
      BY <2>2, <2>3, ReactionsReact
    <2>. QED BY <2>2, <2>3, <2>4, ExecuteGains
  <1>4. CASE T!Block
    BY <1>4, BlockGains
  <1>5. CASE T!Replace
    BY <1>5, ReplaceGains
  <1>. QED BY <1>1, <1>2, <1>3, <1>4, <1>5
       DEF T!Next, T!Ask, T!GetAccountTransfers, T!ReadTrace, T!ReadHead, T!Emulate, traceVars

-----------------------------------------------------------------------------
(* What came in is what was sent, and the rest are fees.                   *)

Values(outs) == [i \in DOMAIN outs |-> outs[i].value]
Forwards(outs) == [i \in DOMAIN outs |-> outs[i].fwd]

InValue == [p \in DOMAIN chain |-> IF p = <<>> THEN 0 ELSE chain[p].in.value]
OutValue == [p \in DOMAIN chain |-> Sum(Values(chain[p].outs), DOMAIN chain[p].outs)]
Costs == [p \in DOMAIN chain |-> T!Fee + Sum(Forwards(chain[p].outs), DOMAIN chain[p].outs)]
Spent == [p \in DOMAIN chain |-> T!Fee + T!SentBy(chain[p].outs)]
Net == [p \in DOMAIN chain |-> InValue[p] - Spent[p]]

\* What a transaction spends is its messages' value, its fee and theirs.
LEMMA SpentIs ==
  ASSUME NEW outs \in Seq(Messages)
  PROVE  LET v == Sum(Values(outs), DOMAIN outs)
             w == Sum(Forwards(outs), DOMAIN outs)
         IN  v \in Int /\ w \in Int /\ T!SentBy(outs) \in Int /\ v = T!SentBy(outs) - w
  <1>1. IsFiniteSet(DOMAIN outs) /\ \A i \in DOMAIN outs : outs[i].value \in Int /\ outs[i].fwd \in Int
    <2>1. IsFiniteSet(DOMAIN outs) /\ \A i \in DOMAIN outs : outs[i] \in Messages
      BY PlacesOfSeq
    <2>2. \A m \in Messages : m.value \in Int /\ m.fwd \in Int
      BY DEF Messages
    <2>. QED BY <2>1, <2>2
  <1> DEFINE D == DOMAIN outs
             V == Values(outs)
             W == Forwards(outs)
             S == Outgoing(outs)
  <1>2. \A i \in D : S[i] \in Int /\ W[i] \in Int /\ V[i] = S[i] - W[i] /\ V[i] \in Int
    <2>1. \A i \in D : S[i] = outs[i].value + outs[i].fwd /\ W[i] = outs[i].fwd /\ V[i] = outs[i].value
      BY DEF Outgoing, Values, Forwards
    <2> HIDE DEF D, S, W, V
    <2>. QED BY <1>1, <2>1 DEF D
  <1>3. T!SentBy(outs) = Sum(S, D)
    BY SentByIsInteger
  <1>4. IsFiniteSet(D)
    BY <1>1
  <1> HIDE DEF D, S, W, V
  <1>5. Sum(V, D) = Sum(S, D) - Sum(W, D) /\ Sum(V, D) \in Int /\ Sum(W, D) \in Int /\ Sum(S, D) \in Int
    BY <1>2, <1>4, SumOfDifferences, SumIsInteger
  <1>. QED BY <1>3, <1>5 DEF D, S, W, V

LEMMA TermsAreIntegers ==
  ASSUME Tree
  PROVE  /\ IsFiniteSet(DOMAIN chain)
         /\ \A p \in DOMAIN chain :
              /\ chain[p].outs \in Seq(Messages)
              /\ InValue[p] \in Int /\ OutValue[p] \in Int /\ Costs[p] \in Int /\ Spent[p] \in Int
              /\ Net[p] = InValue[p] - Spent[p] /\ Net[p] \in Int
              /\ OutValue[p] = Spent[p] - Costs[p]
  <1>1. IsFiniteSet(DOMAIN chain)
    BY DEF Tree
  <1>2. ASSUME NEW p \in DOMAIN chain
        PROVE  /\ chain[p].outs \in Seq(Messages)
               /\ InValue[p] \in Int /\ OutValue[p] \in Int /\ Costs[p] \in Int /\ Spent[p] \in Int
               /\ Net[p] = InValue[p] - Spent[p] /\ Net[p] \in Int
               /\ OutValue[p] = Spent[p] - Costs[p]
    <2>1. chain[p].outs \in Seq(Messages) /\ chain[p].in.value \in Int
      BY DEF Tree, Transactions, Messages
    <2> DEFINE outs == chain[p].outs
               v == Sum(Values(outs), DOMAIN outs)
               w == Sum(Forwards(outs), DOMAIN outs)
               s == T!SentBy(outs)
    <2>2. v \in Int /\ w \in Int /\ s \in Int /\ v = s - w
      BY <2>1, SpentIs
    <2>3. InValue[p] = IF p = <<>> THEN 0 ELSE chain[p].in.value
      BY DEF InValue
    <2>4. OutValue[p] = v /\ Costs[p] = 1 + w /\ Spent[p] = 1 + s
      BY DEF OutValue, Costs, Spent, T!Fee
    <2>5. Net[p] = InValue[p] - Spent[p]
      BY DEF Net
    <2> HIDE DEF v, w, s
    <2>. QED BY <2>1, <2>2, <2>3, <2>4, <2>5
  <1>. QED BY <1>1, <1>2

\* Once nothing is on its way, each message that was sent came in.
LEMMA ValuesMeet ==
  ASSUME Tree, T!Pending(chain) = {}
  PROVE  Sum(InValue, DOMAIN chain) = Sum(OutValue, DOMAIN chain)
  <1> DEFINE D == DOMAIN chain
             E == D \ {<<>>}
             parent == [q \in E |-> T!Parent(q)]
             By == [p \in D |-> Sum(InValue, {q \in E : parent[q] = p})]
  <1>1. IsFiniteSet(D) /\ IsFiniteSet(E) /\ E \in SUBSET D
    BY TermsAreIntegers, FS_Subset
  <1>2. \A q \in E : parent[q] \in D /\ parent[q] = T!Parent(q)
    BY DEF Tree, Grown, Hangs
  <1>3. Sum(InValue, E) = Sum(InValue, D)
    <2>1. \A q \in D : InValue[q] \in Int
      BY TermsAreIntegers
    <2>2. \A q \in D \ E : InValue[q] = 0
      BY DEF InValue
    <2> HIDE DEF D, E
    <2>. QED BY <1>1, <2>1, <2>2, SumWithoutZeros
  <1>4. Sum(By, D) = Sum(InValue, E)
    <2>1. \A q \in E : InValue[q] \in Int
      BY TermsAreIntegers
    <2>2. \A q \in E : parent[q] \in D
      BY <1>2
    <2> HIDE DEF D, E, parent
    <2>. QED BY <1>1, <2>1, <2>2, SumByClass
  <1>5. ASSUME NEW p \in D PROVE By[p] = OutValue[p]
    <2> DEFINE outs == chain[p].outs
               S == DOMAIN outs
               C == {q \in E : parent[q] = p}
               f == Values(outs)
               b == [i \in S |-> Append(p, i)]
    <2>1. outs \in Seq(Messages) /\ p \in Seq(Nat)
      BY TermsAreIntegers DEF Tree
    <2>2. IsFiniteSet(S) /\ \A i \in S : i \in Nat /\ outs[i] \in Messages
      BY <2>1, PlacesOfSeq
    <2>3. ASSUME NEW i \in S
          PROVE  /\ b[i] \in C /\ b[i] = Append(p, i) /\ T!Last(b[i]) = i
                 /\ InValue[b[i]] = f[i] /\ f[i] \in Int
      <3> DEFINE q == Append(p, i)
      <3>1. q \in Seq(Nat) /\ q # <<>> /\ T!Front(q) = p /\ T!Last(q) = i
        BY <2>1, <2>2, PlaceOfMessage
      <3>2. q \in D
        <4>1. q \in D \/ q \in T!Pending(chain)
          BY DEF T!Pending
        <4>. QED BY <4>1
      <3>3. b[i] = q
        OBVIOUS
      <3> HIDE DEF q
      <3>4. q \in E /\ parent[q] = p
        BY <3>1, <3>2 DEF T!Parent
      <3>5. chain[q].in = outs[i]
        BY <3>1, <3>2 DEF Tree, Grown, Hangs, T!Parent
      <3>6. InValue[q] = outs[i].value
        BY <3>1, <3>2, <3>5 DEF InValue
      <3>7. f[i] = outs[i].value /\ outs[i].value \in Int
        BY <2>2 DEF Values, Messages
      <3>. QED BY <3>1, <3>3, <3>4, <3>6, <3>7 DEF q
    <2>4. ASSUME NEW q \in C PROVE \E i \in S : b[i] = q
      <3>1. q \in Seq(Nat) /\ q # <<>> /\ q \in D /\ T!Parent(q) = p
        BY <1>2 DEF Tree
      <3>2. T!Last(q) \in S
        BY <3>1 DEF Tree, Grown, Hangs
      <3>3. q = Append(p, T!Last(q))
        BY <3>1, PlaceParts DEF T!Parent
      <3>. QED BY <3>2, <3>3
    <2>5. IsFiniteSet(C)
      BY <1>1, FS_Subset
    <2>6. /\ \A i \in S : b[i] \in C /\ InValue[b[i]] = f[i] /\ f[i] \in Int
          /\ \A i, j \in S : b[i] = b[j] => i = j
          /\ \A q \in C : \E i \in S : b[i] = q
      <3>1. /\ \A i \in S : b[i] \in C /\ InValue[b[i]] = f[i] /\ f[i] \in Int /\ T!Last(b[i]) = i
            /\ \A q \in C : \E i \in S : b[i] = q
        BY <2>3, <2>4
      <3> HIDE DEF S, C, b, f
      <3>. QED BY <3>1
    <2>7. By[p] = Sum(InValue, C)
      OBVIOUS
    <2>8. OutValue[p] = Sum(f, S)
      BY DEF OutValue
    <2> HIDE DEF C, S, f, b, By
    <2>9. Sum(f, S) = Sum(InValue, C)
      BY <2>2, <2>5, <2>6, SumReindexed
    <2>. QED BY <2>7, <2>8, <2>9
  <1>6. Sum(By, D) = Sum(OutValue, D)
    <2> HIDE DEF By
    <2>. QED BY <1>5, SumsAgree
  <1>. QED BY <1>3, <1>4, <1>6

\* What the accounts gained together is what the network took.
LEMMA CoinsPayFees ==
  ASSUME Tree, T!Pending(chain) = {}
  PROVE  Sum(Net, DOMAIN chain) = -Sum(Costs, DOMAIN chain)
  <1> DEFINE D == DOMAIN chain
  <1>1. /\ IsFiniteSet(D)
        /\ \A p \in D : /\ InValue[p] \in Int /\ OutValue[p] \in Int /\ Costs[p] \in Int /\ Spent[p] \in Int
                        /\ Net[p] = InValue[p] - Spent[p] /\ OutValue[p] = Spent[p] - Costs[p]
    BY TermsAreIntegers
  <1>2. Sum(InValue, D) = Sum(OutValue, D)
    BY ValuesMeet
  <1> HIDE DEF D
  <1>3. Sum(Net, D) = Sum(InValue, D) - Sum(Spent, D)
    BY <1>1, SumOfDifferences
  <1>4. Sum(OutValue, D) = Sum(Spent, D) - Sum(Costs, D)
    BY <1>1, SumOfDifferences
  <1>5. Sum(Spent, D) \in Int /\ Sum(Costs, D) \in Int
    BY <1>1, SumIsInteger
  <1>6. Sum(Net, D) = -Sum(Costs, D)
    BY <1>2, <1>3, <1>4, <1>5
  <1>. QED BY <1>6 DEF D

FoldedForwards(outs) == T!FoldFunction(+, 0, [i \in DOMAIN outs |-> outs[i].fwd])
NetsOf(txs, S) ==
  T!MapThenSumSet(LAMBDA p : (IF p = <<>> THEN 0 ELSE txs[p].in.value) - (T!Fee + T!SentBy(txs[p].outs)), S)

LEMMA ForwardsAreSummed ==
  ASSUME NEW outs \in Seq(Messages)
  PROVE  FoldedForwards(outs) = Sum(Forwards(outs), DOMAIN outs)
  <1>1. FoldedForwards(outs) = Folded(Forwards(outs))
    BY Zenon DEF Forwards, Folded, FoldedForwards
  <1>2. DOMAIN Forwards(outs) = DOMAIN outs
    BY DEF Forwards
  <1>. QED BY <1>1, <1>2, FoldIsSum

\* The sums that a verdict is told with, over a reply's transactions.
LEMMA SumOfNets ==
  ASSUME Tree, NEW txs, DOMAIN txs = DOMAIN chain,
         \A p \in DOMAIN chain : txs[p].in = chain[p].in /\ txs[p].outs = chain[p].outs,
         NEW S \in SUBSET DOMAIN chain
  PROVE  NetsOf(txs, S) = Sum(Net, S)
  <1> DEFINE pick(s) == CHOOSE x \in s : TRUE
             n(p) == (IF p = <<>> THEN 0 ELSE txs[p].in.value) - (T!Fee + T!SentBy(txs[p].outs))
             E(g) == [s \in SUBSET S |-> IF s = {} THEN 0 ELSE n(pick(s)) + g[s \ {pick(s)}]]
             F(g) == [s \in SUBSET S |-> IF s = {} THEN 0 ELSE Net[pick(s)] + g[s \ {pick(s)}]]
  <1>1. ASSUME NEW p \in S PROVE Net[p] = n(p)
    <2>1. Net[p] = InValue[p] - Spent[p]
      BY DEF Net
    <2>2. InValue[p] = (IF p = <<>> THEN 0 ELSE txs[p].in.value) /\ Spent[p] = T!Fee + T!SentBy(txs[p].outs)
      BY DEF InValue, Spent
    <2>. QED BY <2>1, <2>2
  <1>2. \A s \in SUBSET S : s # {} => pick(s) \in S
    OBVIOUS
  <1>3. \A g : E(g) = F(g)
    <2> HIDE DEF pick, n
    <2>. QED BY <1>1, <1>2
  <1>4. (CHOOSE g : g = E(g)) = (CHOOSE g : g = F(g))
    <2> HIDE DEF E, F
    <2>. QED BY <1>3
  <1>5. NetsOf(txs, S) = (CHOOSE g : g = E(g))[S]
    BY DEF NetsOf, T!MapThenSumSet, T!MapThenFoldSet
  <1>6. Sum(Net, S) = (CHOOSE g : g = F(g))[S]
    BY DEF Sum, MapThenSumSet, MapThenFoldSet
  <1>. QED BY <1>4, <1>5, <1>6

LEMMA SumOfCosts ==
  ASSUME Tree, NEW txs, DOMAIN txs = DOMAIN chain, \A p \in DOMAIN chain : txs[p].outs = chain[p].outs
  PROVE  T!Fees(txs) = Sum(Costs, DOMAIN chain)
  <1> DEFINE S == DOMAIN chain
             pick(s) == CHOOSE x \in s : TRUE
             n(p) == T!Fee + FoldedForwards(txs[p].outs)
             E(g) == [s \in SUBSET S |-> IF s = {} THEN 0 ELSE n(pick(s)) + g[s \ {pick(s)}]]
             F(g) == [s \in SUBSET S |-> IF s = {} THEN 0 ELSE Costs[pick(s)] + g[s \ {pick(s)}]]
  <1>1. ASSUME NEW p \in S PROVE Costs[p] = n(p)
    <2>1. chain[p].outs \in Seq(Messages) /\ txs[p].outs = chain[p].outs
      BY TermsAreIntegers
    <2>2. FoldedForwards(chain[p].outs) = Sum(Forwards(chain[p].outs), DOMAIN chain[p].outs)
      BY <2>1, ForwardsAreSummed
    <2>3. Costs[p] = T!Fee + Sum(Forwards(chain[p].outs), DOMAIN chain[p].outs)
      BY DEF Costs
    <2>. QED BY <2>1, <2>2, <2>3
  <1>2. \A s \in SUBSET S : s # {} => pick(s) \in S
    OBVIOUS
  <1>3. \A g : E(g) = F(g)
    <2> HIDE DEF pick, n
    <2>. QED BY <1>1, <1>2
  <1>4. (CHOOSE g : g = E(g)) = (CHOOSE g : g = F(g))
    <2> HIDE DEF E, F
    <2>. QED BY <1>3
  <1>5. T!Fees(txs) = (CHOOSE g : g = E(g))[S]
    BY DEF T!Fees, T!MapThenSumSet, T!MapThenFoldSet, FoldedForwards, T!FoldFunction, T!FoldFunctionOnSet
  <1>6. Sum(Costs, S) = (CHOOSE g : g = F(g))[S]
    BY DEF Sum, MapThenSumSet, MapThenFoldSet
  <1>. QED BY <1>4, <1>5, <1>6

LEMMA AccountsAreFinite == IsFiniteSet(T!Accounts)
  <1>1. /\ IsFiniteSet({"wallet"} \cup {"vault"}) /\ IsFiniteSet({"bob"} \cup {"jwallet"})
        /\ IsFiniteSet({"jbob"} \cup {"fake"}) /\ IsFiniteSet({"fakebob"})
    BY FS_Singleton, FS_Union
  <1>2. IsFiniteSet((({"wallet"} \cup {"vault"}) \cup ({"bob"} \cup {"jwallet"}))
                    \cup (({"jbob"} \cup {"fake"}) \cup {"fakebob"}))
    BY <1>1, FS_Union
  <1>3. T!Accounts = ((({"wallet"} \cup {"vault"}) \cup ({"bob"} \cup {"jwallet"}))
                      \cup (({"jbob"} \cup {"fake"}) \cup {"fakebob"}))
    BY DEF T!Accounts
  <1>. QED BY <1>2, <1>3

\* An account's part of the sums is what it gained.
LEMMA CoinsAreNets ==
  ASSUME Tree, Gains, NEW a \in T!Accounts
  PROVE  coins[a] = Sum(Net, {p \in DOMAIN chain : chain[p].account = a})
  <1> DEFINE D == DOMAIN chain
             M == {p \in D : chain[p].account = a}
             f == MovedOf(a)
  <1>1. coins[a] = Sum(f, D) /\ IsFiniteSet(D)
    BY TermsAreIntegers DEF Gains
  <1>2. \A p \in D : f[p] \in Int /\ f[p] = T!Moved(chain[p])[a]
    BY GainParts
  <1>3. ASSUME NEW p \in D PROVE f[p] = IF p \in M THEN Net[p] ELSE 0
    <2> DEFINE v == IF p = <<>> THEN 0 ELSE chain[p].in.value
               s == T!SentBy(chain[p].outs)
    <2>1. T!Moved(chain[p])[a] = IF a = chain[p].account THEN v - 1 - s ELSE 0
      <3>1. chain[p].place = p
        BY DEF Tree, Grown
      <3>. QED BY <3>1 DEF T!Moved, T!Fee
    <2>2. InValue[p] = v /\ Spent[p] = 1 + s /\ Net[p] = InValue[p] - Spent[p]
      BY DEF InValue, Spent, Net, T!Fee
    <2>3. v \in Int /\ s \in Int
      <3>1. chain[p].outs \in Seq(Messages) /\ chain[p].in.value \in Int
        BY DEF Tree, Transactions, Messages
      <3>. QED BY <3>1, SentByIsInteger
    <2> HIDE DEF v, s, f
    <2>4. v - 1 - s = v - (1 + s)
      BY <2>3
    <2>. QED BY <1>2, <2>1, <2>2, <2>4
  <1>4. M \in SUBSET D
    OBVIOUS
  <1> HIDE DEF D, M, f
  <1>5. Sum(f, M) = Sum(f, D)
    BY <1>1, <1>2, <1>3, <1>4, SumWithoutZeros
  <1>6. Sum(f, M) = Sum(Net, M)
    BY <1>3, <1>4, SumsAgree
  <1>. QED BY <1>1, <1>5, <1>6 DEF D, M

\* What a whole trace says of coins and fees is what the accounts saw.
LEMMA CoinsAreTold ==
  ASSUME Tree, Gains, T!Pending(chain) = {}, NEW txs, DOMAIN txs = DOMAIN chain,
         \A p \in DOMAIN chain : Shows(txs[p], chain[p])
  PROVE  T!Deltas(txs) = coins /\ Folded(coins) = -T!Fees(txs)
  <1>1. \A p \in DOMAIN chain :
          txs[p].in = chain[p].in /\ txs[p].outs = chain[p].outs /\ txs[p].account = chain[p].account
    BY DEF Shows
  <1> DEFINE M(a) == {p \in DOMAIN chain : chain[p].account = a}
             gathered(a) == NetsOf(txs, {p \in DOMAIN txs : txs[p].account = a})
  <1>2. \A a \in T!Accounts : coins[a] = Sum(Net, M(a))
    BY CoinsAreNets
  <1>3. ASSUME NEW a \in T!Accounts PROVE gathered(a) = coins[a]
    <2>1. {p \in DOMAIN txs : txs[p].account = a} = M(a)
      BY <1>1
    <2>2. NetsOf(txs, M(a)) = Sum(Net, M(a))
      <3>1. M(a) \in SUBSET DOMAIN chain
        OBVIOUS
      <3> HIDE DEF M
      <3>. QED BY <1>1, <3>1, SumOfNets
    <2>3. gathered(a) = Sum(Net, M(a))
      BY <2>1, <2>2, Zenon
    <2>. QED BY <1>2, <2>3
  <1>4. T!Deltas(txs) = [a \in T!Accounts |-> gathered(a)]
    BY Zenon DEF T!Deltas, NetsOf
  <1>5. coins = [a \in T!Accounts |-> coins[a]]
    BY DEF Gains
  <1>6. T!Deltas(txs) = coins
    <2> HIDE DEF gathered
    <2>. QED BY <1>3, <1>4, <1>5
  <1>7. T!Fees(txs) = Sum(Costs, DOMAIN chain)
    BY <1>1, SumOfCosts
  <1>8. Sum(Net, DOMAIN chain) = -Sum(Costs, DOMAIN chain)
    BY CoinsPayFees
  <1>9. Folded(coins) = Sum(Net, DOMAIN chain)
    <2> DEFINE D == DOMAIN chain
               C == T!Accounts
               class == [p \in D |-> chain[p].account]
               By == [c \in C |-> Sum(Net, {p \in D : class[p] = c})]
    <2>1. IsFiniteSet(D) /\ (\A p \in D : Net[p] \in Int) /\ IsFiniteSet(C)
      BY TermsAreIntegers, AccountsAreFinite
    <2>2. \A p \in D : class[p] \in C /\ class[p] = chain[p].account
      BY DEF Tree, Transactions
    <2>3. ASSUME NEW c \in C PROVE By[c] = coins[c]
      <3>1. {p \in D : class[p] = c} = M(c)
        BY <2>2
      <3>2. By[c] = Sum(Net, {p \in D : class[p] = c})
        OBVIOUS
      <3> HIDE DEF M, By, class
      <3>. QED BY <1>2, <3>1, <3>2
    <2>4. Sum(By, C) = Sum(Net, D)
      <3> HIDE DEF D, C, class
      <3>. QED BY <2>1, <2>2, SumByClass
    <2>5. Sum(By, C) = Sum(coins, C)
      <3> HIDE DEF By, C
      <3>. QED BY <2>3, SumsAgree
    <2>6. DOMAIN coins = C
      BY DEF Gains
    <2>7. Folded(coins) = Sum(coins, C)
      <3> HIDE DEF C
      <3>. QED BY <2>6, FoldIsSum
    <2>. QED BY <2>4, <2>5, <2>7
  <1>. QED BY <1>6, <1>7, <1>8, <1>9

-----------------------------------------------------------------------------
(* The jettons that a verdict tells of are those that landed.              *)

LandedAt == {p \in DOMAIN chain :
              chain[p].in.op = "internal_transfer" /\ chain[p].account = "jbob" /\ ~chain[p].aborted}

\* One verified transfer: the wallet's jetton is bob's.
OneMoves(changes) == upsert(upsert(changes, "wallet", "jetton", -1), "bob", "jetton", 1)

\* What n of them come to.
Coming(n) ==
  IF n = 0 THEN NoChanges
  ELSE [w \in {"wallet", "bob"} |-> [a \in {"jetton"} |-> IF w = "wallet" THEN -n ELSE n]]

LEMMA MovesAreVerified ==
  ASSUME Tree, NEW txs, DOMAIN txs = DOMAIN chain, \A p \in DOMAIN chain : Shows(txs[p], chain[p])
  PROVE  /\ T!getJettonTransfers(txs) = LandedAt
         /\ \A p \in LandedAt : txs[T!Parent(p)].in.names = "bob"
  <1>1. \A p \in DOMAIN chain : txs[p].in = chain[p].in /\ txs[p].account = chain[p].account
                                /\ txs[p].aborted = chain[p].aborted /\ chain[p].in \in Messages
    BY DEF Shows, Tree, Transactions
  <1>2. ASSUME NEW p \in T!getJettonTransfers(txs) PROVE p \in LandedAt
    <2>1. p \in DOMAIN chain /\ ~txs[p].aborted /\ txs[p].in.op = "internal_transfer"
          /\ T!Parent(p) \in DOMAIN chain /\ T!Vouched(txs, p)
      BY DEF T!getJettonTransfers, T!tonJettonCreditsOf, T!Vouched
    <2>2. txs[T!Parent(p)].in.names = "bob"
      BY <1>1, <2>1 DEF Messages
    <2>3. txs[p].account = "jbob"
      BY <2>1, <2>2 DEF T!Vouched, T!WalletOf, T!WalletData
    <2>. QED BY <1>1, <2>1, <2>3 DEF LandedAt
  <1>3. ASSUME NEW p \in LandedAt
        PROVE  /\ p \in T!getJettonTransfers(txs) /\ txs[T!Parent(p)].in.names = "bob"
    <2>1. p \in DOMAIN chain /\ chain[p].in.op = "internal_transfer" /\ chain[p].account = "jbob" /\ ~chain[p].aborted
      BY DEF LandedAt
    <2>2. Grown(p) /\ Routed(chain[p].in) /\ chain[p].in.to = "jbob"
      BY <2>1 DEF Tree, Grown
    <2>3. p # <<>>
      BY <2>1, <2>2 DEF Grown, Rooted, T!External, T!Message
    <2>4. Hangs(p)
      BY <2>2, <2>3 DEF Grown
    <2> DEFINE q == T!Parent(p)
    <2>5. q \in DOMAIN chain /\ T!Last(p) \in DOMAIN chain[q].outs /\ chain[p].in = chain[q].outs[T!Last(p)]
          /\ Reacts(chain[p].in, chain[p])
      BY <2>4 DEF Hangs
    <2>6. chain[p].in.from = "jwallet" /\ ~chain[p].in.bounced
      BY <2>1, <2>2, <2>5 DEF Routed, Reacts
    <2> HIDE DEF q
    <2>7. chain[q].in.op = "transfer"
      <3>1. Grown(q)
        BY <2>5 DEF Tree
      <3>2. q # <<>>
        BY <2>1, <2>5, <3>1 DEF Grown, Rooted
      <3>3. Reacts(chain[q].in, chain[q])
        BY <3>1, <3>2 DEF Grown, Hangs
      <3>. QED BY <2>1, <2>5, <3>3 DEF Reacts
    <2>8. txs[q].in.names = "bob"
      BY <1>1, <2>5 DEF Messages
    <2>9. T!WalletData(txs[p].in.from) = [owner |-> "wallet", master |-> "jetton"]
          /\ T!WalletOf("jetton", "wallet") = "jwallet" /\ T!WalletOf("jetton", "bob") = "jbob"
      BY DEF T!WalletData, T!WalletOf
    <2>10. T!Vouched(txs, p)
      BY <1>1, <2>1, <2>5, <2>6, <2>7, <2>8, <2>9 DEF T!Vouched, q
    <2>11. p \in T!tonJettonCreditsOf(txs)
      BY <1>1, <2>1, <2>6 DEF T!tonJettonCreditsOf
    <2>. QED BY <2>8, <2>10, <2>11 DEF T!getJettonTransfers, q
  <1>. QED BY <1>2, <1>3

\* One more transfer.
LEMMA OneMovesOne ==
  ASSUME NEW changes, Normal(changes), Shaped(changes)
  PROVE  /\ Normal(OneMoves(changes)) /\ Shaped(OneMoves(changes))
         /\ \A w, a : Gained(OneMoves(changes), w, a)
                      = Gained(changes, w, a) + (IF a # "jetton" THEN 0 ELSE IF w = "bob" THEN 1
                                                 ELSE IF w = "wallet" THEN -1 ELSE 0)
  <1> DEFINE mid == upsert(changes, "wallet", "jetton", -1)
             end == upsert(mid, "bob", "jetton", 1)
  <1>1. -1 \in Int /\ 1 \in Int
    OBVIOUS
  <1>2. /\ Normal(mid) /\ Shaped(mid)
        /\ \A w, a : Gained(mid, w, a) = Gained(changes, w, a) + (IF w = "wallet" /\ a = "jetton" THEN -1 ELSE 0)
    BY <1>1, UpsertAdds, UpsertIsShaped
  <1> HIDE DEF mid
  <1>3. /\ Normal(end) /\ Shaped(end)
        /\ \A w, a : Gained(end, w, a) = Gained(mid, w, a) + (IF w = "bob" /\ a = "jetton" THEN 1 ELSE 0)
    BY <1>1, <1>2, UpsertAdds, UpsertIsShaped
  <1>4. \A w, a : Gained(changes, w, a) \in Int
    BY GainedIsInteger
  <1>5. OneMoves(changes) = end
    BY DEF OneMoves, mid
  <1> HIDE DEF end
  <1>. QED BY <1>2, <1>3, <1>4, <1>5

LEMMA ComingIs ==
  ASSUME NEW n \in Nat
  PROVE  /\ Normal(Coming(n)) /\ Shaped(Coming(n))
         /\ \A w, a : Gained(Coming(n), w, a) = IF a # "jetton" THEN 0 ELSE IF w = "bob" THEN n
                                                ELSE IF w = "wallet" THEN -n ELSE 0
  <1>1. CASE n = 0
    <2>1. Coming(n) = NoChanges
      BY <1>1 DEF Coming
    <2>2. \A w, a : Gained(NoChanges, w, a) = 0
      BY DEF Gained, RowOf, Has, NoChanges
    <2>. QED BY <1>1, <2>1, <2>2, NoChangesAreShaped
  <1>2. CASE n # 0
    <2> DEFINE c == Coming(n)
    <2>1. c = [w \in {"wallet", "bob"} |-> [a \in {"jetton"} |-> IF w = "wallet" THEN -n ELSE n]]
      BY <1>2 DEF Coming
    <2> HIDE DEF c
    <2>2. DOMAIN c = {"wallet", "bob"} /\ \A w \in {"wallet", "bob"} :
            DOMAIN c[w] = {"jetton"} /\ c[w]["jetton"] = (IF w = "wallet" THEN -n ELSE n)
      BY <2>1
    <2>3. n \in Int \ {0} /\ -n \in Int \ {0}
      BY <1>2
    <2>4. Normal(c)
      BY <2>2, <2>3 DEF Normal
    <2>5. Shaped(c)
      BY <2>1 DEF Shaped
    <2>6. \A w, a : Gained(c, w, a) = IF a # "jetton" THEN 0 ELSE IF w = "bob" THEN n
                                      ELSE IF w = "wallet" THEN -n ELSE 0
      BY <2>2 DEF Gained, RowOf, Has, NoChanges
    <2>. QED BY <2>4, <2>5, <2>6 DEF c
  <1>. QED BY <1>1, <1>2

LEMMA ComingGrows ==
  ASSUME NEW n \in Nat
  PROVE  OneMoves(Coming(n)) = Coming(n + 1)
  <1>1. n + 1 \in Nat
    OBVIOUS
  <1> DEFINE c == OneMoves(Coming(n))
             d == Coming(n + 1)
  <1>2. /\ Normal(Coming(n)) /\ Shaped(Coming(n)) /\ Normal(d) /\ Shaped(d)
        /\ \A w, a : Gained(Coming(n), w, a) = IF a # "jetton" THEN 0 ELSE IF w = "bob" THEN n
                                               ELSE IF w = "wallet" THEN -n ELSE 0
        /\ \A w, a : Gained(d, w, a) = IF a # "jetton" THEN 0 ELSE IF w = "bob" THEN n + 1
                                       ELSE IF w = "wallet" THEN -(n + 1) ELSE 0
    BY <1>1, ComingIs
  <1>3. /\ Normal(c) /\ Shaped(c)
        /\ \A w, a : Gained(c, w, a)
                     = Gained(Coming(n), w, a) + (IF a # "jetton" THEN 0 ELSE IF w = "bob" THEN 1
                                                  ELSE IF w = "wallet" THEN -1 ELSE 0)
    BY <1>2, OneMovesOne
  <1> HIDE DEF c, d
  <1>4. \A w, a : Gained(c, w, a) = Gained(d, w, a)
    BY <1>2, <1>3
  <1>5. c = d
    BY <1>2, <1>3, <1>4, ChangesAgree
  <1>. QED BY <1>5 DEF c, d

\* The operators of BalanceChanges, as the instance has them.
LEMMA SameGained == \A held, w, a : T!Gained(held, w, a) = Gained(held, w, a)
  BY DEF T!Gained, T!RowOf, T!NoChanges, T!Has, Gained, RowOf, NoChanges, Has

LEMMA SameUpsert == \A held, w, a, n : T!upsert(held, w, a, n) = upsert(held, w, a, n)
  BY DEF T!upsert, upsert, T!Gained, T!RowOf, T!NoChanges, T!Has, Gained, RowOf, NoChanges, Has,
         T!With, T!Without, With, Without

\* One step of the recursion that adds a set of verified transfers.
MovesIn(D, g) == [s \in D |-> IF s = {} THEN NoChanges ELSE OneMoves(g[s \ {Pick(s)}])]

LEMMA MovesAreGathered ==
  ASSUME Tree, NEW txs, DOMAIN txs = DOMAIN chain, \A p \in DOMAIN chain : Shows(txs[p], chain[p])
  PROVE  T!addJettonBalanceChanges(txs)
           = (CHOOSE g : g = MovesIn(SUBSET LandedAt, g))[LandedAt]
  <1> DEFINE M == T!getJettonTransfers(txs)
             One(p, held) == T!upsert(T!upsert(held, T!WalletData(txs[p].in.from).owner, "jetton", -1),
                                      txs[T!Parent(p)].in.names, "jetton", 1)
             E(g) == [s \in SUBSET M |-> IF s = {} THEN T!NoChanges ELSE One(Pick(s), g[s \ {Pick(s)}])]
             F(g) == MovesIn(SUBSET M, g)
  <1>1. T!addJettonBalanceChanges(txs) = (CHOOSE g : g = E(g))[M]
    BY DEF T!addJettonBalanceChanges, T!FoldSet, T!MapThenFoldSet, Pick
  <1>2. M = LandedAt /\ \A p \in LandedAt : txs[T!Parent(p)].in.names = "bob"
    BY MovesAreVerified
  <1>3. \A held : \A p \in M : One(p, held) = OneMoves(held)
    <2>1. \A from : T!WalletData(from).owner = "wallet"
      BY DEF T!WalletData
    <2>2. \A p \in M : txs[T!Parent(p)].in.names = "bob"
      BY <1>2
    <2> HIDE DEF M
    <2>. QED BY <2>1, <2>2, SameUpsert DEF OneMoves
  <1>4. \A g : E(g) = F(g)
    <2> HIDE DEF M, One
    <2> SUFFICES ASSUME NEW g, NEW s \in SUBSET M, s # {}
                 PROVE  One(Pick(s), g[s \ {Pick(s)}]) = OneMoves(g[s \ {Pick(s)}])
      BY DEF MovesIn, T!NoChanges, NoChanges
    <2>1. Pick(s) \in M
      BY PickIsIn
    <2>. QED BY <1>3, <2>1
  <1>5. (CHOOSE g : g = E(g)) = (CHOOSE g : g = F(g))
    <2> HIDE DEF E, F
    <2>. QED BY <1>4
  <1> HIDE DEF M, E
  <1>. QED BY <1>1, <1>2, <1>5

\* What the transfers of a set come to, of both of their accounts.
LEMMA GatheredMoves ==
  ASSUME NEW S, IsFiniteSet(S), NEW f, NEW h, \A p \in S : f[p] = 1 /\ h[p] = -1
  PROVE  LET c == (CHOOSE g : g = MovesIn(SUBSET S, g))[S]
         IN  Gained(c, "bob", "jetton") = Sum(f, S) /\ Gained(c, "wallet", "jetton") = Sum(h, S)
  <1> DEFINE G == CHOOSE g : g = MovesIn(SUBSET S, g)
             Right(s) == /\ Normal(G[s]) /\ Shaped(G[s])
                         /\ Gained(G[s], "bob", "jetton") = Sum(f, s)
                         /\ Gained(G[s], "wallet", "jetton") = Sum(h, s)
             B == {s \in SUBSET S : ~Right(s)}
  <1>1. \A s \in SUBSET S : IsFiniteSet(s) /\ Cardinality(s) \in Nat
    BY FS_Subset, FS_CardinalityType
  <1>2. G = MovesIn(SUBSET S, G)
    <2> DEFINE k == [s \in SUBSET S |-> Coming(Cardinality(s))]
    <2>1. ASSUME NEW s \in SUBSET S, s # {} PROVE k[s] = OneMoves(k[s \ {Pick(s)}])
      <3> DEFINE r == s \ {Pick(s)}
      <3>1. Pick(s) \in s
        BY <2>1, PickIsIn
      <3>2. Cardinality(r) \in Nat /\ Cardinality(r) + 1 = Cardinality(s)
        BY <1>1, <3>1, SmallerByOne
      <3>3. k[s] = Coming(Cardinality(s)) /\ k[r] = Coming(Cardinality(r))
        OBVIOUS
      <3> HIDE DEF k, r
      <3>4. OneMoves(Coming(Cardinality(r))) = Coming(Cardinality(r) + 1)
        BY <3>2, ComingGrows
      <3>. QED BY <3>2, <3>3, <3>4 DEF r
    <2>2. k[{}] = NoChanges
      <3>1. Cardinality({}) = 0
        BY FS_EmptySet
      <3>. QED BY <3>1 DEF Coming
    <2>3. k = [s \in SUBSET S |-> k[s]]
      OBVIOUS
    <2> HIDE DEF k
    <2>4. k = MovesIn(SUBSET S, k)
      BY <2>1, <2>2, <2>3 DEF MovesIn
    <2>. QED BY <2>4
  <1> HIDE DEF G
  <1>3. G[{}] = NoChanges /\ \A s \in SUBSET S : s # {} => G[s] = OneMoves(G[s \ {Pick(s)}])
    BY <1>2 DEF MovesIn
  <1>4. B = {}
    <2> SUFFICES ASSUME B # {} PROVE FALSE
      OBVIOUS
    <2>1. PICK m \in B : \A s \in B : Cardinality(m) <= Cardinality(s)
      <3> HIDE DEF B
      <3>1. \A s \in B : IsFiniteSet(s)
        BY <1>1 DEF B
      <3>. QED BY <3>1, SmallestSet
    <2>2. m \in SUBSET S /\ ~Right(m)
      OBVIOUS
    <2>3. CASE m = {}
      <3>1. Gained(NoChanges, "bob", "jetton") = 0 /\ Gained(NoChanges, "wallet", "jetton") = 0
        BY DEF Gained, RowOf, Has, NoChanges
      <3>2. Sum(f, {}) = 0 /\ Sum(h, {}) = 0
        BY SumOfNothing
      <3>. QED BY <1>3, <2>2, <2>3, <3>1, <3>2, NoChangesAreShaped
    <2>4. CASE m # {}
      <3> DEFINE p == Pick(m)
                 r == m \ {p}
      <3>1. p \in m
        BY <2>4, PickIsIn
      <3>2. ~(Cardinality(m) <= Cardinality(r)) /\ r \in SUBSET S /\ IsFiniteSet(m)
        BY <1>1, <2>2, <3>1, SmallerByOne
      <3>3. Right(r)
        <4> HIDE DEF Right, r
        <4>. QED BY <2>1, <3>2
      <3>4. G[m] = OneMoves(G[r])
        BY <1>3, <2>2, <2>4
      <3> HIDE DEF p
      <3>5. Sum(f, m) = f[p] + Sum(f, r) /\ Sum(h, m) = h[p] + Sum(h, r)
        <4>1. \A x \in m : f[x] \in Int /\ h[x] \in Int
          BY <2>2
        <4>. QED BY <3>1, <3>2, <4>1, SumTakes
      <3>6. f[p] = 1 /\ h[p] = -1
        BY <2>2, <3>1
      <3>7. Sum(f, r) \in Int /\ Sum(h, r) \in Int
        <4>1. IsFiniteSet(r) /\ \A x \in r : f[x] \in Int /\ h[x] \in Int
          BY <1>1, <3>2
        <4> HIDE DEF r
        <4>. QED BY <4>1, SumIsInteger
      <3> HIDE DEF r
      <3>8. /\ Normal(G[m]) /\ Shaped(G[m])
            /\ Gained(G[m], "bob", "jetton") = Gained(G[r], "bob", "jetton") + 1
            /\ Gained(G[m], "wallet", "jetton") = Gained(G[r], "wallet", "jetton") + (-1)
        <4> DEFINE c == G[r]
        <4>1. Normal(c) /\ Shaped(c)
          BY <3>3
        <4> HIDE DEF c
        <4>2. /\ Normal(OneMoves(c)) /\ Shaped(OneMoves(c))
              /\ \A w, a : Gained(OneMoves(c), w, a)
                           = Gained(c, w, a) + (IF a # "jetton" THEN 0 ELSE IF w = "bob" THEN 1
                                                ELSE IF w = "wallet" THEN -1 ELSE 0)
          BY <4>1, OneMovesOne
        <4>. QED BY <3>4, <4>2 DEF c
      <3>9. Right(m)
        BY <3>3, <3>5, <3>6, <3>7, <3>8
      <3>. QED BY <2>2, <3>9
    <2>. QED BY <2>3, <2>4
  <1>5. S \in SUBSET S
    OBVIOUS
  <1>6. Right(S)
    BY <1>4, <1>5
  <1>. QED BY <1>6 DEF G

\* What a whole trace says of jettons is what the accounts saw.
LEMMA JettonsAreTold ==
  ASSUME Tree, Gains, NEW txs, DOMAIN txs = DOMAIN chain, \A p \in DOMAIN chain : Shows(txs[p], chain[p])
  PROVE  \A a \in {"wallet", "bob"} : T!Gained(T!addJettonBalanceChanges(txs), a, "jetton") = jettons[a]
  <1> DEFINE D == DOMAIN chain
             f == CreditedOf("bob")
             h == CreditedOf("wallet")
             c == T!addJettonBalanceChanges(txs)
  <1>1. IsFiniteSet(D) /\ LandedAt \in SUBSET D /\ IsFiniteSet(LandedAt)
    <2>1. LandedAt \in SUBSET D
      BY DEF LandedAt
    <2>. QED BY <2>1, TermsAreIntegers, FS_Subset
  <1>2. \A p \in D : f[p] \in Int /\ h[p] \in Int
                     /\ f[p] = (IF p \in LandedAt THEN 1 ELSE 0) /\ h[p] = (IF p \in LandedAt THEN -1 ELSE 0)
    <2> TAKE p \in D
    <2>1. f[p] = T!Credited(chain[p])["bob"] /\ h[p] = T!Credited(chain[p])["wallet"]
      BY DEF CreditedOf
    <2>2. T!Credited(chain[p])["bob"] = (IF p \in LandedAt THEN 1 ELSE 0)
          /\ T!Credited(chain[p])["wallet"] = (IF p \in LandedAt THEN -1 ELSE 0)
      BY DEF T!Credited, LandedAt
    <2>. QED BY <2>1, <2>2
  <1>3. c = (CHOOSE g : g = MovesIn(SUBSET LandedAt, g))[LandedAt]
    BY MovesAreGathered
  <1>4. jettons["bob"] = Sum(f, D) /\ jettons["wallet"] = Sum(h, D)
    BY DEF Gains
  <1> HIDE DEF D, f, h, c
  <1>5. Gained(c, "bob", "jetton") = Sum(f, LandedAt) /\ Gained(c, "wallet", "jetton") = Sum(h, LandedAt)
    <2>1. \A p \in LandedAt : f[p] = 1 /\ h[p] = -1
      BY <1>1, <1>2
    <2>. QED BY <1>1, <1>3, <2>1, GatheredMoves
  <1>6. Sum(f, LandedAt) = Sum(f, D) /\ Sum(h, LandedAt) = Sum(h, D)
    BY <1>1, <1>2, SumWithoutZeros
  <1>7. \A a : T!Gained(c, a, "jetton") = Gained(c, a, "jetton")
    BY SameGained
  <1>. QED BY <1>4, <1>5, <1>6, <1>7 DEF c

-----------------------------------------------------------------------------
(* A whole trace is judged as what the chain did.                          *)

Bad == {"bounced", "undelivered", "failed"}
Fulfilled(p, m) == T!Kept(p) /\ (m.op = "transfer" => T!Landed(p))

\* Once nothing is on its way, every message has its transaction.
LEMMA MessageCameIn ==
  ASSUME Tree, T!Pending(chain) = {}, NEW w \in DOMAIN chain, NEW i \in DOMAIN chain[w].outs
  PROVE  LET p == Append(w, i)
         IN  /\ p \in DOMAIN chain /\ p # <<>> /\ T!Parent(p) = w /\ T!Last(p) = i
             /\ chain[p].in = chain[w].outs[i]
             /\ Routed(chain[w].outs[i]) /\ Reacts(chain[p].in, chain[p])
             /\ chain[p].in \in Messages
  <1> DEFINE p == Append(w, i)
  <1>1. w \in Seq(Nat) /\ chain[w].outs \in Seq(Messages)
    BY TermsAreIntegers DEF Tree
  <1>2. i \in Nat
    BY <1>1, PlacesOfSeq
  <1>3. p # <<>> /\ T!Front(p) = w /\ T!Last(p) = i
    BY <1>1, <1>2, PlaceOfMessage
  <1>4. p \in DOMAIN chain
    <2>1. p \in DOMAIN chain \/ p \in T!Pending(chain)
      BY DEF T!Pending
    <2>. QED BY <2>1
  <1> HIDE DEF p
  <1>5. /\ chain[p].in = chain[w].outs[i] /\ Reacts(chain[p].in, chain[p])
        /\ Routed(chain[p].in) /\ chain[p].in \in Messages
    BY <1>3, <1>4 DEF Tree, Grown, Hangs, T!Parent, Transactions
  <1>. QED BY <1>3, <1>4, <1>5 DEF p, T!Parent

\* A hop is told as delivered if it was kept, and a jetton transfer if its jettons were.
LEMMA OutcomeIsTrue ==
  ASSUME Tree, T!Pending(chain) = {}, NEW trace, trace.complete, DOMAIN trace.txs = DOMAIN chain,
         \A p \in DOMAIN chain : Shows(trace.txs[p], chain[p]),
         NEW w \in DOMAIN chain, NEW i \in DOMAIN chain[w].outs
  PROVE  T!Outcome(trace, Append(w, i), chain[w].outs[i]) \notin Bad
           <=> Fulfilled(Append(w, i), chain[w].outs[i])
  <1> DEFINE p == Append(w, i)
             m == chain[w].outs[i]
             txs == trace.txs
             onward == {j \in DOMAIN txs[p].outs :
                          txs[p].outs[j].op = "internal_transfer" /\ ~txs[p].outs[j].bounced}
  <1>1. p \in DOMAIN chain /\ chain[p].in = m /\ Reacts(m, chain[p]) /\ Grown(p)
    BY MessageCameIn DEF Tree
  <1>2. \A q \in DOMAIN chain : txs[q].aborted = chain[q].aborted /\ txs[q].outs = chain[q].outs
    BY DEF Shows
  <1> HIDE DEF p, m
  <1>3. /\ T!deliveryOf(txs, p, m, trace.complete) = "delivered" <=> T!Kept(p)
        /\ T!deliveryOf(txs, p, m, trace.complete) # "delivered" => T!deliveryOf(txs, p, m, trace.complete) \in Bad
    BY <1>1, <1>2 DEF T!deliveryOf, T!Kept, Bad
  <1>4. T!Outcome(trace, p, m) = IF T!Kept(p) /\ m.op = "transfer" THEN T!jettonDeliveryOf(txs, p, trace.complete)
                                 ELSE T!deliveryOf(txs, p, m, trace.complete)
    BY <1>1, <1>3 DEF T!Outcome
  <1>5. CASE ~(T!Kept(p) /\ m.op = "transfer")
    <2>1. "delivered" \notin Bad
      BY DEF Bad
    <2>. QED BY <1>3, <1>4, <1>5, <2>1 DEF Fulfilled, p, m
  <1>6. CASE T!Kept(p) /\ m.op = "transfer"
    <2>1. DOMAIN chain[p].outs \subseteq {1}
      BY <1>1, <1>6 DEF Reacts
    <2>2. T!jettonDeliveryOf(txs, p, trace.complete)
            = IF onward = {} THEN (IF trace.complete THEN "undelivered" ELSE "pending")
              ELSE T!deliveryOf(txs, Append(p, T!Min(onward)), txs[p].outs[T!Min(onward)], trace.complete)
      BY DEF T!jettonDeliveryOf
    <2>12. \A j : j \in onward <=> j \in DOMAIN chain[p].outs /\ chain[p].outs[j].op = "internal_transfer"
                                  /\ ~chain[p].outs[j].bounced
      BY <1>1, <1>2
    <2> HIDE DEF onward
    <2>3. ASSUME NEW r \in T!ChildrenOf(chain, p), chain[r].in.op = "internal_transfer"
          PROVE  onward = {1} /\ r = Append(p, 1)
      <3>1. r \in DOMAIN chain /\ r # <<>> /\ T!Parent(r) = p /\ r \in Seq(Nat)
        BY DEF T!ChildrenOf, Tree
      <3>2. T!Last(r) \in DOMAIN chain[p].outs /\ chain[r].in = chain[p].outs[T!Last(r)] /\ Routed(chain[r].in)
        BY <3>1 DEF Tree, Grown, Hangs
      <3>3. r = Append(p, T!Last(r))
        BY <3>1, PlaceParts DEF T!Parent
      <3>4. T!Last(r) = 1 /\ ~chain[r].in.bounced
        BY <2>1, <2>3, <3>2 DEF Routed
      <3>. QED BY <2>1, <2>3, <2>12, <3>2, <3>3, <3>4
    <2>4. CASE onward = {}
      <3>1. ~T!Landed(p)
        BY <2>3, <2>4 DEF T!Landed
      <3>2. T!jettonDeliveryOf(txs, p, trace.complete) \in Bad
        BY <2>2, <2>4 DEF Bad
      <3>. QED BY <1>4, <1>6, <3>1, <3>2 DEF Fulfilled, p, m
    <2>5. CASE onward # {}
      <3>1. onward = {1} /\ 1 \in DOMAIN chain[p].outs
            /\ chain[p].outs[1].op = "internal_transfer"
        BY <2>1, <2>5, <2>12
      <3>2. T!Min(onward) = 1
        <4>1. T!Min({1}) = 1
          BY DEF T!Min
        <4>. QED BY <3>1, <4>1, Zenon
      <3> DEFINE r == Append(p, 1)
                 y == chain[p].outs[1]
      <3>3. r \in DOMAIN chain /\ r # <<>> /\ T!Parent(r) = p /\ chain[r].in = y
        BY <1>1, <3>1, MessageCameIn
      <3> HIDE DEF r, y
      <3>4. /\ T!deliveryOf(txs, r, y, trace.complete) = "delivered" <=> T!Kept(r)
            /\ T!deliveryOf(txs, r, y, trace.complete) # "delivered" => T!deliveryOf(txs, r, y, trace.complete) \in Bad
        BY <1>2, <3>3 DEF T!deliveryOf, T!Kept, Bad
      <3>5. T!jettonDeliveryOf(txs, p, trace.complete) = T!deliveryOf(txs, r, y, trace.complete)
        <4>1. txs[p].outs[1] = y
          BY <1>1, <1>2 DEF y
        <4>. QED BY <2>2, <2>5, <3>2, <4>1 DEF r
      <3>6. T!Landed(p) <=> T!Kept(r)
        <4>1. T!Landed(p) => T!Kept(r)
          BY <2>3 DEF T!Landed, r
        <4>2. T!Kept(r) => T!Landed(p)
          <5>1. r \in T!ChildrenOf(chain, p) /\ chain[r].in.op = "internal_transfer"
            BY <3>1, <3>3 DEF T!ChildrenOf, y
          <5>. QED BY <5>1 DEF T!Landed
        <4>. QED BY <4>1, <4>2
      <3>7. "delivered" \notin Bad
        BY DEF Bad
      <3>8. T!Outcome(trace, p, m) = T!deliveryOf(txs, r, y, trace.complete)
        BY <1>4, <1>6, <3>5
      <3>. QED BY <1>6, <3>4, <3>6, <3>7, <3>8 DEF Fulfilled, p, m
    <2>. QED BY <2>4, <2>5
  <1>. QED BY <1>5, <1>6

\* An account that sends back kept nothing, and sent nothing on.
LEMMA SendsBackSendsNothing ==
  ASSUME NEW w \in DOMAIN chain, chain[w].outs \in Seq(Messages), Reacts(chain[w].in, chain[w]), SendsBack(chain[w])
  PROVE  ~T!Kept(w) /\ T!Sent(chain[w]) = {}
  BY DEF Reacts, SendsBack, T!Kept, T!Sent

LEMMA JudgedAsDone ==
  ASSUME Tree, T!Pending(chain) = {}, NEW trace, trace.complete, DOMAIN trace.txs = DOMAIN chain,
         <<>> \in DOMAIN chain, \A p \in DOMAIN chain : Shows(trace.txs[p], chain[p])
  PROVE  T!judgeRequest(trace) <=> T!DidWhatItWasSignedFor
  <1> DEFINE txs == trace.txs
             W == {<<>>} \cup T!relayTargets(chain)
             Told(w) == /\ Went(chain[w])
                        /\ w # <<>> => T!Sent(chain[w]) # {}
                        /\ \A i \in T!Sent(chain[w]) : Fulfilled(Append(w, i), chain[w].outs[i])
             Done(w) == /\ Went(chain[w])
                        /\ w # <<>> => chain[w].outs # <<>>
                        /\ \A i \in DOMAIN chain[w].outs : Fulfilled(Append(w, i), chain[w].outs[i])
  <1>1. \A p \in DOMAIN chain : /\ txs[p].in = chain[p].in /\ txs[p].outs = chain[p].outs
                                /\ txs[p].success <=> Went(chain[p])
    BY DEF Shows
  <1>2. T!relayTargets(txs) = T!relayTargets(chain) /\ W \subseteq DOMAIN chain
    BY <1>1 DEF T!relayTargets, T!ChildrenOf
  <1>3. ASSUME NEW w \in DOMAIN chain
        PROVE  T!Sent(txs[w]) = T!Sent(chain[w]) /\ T!Sent(chain[w]) \subseteq DOMAIN chain[w].outs
    BY <1>1 DEF T!Sent
  <1>4. T!judgeRequest(trace) <=> \A w \in W : Told(w)
    <2> DEFINE Says(w) == /\ txs[w].success
                          /\ w # <<>> => T!Sent(txs[w]) # {}
                          /\ \A i \in T!Sent(txs[w]) : T!Outcome(trace, Append(w, i), txs[w].outs[i]) \notin Bad
    <2>1. T!judgeRequest(trace) <=> \A w \in {<<>>} \cup T!relayTargets(txs) : Says(w)
      BY DEF T!judgeRequest, Bad
    <2>2. ASSUME NEW w \in W PROVE Says(w) <=> Told(w)
      <3>1. w \in DOMAIN chain
        BY <1>2
      <3>2. \A i \in DOMAIN chain[w].outs :
              T!Outcome(trace, Append(w, i), chain[w].outs[i]) \notin Bad <=> Fulfilled(Append(w, i), chain[w].outs[i])
        BY <3>1, OutcomeIsTrue
      <3>3. txs[w].outs = chain[w].outs /\ (txs[w].success <=> Went(chain[w]))
            /\ T!Sent(txs[w]) = T!Sent(chain[w]) /\ T!Sent(chain[w]) \subseteq DOMAIN chain[w].outs
        BY <1>1, <1>3, <3>1
      <3> HIDE DEF txs, W
      <3>. QED BY <3>2, <3>3
    <2> HIDE DEF Says, Told
    <2>. QED BY <1>2, <2>1, <2>2
  <1>5. T!DidWhatItWasSignedFor <=> \A w \in W : Done(w)
    BY DEF T!DidWhatItWasSignedFor, Went, Fulfilled
  <1>6. ASSUME NEW w \in W, w # <<>>
        PROVE  /\ w \in DOMAIN chain /\ Reacts(chain[w].in, chain[w])
               /\ T!Last(w) \in DOMAIN chain[<<>>].outs /\ w = Append(<<>>, T!Last(w))
    <2>1. w \in DOMAIN chain /\ T!Parent(w) = <<>> /\ w \in Seq(Nat)
      BY <1>6 DEF T!relayTargets, T!ChildrenOf, Tree
    <2>2. Hangs(w)
      BY <1>6, <2>1 DEF Tree, Grown
    <2>3. w = Append(<<>>, T!Last(w))
      BY <1>6, <2>1, PlaceParts DEF T!Parent
    <2>. QED BY <2>1, <2>2, <2>3 DEF Hangs
  <1>7. ASSUME NEW w \in W, ~SendsBack(chain[w]) PROVE Told(w) <=> Done(w)
    <2>1. w \in DOMAIN chain /\ chain[w].outs \in Seq(Messages)
      BY <1>2, TermsAreIntegers
    <2>2. T!Sent(chain[w]) = DOMAIN chain[w].outs
      BY <1>7 DEF SendsBack, T!Sent
    <2>3. DOMAIN chain[w].outs = {} <=> chain[w].outs = <<>>
      <3>1. Len(chain[w].outs) \in Nat /\ DOMAIN chain[w].outs = 1..Len(chain[w].outs)
            /\ (chain[w].outs # <<>> => Len(chain[w].outs) # 0)
        BY <2>1, LenProperties, EmptySeq
      <3>2. DOMAIN <<>> = {}
        OBVIOUS
      <3>3. chain[w].outs # <<>> => 1 \in DOMAIN chain[w].outs
        BY <3>1
      <3>. QED BY <3>2, <3>3
    <2>. QED BY <2>2, <2>3
  <1>8. ~SendsBack(chain[<<>>])
    BY DEF Tree, Grown, Rooted, SendsBack
  <1>9. ASSUME NEW w \in W, SendsBack(chain[w])
        PROVE  w # <<>> /\ ~Told(w) /\ ~Done(<<>>)
    <2>1. w # <<>>
      BY <1>8, <1>9
    <2>2. w \in DOMAIN chain /\ Reacts(chain[w].in, chain[w]) /\ chain[w].outs \in Seq(Messages)
          /\ T!Last(w) \in DOMAIN chain[<<>>].outs /\ w = Append(<<>>, T!Last(w))
      BY <1>6, <2>1, TermsAreIntegers
    <2>3. ~T!Kept(w) /\ T!Sent(chain[w]) = {}
      BY <1>9, <2>2, SendsBackSendsNothing
    <2>4. ~Fulfilled(Append(<<>>, T!Last(w)), chain[<<>>].outs[T!Last(w)])
      BY <2>2, <2>3 DEF Fulfilled
    <2>. QED BY <2>1, <2>2, <2>3, <2>4
  <1> HIDE DEF Told, Done
  <1>. QED BY <1>4, <1>5, <1>7, <1>9

-----------------------------------------------------------------------------
(* A verdict is true when it is given, and stays so.                       *)

LEMMA MaxIs ==
  ASSUME NEW S \in SUBSET Int, S # {}, NEW n \in Int, \A x \in S : x <= n
  PROVE  T!Max(S) \in S /\ \A x \in S : x <= T!Max(S)
  <1> DEFINE Below == {k \in Nat : \E x \in S : k = n - x}
  <1>1. \A x \in S : n - x \in Below
    OBVIOUS
  <1>2. PICK k \in Below : \A j \in Below : k <= j
    BY <1>1, LeastNatural
  <1>3. PICK x \in S : k = n - x
    OBVIOUS
  <1>4. \A y \in S : y <= x
    BY <1>1, <1>2, <1>3
  <1>. QED BY <1>4 DEF T!Max

Told(v) ==
  /\ ~T!Running
  /\ v.verdict = "Success" <=> T!DidWhatItWasSignedFor
  /\ v.native = coins /\ Sum(v.native, DOMAIN v.native) = -v.fees
  /\ \A a \in DOMAIN jettons : Gained(v.jettons, a, "jetton") = jettons[a]

DeepAsTold(depth) ==
  T!Ended /\ depth \in Int /\ depth <= head - T!Max({chain[p].at : p \in DOMAIN chain}) + RefLag

Judged ==
  /\ answer.kind \in {"status", "emulation"} => Told(answer)
  /\ answer.kind = "status" => DeepAsTold(answer.depth)

LEMMA JudgedIsTrue ==
  ASSUME Judged
  PROVE  T!VerdictIsTrue
  BY Zenon, FoldIsSum, SameGained DEF Judged, Told, DeepAsTold, Folded, T!VerdictIsTrue

\* A verdict told of a whole trace.
LEMMA ToldOfWhole ==
  ASSUME Tree, Gains, NEW trace, Reply(trace), trace.complete, NEW depth
  PROVE  Told(T!fromTrace(trace, depth))
  <1> DEFINE v == T!fromTrace(trace, depth)
             txs == trace.txs
  <1>1. DOMAIN txs = DOMAIN chain /\ ~T!Running
    BY WholeReply
  <1>2. T!Pending(chain) = {}
    BY <1>1 DEF T!Running
  <1>3. <<>> \in DOMAIN chain /\ \A p \in DOMAIN chain : Shows(txs[p], chain[p])
    BY <1>1 DEF Reply
  <1>4. T!judgeRequest(trace) <=> T!DidWhatItWasSignedFor
    BY <1>1, <1>2, <1>3, JudgedAsDone
  <1>5. v = [kind |-> "status", verdict |-> IF T!judgeRequest(trace) THEN "Success" ELSE "Failed",
             depth |-> depth, fees |-> T!Fees(txs), native |-> T!Deltas(txs),
             jettons |-> T!addJettonBalanceChanges(txs)]
    BY DEF T!fromTrace
  <1> HIDE DEF v, txs
  <1>6. /\ v.verdict = (IF T!judgeRequest(trace) THEN "Success" ELSE "Failed")
        /\ v.native = T!Deltas(txs) /\ v.fees = T!Fees(txs) /\ v.jettons = T!addJettonBalanceChanges(txs)
    BY <1>5
  <1>7. v.verdict = "Success" <=> T!DidWhatItWasSignedFor
    BY <1>4, <1>6
  <1>8. v.native = coins /\ Folded(coins) = -v.fees
    BY <1>1, <1>2, <1>3, <1>6, CoinsAreTold
  <1>9. Sum(v.native, DOMAIN v.native) = -v.fees
    BY <1>8, FoldIsSum, Zenon
  <1>10. DOMAIN jettons = {"wallet", "bob"}
    BY DEF Gains
  <1>11. \A a \in {"wallet", "bob"} : Gained(v.jettons, a, "jetton") = jettons[a]
    BY <1>1, <1>3, <1>6, JettonsAreTold, SameGained
  <1>12. Told(v)
    BY <1>1, <1>7, <1>8, <1>9, <1>10, <1>11 DEF Told
  <1>. QED BY <1>12 DEF v

\* How deep the provider's numbers say it is.
LEMMA DepthIsTold ==
  ASSUME Tree, NEW trace, Reply(trace), T!Settled(trace), NEW tip \in 0..head
  PROVE  DeepAsTold(T!Max({tip - T!SeqnoOf(trace), 0}))
  <1> DEFINE D == DOMAIN chain
             A == {chain[p].at : p \in D}
             N == {trace.txs[p].seqno : p \in D}
  <1>1. DOMAIN trace.txs = D /\ ~T!Running /\ T!Committed = D /\ <<>> \in D
    BY SettledReply DEF Reply
  <1>2. head \in Nat /\ head \in Int /\ RefLag \in Nat /\ tip \in Int /\ tip <= head
    BY TonMCAssumption DEF Tree
  <1>3. ASSUME NEW p \in D
        PROVE  /\ chain[p].at \in Nat /\ chain[p].at <= head
               /\ trace.txs[p].seqno \in Nat /\ trace.txs[p].seqno <= head
               /\ chain[p].at - RefLag <= trace.txs[p].seqno
    <2>1. chain[p].at \in Nat /\ chain[p].at <= head
      BY DEF Tree, Grown, Transactions
    <2>2. Numbered(trace.txs[p].seqno, chain[p].at) /\ trace.txs[p].seqno > 0
      BY <1>1 DEF Reply, T!Settled
    <2> DEFINE n == trace.txs[p].seqno
               at == chain[p].at
    <2>3. n \in Nat /\ n <= at /\ at - RefLag <= n
      BY <2>2 DEF Numbered
    <2> HIDE DEF n, at
    <2>4. n <= head
      BY <1>2, <2>1, <2>3 DEF at
    <2>. QED BY <2>1, <2>3, <2>4 DEF n, at
  <1>4. T!Max(A) \in A /\ \A x \in A : x <= T!Max(A)
    <2>1. A \in SUBSET Int /\ A # {}
      BY <1>1, <1>3
    <2>2. \A x \in A : x <= head
      BY <1>3
    <2> HIDE DEF A
    <2>. QED BY <1>2, <2>1, <2>2, MaxIs
  <1>5. T!Max(N) \in N /\ \A x \in N : x <= T!Max(N)
    <2>1. N \in SUBSET Int /\ N # {}
      BY <1>1, <1>3
    <2>2. \A x \in N : x <= head
      BY <1>3
    <2> HIDE DEF N
    <2>. QED BY <1>2, <2>1, <2>2, MaxIs
  <1> DEFINE a == T!Max(A)
             n == T!Max(N)
             d == T!Max({tip - n, 0})
  <1>6. a \in Nat /\ n \in Nat /\ a <= head /\ a - RefLag <= n
    <2>1. PICK p \in D : a = chain[p].at
      BY <1>4
    <2>2. trace.txs[p].seqno <= n
      BY <1>5
    <2>3. n \in Nat
      BY <1>3, <1>5
    <2> HIDE DEF a, n
    <2>. QED BY <1>2, <1>3, <2>1, <2>2, <2>3
  <1> HIDE DEF n, a
  <1>7. tip - n \in Int
    BY <1>2, <1>6
  <1>8. d \in {tip - n, 0}
    <2> DEFINE S == {tip - n, 0}
    <2>1. S \in SUBSET Int /\ S # {}
      BY <1>7
    <2>2. \A x \in S : x <= head
      BY <1>2, <1>6, <1>7
    <2> HIDE DEF S
    <2>3. T!Max(S) \in S
      BY <1>2, <2>1, <2>2, MaxIs
    <2>. QED BY <2>3 DEF S
  <1>9. d \in Int /\ d <= head - a + RefLag
    <2> HIDE DEF d
    <2>. QED BY <1>2, <1>6, <1>8
  <1>10. T!SeqnoOf(trace) = n
    BY <1>1 DEF T!SeqnoOf, n
  <1>11. T!Ended
    BY <1>1 DEF T!Ended
  <1>. QED BY <1>9, <1>10, <1>11 DEF DeepAsTold, a

\* What was read is whole, final, and nothing was told of it yet.
ReadIsWhole == read # T!Unasked => answer = T!Unasked /\ Reply(read) /\ T!Settled(read)

LEMMA ReadStaysWhole ==
  ASSUME Tree, ReadIsWhole, T!Next \/ UNCHANGED traceVars
  PROVE  ReadIsWhole'
  <1> SUFFICES ASSUME read' # T!Unasked' PROVE answer' = T!Unasked' /\ Reply(read)' /\ T!Settled(read)'
    BY DEF ReadIsWhole
  <1>1. T!Unasked' = T!Unasked
    BY DEF T!Unasked
  <1>2. CASE T!Ask /\ \E trace \in T!Traces : T!ReadTrace(trace)
    <2>1. PICK trace \in T!Traces : T!ReadTrace(trace)
      BY <1>2
    <2>2. T!Settled(trace) /\ read' = trace /\ UNCHANGED chain /\ answer' = T!Unasked
      BY <1>2, <2>1 DEF T!ReadTrace, T!Ask
    <2>3. Reply(trace)
      BY TracesAreReplies
    <2>. QED BY <1>1, <2>2, <2>3 DEF Reply, T!Settled
  <1>3. CASE ~(T!Ask /\ \E trace \in T!Traces : T!ReadTrace(trace))
    <2>1. ~T!ReadHead
      BY <1>1 DEF T!ReadHead
    <2>2. UNCHANGED read
      BY <1>3, <2>1 DEF T!Next, T!Start, T!Take, T!Execute, T!Block, T!Replace, T!Ask,
                        T!GetAccountTransfers, T!Emulate, traceVars
    <2>3. answer = T!Unasked /\ Reply(read) /\ T!Settled(read)
      BY <1>1, <2>2 DEF ReadIsWhole
    <2>4. UNCHANGED chain
      <3>1. ~T!Running /\ T!Committed = DOMAIN chain
        BY <2>3, SettledReply
      <3>. QED BY <3>1, EndedIsFrozen
    <2>5. UNCHANGED answer
      BY <1>1, <1>3, <2>1, <2>2 DEF T!Next, T!Start, T!Take, T!Execute, T!Block, T!Replace,
                                    T!Ask, T!GetAccountTransfers, T!Emulate, traceVars
    <2>. QED BY <1>1, <2>2, <2>3, <2>4, <2>5 DEF Reply, T!Settled
  <1>. QED BY <1>2, <1>3

\* A block commits, and changes nothing that a request did.
LEMMA BlockLeavesDone ==
  ASSUME Tree, T!Block, <<>> \in DOMAIN chain
  PROVE  T!DidWhatItWasSignedFor' <=> T!DidWhatItWasSignedFor
  <1>1. /\ DOMAIN chain' = DOMAIN chain
        /\ \A p \in DOMAIN chain :
              /\ chain'[p].in = chain[p].in /\ chain'[p].outs = chain[p].outs
              /\ chain'[p].compute = chain[p].compute /\ chain'[p].action = chain[p].action
              /\ chain'[p].skipped = chain[p].skipped /\ chain'[p].aborted = chain[p].aborted
    BY BlockNumbers
  <1>2. \A p : T!Kept(p)' <=> T!Kept(p)
    BY <1>1 DEF T!Kept
  <1>3. \A p : T!ChildrenOf(chain, p)' = T!ChildrenOf(chain, p) /\ T!ChildrenOf(chain, p) \subseteq DOMAIN chain
    BY <1>1 DEF T!ChildrenOf
  <1>4. \A p : T!Landed(p)' <=> T!Landed(p)
    BY <1>1, <1>2, <1>3 DEF T!Landed
  <1>5. T!relayTargets(chain)' = T!relayTargets(chain) /\ T!relayTargets(chain) \subseteq DOMAIN chain
    BY <1>1, <1>3 DEF T!relayTargets
  <1>. QED BY <1>1, <1>2, <1>4, <1>5 DEF T!DidWhatItWasSignedFor

\* When the last transaction of a committed trace was committed.
LEMMA LastBlockIsOne ==
  ASSUME Tree, <<>> \in DOMAIN chain
  PROVE  T!Max({chain[p].at : p \in DOMAIN chain}) \in Int
  <1> DEFINE A == {chain[p].at : p \in DOMAIN chain}
  <1>1. \A p \in DOMAIN chain : chain[p].at \in Nat /\ chain[p].at <= head
    BY DEF Tree, Grown, Transactions
  <1>2. A \in SUBSET Int /\ A # {} /\ head \in Int
    BY <1>1 DEF Tree
  <1>3. \A x \in A : x <= head
    BY <1>1
  <1> HIDE DEF A
  <1>4. T!Max(A) \in A
    BY <1>2, <1>3, MaxIs
  <1>. QED BY <1>2, <1>4 DEF A

LEMMA RootOfEnded ==
  ASSUME Tree, ~T!Running
  PROVE  chain # T!NoChanges /\ <<>> \in DOMAIN chain
  <1>1. chain # T!NoChanges
    BY DEF T!Running
  <1>2. DOMAIN chain # {}
    <2>1. chain = [p \in DOMAIN chain |-> chain[p]]
      BY DEF Tree
    <2>. QED BY <1>1, <2>1 DEF T!NoChanges
  <1>3. T!Closed(DOMAIN chain) /\ DOMAIN chain \in SUBSET Seq(Nat)
    BY TreeIsClosed DEF Tree
  <1>. QED BY <1>1, <1>2, <1>3, RootIsIn

\* What was told of a committed trace is not undone: the head moves on.
LEMMA LaterIsDeeper ==
  ASSUME NEW d \in Int, NEW a \in Int, NEW r \in Int, NEW h \in Int, NEW k \in Int, h <= k, d <= h - a + r
  PROVE  d <= k - a + r
  OBVIOUS

LEMMA DepthStays ==
  ASSUME Tree, NEW depth, DeepAsTold(depth), T!Next \/ UNCHANGED traceVars
  PROVE  DeepAsTold(depth)'
  <1> DEFINE a == T!Max({chain[p].at : p \in DOMAIN chain})
  <1>1. ~T!Running /\ T!Committed = DOMAIN chain /\ depth \in Int /\ depth <= head - a + RefLag
    BY DEF DeepAsTold, T!Ended
  <1>2. /\ UNCHANGED chain /\ head' \in Nat /\ head <= head'
        /\ ~T!Running' /\ T!Committed' = DOMAIN chain'
    BY <1>1, EndedIsFrozen
  <1>3. a \in Int
    BY <1>1, RootOfEnded, LastBlockIsOne
  <1>4. a' = a
    BY <1>2
  <1> HIDE DEF a
  <1>5. head \in Nat /\ RefLag \in Nat
    BY TonMCAssumption DEF Tree
  <1>6. depth <= head' - a + RefLag
    <2>1. head \in Int /\ head' \in Int /\ RefLag \in Int
      BY <1>2, <1>5
    <2>. QED BY <1>1, <1>2, <1>3, <2>1, LaterIsDeeper
  <1>7. depth \in Int /\ depth <= head' - a' + RefLag
    BY <1>1, <1>4, <1>6
  <1>8. T!Ended'
    BY <1>2 DEF T!Ended
  <1>. QED BY <1>7, <1>8 DEF DeepAsTold, a

\* What was told stays true of a chain whose transactions stay, whatever commits.
LEMMA ToldStays ==
  ASSUME Tree, NEW v, Told(v), T!Next \/ UNCHANGED traceVars, ~T!Replace
  PROVE  Told(v)'
  <1>1. ~T!Running /\ chain # T!NoChanges /\ <<>> \in DOMAIN chain /\ T!Pending(chain) = {}
    BY RootOfEnded DEF Told, T!Running
  <1>2. ~T!Start
    BY <1>1, StartIsExecute
  <1>3. ~T!Take
    BY <1>1 DEF T!Take
  <1>4. CASE T!Block
    <2>1. UNCHANGED <<coins, jettons>>
      BY <1>4 DEF T!Block
    <2>2. T!DidWhatItWasSignedFor' <=> T!DidWhatItWasSignedFor
      BY <1>1, <1>4, BlockLeavesDone
    <2>3. DOMAIN chain' = DOMAIN chain /\ \A p \in DOMAIN chain : chain'[p].outs = chain[p].outs
      BY <1>4, BlockNumbers
    <2>4. T!Pending(chain)' = {}
      <3>1. \A q \in DOMAIN chain : \A i \in DOMAIN chain[q].outs : Append(q, i) \in DOMAIN chain
        <4> SUFFICES ASSUME NEW q \in DOMAIN chain, NEW i \in DOMAIN chain[q].outs
                     PROVE  Append(q, i) \in DOMAIN chain
          OBVIOUS
        <4>1. Append(q, i) \in DOMAIN chain \/ Append(q, i) \in T!Pending(chain)
          BY DEF T!Pending
        <4>. QED BY <1>1, <4>1
      <3>2. SUFFICES ASSUME NEW p \in T!Pending(chain)' PROVE FALSE
        OBVIOUS
      <3>3. p \notin DOMAIN chain' /\ \E q \in DOMAIN chain' : \E i \in DOMAIN chain'[q].outs : p = Append(q, i)
        BY DEF T!Pending
      <3>. QED BY <2>3, <3>1, <3>3
    <2>5. chain' # T!NoChanges
      BY <1>1, <2>3 DEF T!NoChanges
    <2>6. ~T!Running'
      BY <1>1, <2>4, <2>5 DEF T!Running, T!NoChanges
    <2>. QED BY <2>1, <2>2, <2>6, Zenon DEF Told
  <1>5. CASE UNCHANGED <<chain, coins, jettons>>
    <2>1. T!Running' <=> T!Running
      BY <1>5 DEF T!Running, T!NoChanges, T!Pending
    <2>2. T!DidWhatItWasSignedFor' <=> T!DidWhatItWasSignedFor
      BY <1>5 DEF T!DidWhatItWasSignedFor, T!Kept, T!Landed, T!ChildrenOf, T!relayTargets
    <2>. QED BY <1>5, <2>1, <2>2, Zenon DEF Told
  <1>. QED BY <1>2, <1>3, <1>4, <1>5
       DEF T!Next, T!Ask, T!GetAccountTransfers, T!ReadTrace, T!ReadHead, T!Emulate, traceVars

LEMMA JudgedStays ==
  ASSUME Tree, Judged, T!Next \/ UNCHANGED traceVars, UNCHANGED answer
  PROVE  Judged'
  <1>1. PICK v : v = answer
    OBVIOUS
  <1>2. answer' = v
    BY <1>1
  <1>3. ASSUME v.kind = "status" PROVE Told(v)' /\ DeepAsTold(v.depth)'
    <2>1. Told(v) /\ DeepAsTold(v.depth)
      BY <1>1, <1>3 DEF Judged
    <2>2. ~T!Replace
      BY <2>1 DEF DeepAsTold, T!Ended, T!Replace
    <2>. QED BY <2>1, <2>2, ToldStays, DepthStays
  <1>4. ASSUME v.kind = "emulation" PROVE Told(v)'
    <2>1. Told(v)
      BY <1>1, <1>4 DEF Judged
    <2>2. ~T!Replace
      BY <1>1, <1>4 DEF T!Replace
    <2>. QED BY <2>1, <2>2, ToldStays
  <1>. QED BY <1>2, <1>3, <1>4 DEF Judged

LEMMA JudgedNext ==
  ASSUME Tree, Tree', Gains, Gains', ReadIsWhole, Judged, T!Next \/ UNCHANGED traceVars
  PROVE  Judged'
  <1>1. CASE UNCHANGED answer
    BY <1>1, JudgedStays
  <1>2. CASE \E trace \in T!Traces : T!GetAccountTransfers(trace)
    <2>1. answer'.kind = "transfers"
      BY <1>2 DEF T!GetAccountTransfers
    <2>. QED BY <2>1 DEF Judged
  <1>3. CASE T!ReadHead /\ ~UNCHANGED answer
    <2>1. PICK tip \in 0..head, minDepth \in MinDepths :
            LET depth == T!Max({tip - T!SeqnoOf(read), 0})
            IN  answer' = IF depth < minDepth THEN T!Unasked ELSE T!fromTrace(read, depth)
      BY <1>3 DEF T!ReadHead
    <2> DEFINE depth == T!Max({tip - T!SeqnoOf(read), 0})
               v == T!fromTrace(read, depth)
    <2>2. answer = T!Unasked /\ Reply(read) /\ T!Settled(read)
      BY <1>3 DEF ReadIsWhole, T!ReadHead
    <2>3. read.complete
      BY <2>2 DEF T!Settled
    <2>4. Told(v)
      BY <2>2, <2>3, ToldOfWhole
    <2>5. DeepAsTold(depth)
      BY <2>2, DepthIsTold
    <2>6. v.kind = "status" /\ v.depth = depth
      BY DEF T!fromTrace
    <2>7. answer' = v
      <3> HIDE DEF v, depth
      <3>1. answer' = T!Unasked \/ answer' = v
        BY <2>1 DEF v, depth
      <3>. QED BY <1>3, <2>2, <3>1
    <2> HIDE DEF v, depth
    <2>8. PICK w : w = v
      OBVIOUS
    <2>9. PICK d : d = depth
      OBVIOUS
    <2>10. Told(w) /\ DeepAsTold(d) /\ answer' = w /\ w.kind = "status" /\ w.depth = d
      BY <2>4, <2>5, <2>6, <2>7, <2>8, <2>9
    <2>11. Told(w)' /\ DeepAsTold(d)'
      <3>1. ~T!Replace
        BY <2>10 DEF DeepAsTold, T!Ended, T!Replace
      <3>. QED BY <2>10, <3>1, ToldStays, DepthStays
    <2>. QED BY <2>10, <2>11 DEF Judged
  <1>4. CASE T!Emulate
    <2>1. PICK trace \in {t \in T!Emulations : t.kind = "trace"} :
            answer' = [T!fromTrace(trace, 0) EXCEPT !.kind = "emulation"]
      BY <1>4 DEF T!Emulate
    <2>2. chain # T!NoChanges /\ UNCHANGED <<chain, head, coins, jettons>>
      BY <1>4 DEF T!Emulate, T!Running
    <2>3. Reply(trace) /\ trace.complete
      BY <2>1, <2>2, EmulationsAreReplies
    <2> DEFINE v == T!fromTrace(trace, 0)
    <2>4. Told(v)
      BY <2>3, ToldOfWhole
    <2>5. /\ answer'.kind = "emulation" /\ answer'.verdict = v.verdict /\ answer'.native = v.native
          /\ answer'.fees = v.fees /\ answer'.jettons = v.jettons
      BY <2>1 DEF T!fromTrace
    <2> HIDE DEF v
    <2>6. PICK w : w = answer'
      OBVIOUS
    <2>7. Told(w)
      BY <2>4, <2>5, <2>6 DEF Told
    <2>8. ~T!Replace
      BY <2>5 DEF T!Replace
    <2>9. Told(w)'
      BY <2>7, <2>8, ToldStays
    <2>. QED BY <2>5, <2>6, <2>9 DEF Judged
  <1>. QED BY <1>1, <1>2, <1>3, <1>4
       DEF T!Next, T!Start, T!Take, T!Execute, T!Block, T!Replace, T!Ask, T!ReadTrace, traceVars

\* What was told of a request is true: Success only of one that did what it was signed
\* for and Failed only of one that did not, of a trace that ended and, but for an
\* emulation, is committed as deep as it says, with the fees and the changes of TON and
\* of jettons that its transactions made, whatever the providers left out or altered.
THEOREM VerdictsAreTrue == MCSpec => []VerdictIsTrue
  <1> DEFINE Inv == Tree /\ Gains /\ ReadIsWhole /\ Judged
  <1>1. MCInit => Inv
    <2> SUFFICES ASSUME MCInit PROVE Inv
      OBVIOUS
    <2>1. Tree /\ Gains
      BY TreeAtFirst, GainsAtFirst DEF MCInit
    <2>2. answer.kind = "unasked" /\ read = T!Unasked
      BY DEF MCInit, T!Init, T!Unasked
    <2>. QED BY <2>1, <2>2 DEF ReadIsWhole, Judged
  <1>2. Inv /\ [MCNext]_<<scene, vars, traceVars>> => Inv'
    <2> SUFFICES ASSUME Inv, [MCNext]_<<scene, vars, traceVars>> PROVE Inv'
      OBVIOUS
    <2>1. T!Next \/ UNCHANGED traceVars
      BY TraceStep
    <2>2. Tree' /\ Gains' /\ ReadIsWhole'
      BY <2>1, TreeStays, GainsStay, ReadStaysWhole
    <2>. QED BY <2>1, <2>2, JudgedNext
  <1>3. Inv => VerdictIsTrue
    BY JudgedIsTrue DEF VerdictIsTrue
  <1>. QED BY <1>1, <1>2, <1>3, PTL DEF MCSpec
=============================================================================
