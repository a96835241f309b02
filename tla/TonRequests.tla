---------------------------- MODULE TonRequests ----------------------------
(***************************************************************************)
(* One TON wallet, the requests it signs, and what the SDK tells its       *)
(* caller about them: TonWallet (sign), TonChain.broadcast over            *)
(* TonFallbackProvider.sendBoc, TonChain.getRequestState over one          *)
(* provider, and TonChain.getTransactionStatus.                            *)
(*                                                                         *)
(* The chain is the wallet contract's history.  Providers see it late; a   *)
(* read or a broadcast check runs on the state its provider holds, which   *)
(* may trail the head that provider reports.  Every await is a step of its *)
(* own, so the chain moves between any two reads of one call.              *)
(***************************************************************************)
EXTENDS Integers, Sequences, FiniteSets, TonReplies

CONSTANTS
  Requests,       \* signed requests; the wallet signs each at most once
  Payments,       \* what the caller wants paid, each once
  None,           \* no request
  Version,        \* "w5" (v5r1) or "legacy" (v3r2, v4r2)
  HasFallback,    \* TonChain was given a TonAPI endpoint
  TTL,            \* TON_DEFAULT_REQUEST_TTL_SECONDS
  ClockSkews,     \* this machine's clock minus the chain's
  Margin,         \* REQUEST_EXPIRY_MARGIN_SECONDS
  StateLag,       \* how far a provider's state trails its own head
  Drift,          \* how far a provider's head moves during one getRequestState
  RelayHashes,    \* the caller passes a relay's hash to getRequestState
  SignUntil,      \* bound: no request is signed after this time
  MaxTime         \* bound: the chain's time stops here

ASSUME TonAssumption ==
  /\ None \notin Requests
  /\ Version \in {"w5", "legacy"}
  /\ HasFallback \in BOOLEAN /\ RelayHashes \in BOOLEAN
  /\ ClockSkews \subseteq Int
  /\ {TTL, Margin, StateLag, Drift, SignUntil, MaxTime} \subseteq Nat

VARIABLES
  now,            \* time of the block being built
  view,           \* per provider: the time of its masterchain head
  ledger,         \* the requests that consumed the wallet's seqno, in order
  failedRuns,     \* relayed requests that ran, failed, and kept the seqno
  req,            \* per request: what was signed
  pool,           \* requests someone can deliver to the wallet
  sending,        \* per request: where its broadcast call stands
  handed,         \* requests whose running broadcast call reached the network
  returned,       \* what the last step's broadcast returned, if it returned
  call,           \* the getRequestState call in flight
  told            \* per request: the answers its caller has had and acts on

chainVars  == <<now, view, ledger, failedRuns>>
sendVars   == <<pool, sending, handed>>
callerVars == <<call, told>>
vars == <<chainVars, req, sendVars, callerVars, returned>>

Providers == {"primary"} \cup (IF HasFallback THEN {"fallback"} ELSE {})
Kinds == {"external", "internal"}
Answers == {"consumed", "expired", "failed", "rejected"}

Nothing == [outcome |-> "none"]
ReturnsNothing == returned' = Nothing

Unsigned == [kind |-> "none"]
Signed(r) == req[r].kind # "none"

-----------------------------------------------------------------------------
(* The wallet contract.  Its seqno is the number of requests it consumed.  *)

\* Entries of the history in the state as of time t.
Height(t) == Cardinality({i \in DOMAIN ledger : ledger[i].at <= t})
Landed(r, t) == \E i \in DOMAIN ledger : ledger[i].req = r /\ ledger[i].at <= t

\* The contracts refuse a request from valid_until on.
Lapsed(r, t) == t >= req[r].validUntil

\* The states a provider may answer from.
StatesOf(p) == {t \in 0..view[p] : t >= view[p] - StateLag}

CanLand(r) ==
  /\ r \in pool
  /\ ~Lapsed(r, now)
  /\ req[r].seqno = Len(ledger)

\* An external request consumes its seqno whether or not its message could be
\* sent: every message carries "ignore errors", so one that cannot be sent is
\* skipped.
Land(r, paid) ==
  /\ CanLand(r)
  /\ req[r].kind = "internal" => paid
  /\ ledger' = Append(ledger, [req |-> r, at |-> now, paid |-> paid])
  /\ UNCHANGED <<now, view, failedRuns, req, sendVars, callerVars>>
  /\ ReturnsNothing

\* Slip: an external request sent without "ignore errors".
MayFailWholeAnyway(r) == Signed(r)
\* Only a relayed W5 request keeps its send modes, so that its transaction can
\* fail as a whole: nothing is sent and the seqno stays.
MayFailWhole(r) == req[r].kind = "internal"

RunAndFail(r) ==
  /\ CanLand(r)
  /\ MayFailWhole(r)
  /\ failedRuns' = failedRuns \cup {r}
  /\ UNCHANGED <<now, view, ledger, req, sendVars, callerVars>>
  /\ ReturnsNothing

Tick ==
  /\ now < MaxTime
  /\ now' = now + 1
  /\ UNCHANGED <<view, ledger, failedRuns, req, sendVars, callerVars>>
  /\ ReturnsNothing

\* A provider learns of finished blocks; StateLag and Drift are what the
\* expiry margin is there to cover.
Advance(p) ==
  /\ view[p] < now - 1
  /\ (call.step \in {"trace", "head"} /\ call.on = p) => view[p] < call.from + Drift
  /\ view' = [view EXCEPT ![p] = @ + 1]
  /\ UNCHANGED <<now, ledger, failedRuns, req, sendVars, callerVars>>
  /\ ReturnsNothing

-----------------------------------------------------------------------------
(* The caller signs.                                                       *)

\* What getRequestState, broadcast and getTransactionStatus document as the
\* end of a request: signing the payment again is safe.
Settled(r) == told[r] \cap {"expired", "failed", "rejected"} # {}
MaySign(p) == \A r \in Requests : Signed(r) /\ req[r].payment = p => Settled(r)

\* createExternalRequest and createInternalRequest: validUntil by this
\* machine's clock, unless the caller gives one.
SignRequest(r, k, p, n) ==
  /\ ~Signed(r)
  /\ MaySign(p)
  /\ now <= SignUntil
  /\ k = "internal" => Version = "w5"
  /\ \E skew \in ClockSkews :
       req' = [req EXCEPT ![r] = [kind |-> k, payment |-> p, seqno |-> n,
                                  validUntil |-> now + TTL + skew]]
  /\ UNCHANGED <<chainVars, sendVars, callerVars>>
  /\ ReturnsNothing

\* TonWallet.signTransaction reads the seqno from the provider that answers.
SignTransaction(r, p) ==
  \E q \in Providers : \E t \in StatesOf(q) : SignRequest(r, "external", p, Height(t))

\* The caller may also pass a seqno: the live one for a relayed request, or
\* the one after a request still on its way.
SignAtSeqno(r, p) ==
  \E k \in Kinds, n \in {Len(ledger), Len(ledger) + 1} : SignRequest(r, k, p, n)

\* The caller wraps an internal request in a relayer's own request.
HandToRelayer(r) ==
  /\ req[r].kind = "internal"
  /\ r \notin pool
  /\ pool' = pool \cup {r}
  /\ UNCHANGED <<chainVars, req, sending, handed, callerVars>>
  /\ ReturnsNothing

-----------------------------------------------------------------------------
(* TonChain.broadcast.  The lite server runs the wallet on the state it    *)
(* holds before it gives a message to the network.                         *)

\* W5 checks the seqno before valid_until, the older wallets after it.
WalletVerdict(r, t) ==
  LET moved == req[r].seqno # Height(t) IN
  IF Version = "w5"
    THEN IF moved THEN "exit133" ELSE IF Lapsed(r, t) THEN "code0" ELSE "accept"
    ELSE IF Lapsed(r, t) THEN "exit36" ELSE IF moved THEN "exit33" ELSE "accept"

\* A message the network already has is refused as a duplicate, unless it was
\* forgotten; an account that cannot pay refuses before it runs.
Verdicts(r, p) ==
  {WalletVerdict(r, t) : t \in StatesOf(p)} \cup {"beforeExecution"}
    \cup (IF r \in pool THEN {"duplicate"} ELSE {})

\* What can come back when the answer of the lite server does not.
NoAnswer == [status : {"none", "lost"}, text : {"plain"}]
              \cup [status : {"2xx", "5xx"}, text : {"nonJson"}]
              \cup [status : {"5xx"}, text : {"plain"}]
\* A front end that passes nothing on.
TurnedAway == [status : {"404", "429", "4xx"}, text : {"plain"}]

\* The exchanges of one request to provider p: the reply, and whether the
\* provider gave the message to the network.
Exchanges(r, p) ==
  LET verdicts == Verdicts(r, p) IN
  [reply : NoAnswer \cup TurnedAway
             \cup [status : {"4xx", "5xx"}, text : verdicts \ {"accept"}],
   taken : {FALSE}]
  \cup IF "accept" \in verdicts
         THEN [reply : NoAnswer \cup [status : {"2xx"}, text : {"plain"}], taken : {TRUE}]
         ELSE {}

Tell(r, answer) == told' = [told EXCEPT ![r] = @ \cup {answer}]

\* The call settles: with the hash ("sent"), or with the kind of the error.
Return(r, outcome, taken) ==
  /\ sending' = [sending EXCEPT ![r] = "idle"]
  /\ handed' = handed \ {r}
  /\ returned' = [outcome |-> outcome, req |-> r, taken |-> taken \/ r \in handed]
  /\ IF outcome = "BroadcastRejected" THEN Tell(r, "rejected") ELSE UNCHANGED told

Broadcast(r) ==
  /\ req[r].kind = "external"
  /\ sending[r] = "idle"
  /\ ~Settled(r)
  /\ sending' = [sending EXCEPT ![r] = "primary"]
  /\ UNCHANGED <<chainVars, req, pool, handed, callerVars>>
  /\ ReturnsNothing

TakenInto(set, r, taken) == IF taken THEN set \cup {r} ELSE set

\* The primary's answer is final unless it failed without one.
SendPrimary(r) ==
  /\ sending[r] = "primary"
  /\ \E x \in Exchanges(r, "primary") :
       /\ pool' = TakenInto(pool, r, x.taken)
       /\ LET outcome == SendBoc(x.reply) IN
          IF outcome.retryable /\ HasFallback
            THEN /\ sending' = [sending EXCEPT ![r] = "fallback"]
                 /\ handed' = TakenInto(handed, r, x.taken)
                 /\ UNCHANGED told
                 /\ ReturnsNothing
            ELSE Return(r, IF outcome.retryable THEN "BroadcastUncertain" ELSE outcome.kind, x.taken)
  /\ UNCHANGED <<chainVars, req, call>>

\* Slip: the fallback's refusal taken for the answer.
AsFallbackSays(outcome) == outcome.kind
\* Once the primary failed without an answer, no refusal is definite.
AfterFallback(outcome) == IF outcome.kind = "sent" THEN "sent" ELSE "BroadcastUncertain"

SendFallback(r) ==
  /\ sending[r] = "fallback"
  /\ \E x \in Exchanges(r, "fallback") :
       /\ pool' = TakenInto(pool, r, x.taken)
       /\ Return(r, AfterFallback(SendBoc(x.reply)), x.taken)
  /\ UNCHANGED <<chainVars, req, call>>

-----------------------------------------------------------------------------
(* TonChain.getRequestState: the seqno, the trace of the hash if one was   *)
(* passed, then the head, all from one provider.                           *)

NoCall == [step |-> "idle"]

Ask(r, h) ==
  /\ call = NoCall
  /\ Signed(r)
  /\ ~Settled(r)
  /\ h \in {None, r}
  /\ h = r => req[r].kind = "external" \/ RelayHashes
  /\ call' = [step |-> "seqno", req |-> r, hash |-> h, on |-> "primary", from |-> 0]
  /\ UNCHANGED <<chainVars, req, sendVars, told>>
  /\ ReturnsNothing

Answer(answer) == call' = NoCall /\ Tell(call.req, answer)
Continue(next) == call' = next /\ UNCHANGED told

\* Slip: a request at the wallet's own seqno taken for one it consumed.
ReachedSeqno(height, n) == height >= n
MovedPast(height, n) == height > n

ReadSeqno ==
  /\ call.step = "seqno"
  /\ \E t \in StatesOf(call.on) :
       IF MovedPast(Height(t), req[call.req].seqno)
         THEN Answer("consumed")
         ELSE Continue([call EXCEPT !.step = IF call.hash = None THEN "head" ELSE "trace",
                                    !.from = view[call.on]])
  /\ UNCHANGED <<chainVars, req, sendVars>>
  /\ ReturnsNothing

\* A relay's trace starts at the relayer's own request.
HasTrace(h, t) == IF req[h].kind = "external" THEN Landed(h, t) ELSE h \in pool

\* A trace that starts at another wallet is refused, but one still running may
\* not hold its root yet, and then nothing is compared.
ReadTrace ==
  /\ call.step = "trace"
  /\ \E t \in StatesOf(call.on), rooted \in BOOLEAN :
       IF ~HasTrace(call.hash, t) THEN Continue([call EXCEPT !.step = "head"])
       ELSE IF rooted /\ req[call.hash].kind = "internal" THEN Continue(NoCall)
       ELSE Answer("consumed")
  /\ UNCHANGED <<chainVars, req, sendVars>>
  /\ ReturnsNothing

\* Slips: this machine's clock, and milliseconds for seconds.
ExpiredByLocalClock(head, validUntil) == now > validUntil + Margin
ExpiredInMilliseconds(head, validUntil) == head > 1000 * (validUntil + Margin)
ExpiredAt(head, validUntil) == head > validUntil + Margin

\* "live" tells the caller nothing to keep.
ReadHead ==
  /\ call.step = "head"
  /\ IF ExpiredAt(view[call.on], req[call.req].validUntil)
       THEN Answer("expired")
       ELSE Continue(NoCall)
  /\ UNCHANGED <<chainVars, req, sendVars>>
  /\ ReturnsNothing

\* Slip: the retry goes on where the primary stopped.
ResumeCall ==
  IF HasFallback /\ call.on = "primary" THEN [call EXCEPT !.on = "fallback"] ELSE NoCall
\* A read that failed without an answer: all of them again on the fallback.
RetryCall ==
  IF HasFallback /\ call.on = "primary"
    THEN [call EXCEPT !.step = "seqno", !.on = "fallback", !.from = 0]
    ELSE NoCall

ReadFails ==
  /\ call # NoCall
  /\ Continue(RetryCall)
  /\ UNCHANGED <<chainVars, req, sendVars>>
  /\ ReturnsNothing

-----------------------------------------------------------------------------
(* TonChain.getTransactionStatus of an external request.  Only a final     *)
(* Failed lets the caller go on; a relay's status says nothing final about *)
(* the internal request it carried.                                        *)

\* Slip: the relay's failure taken for the end of the request it carried.
RunFailed(r, t) ==
  \/ \E i \in DOMAIN ledger : ledger[i].req = r /\ ledger[i].at <= t /\ ~ledger[i].paid
  \/ r \in failedRuns
StatusFailed(r, t) ==
  /\ req[r].kind = "external"
  /\ \/ \E i \in DOMAIN ledger : ledger[i].req = r /\ ledger[i].at <= t /\ ~ledger[i].paid
     \/ r \in failedRuns

ReadStatus(r) ==
  /\ \E p \in Providers : \E t \in StatesOf(p) : StatusFailed(r, t)
  /\ Tell(r, "failed")
  /\ UNCHANGED <<chainVars, req, sendVars, call>>
  /\ ReturnsNothing

-----------------------------------------------------------------------------
Init ==
  /\ now = 1
  /\ view = [p \in Providers |-> 0]
  /\ ledger = <<>>
  /\ failedRuns = {}
  /\ req = [r \in Requests |-> Unsigned]
  /\ pool = {}
  /\ sending = [r \in Requests |-> "idle"]
  /\ handed = {}
  /\ returned = Nothing
  /\ call = NoCall
  /\ told = [r \in Requests |-> {}]

Network ==
  \/ Tick
  \/ \E p \in Providers : Advance(p)
  \/ \E r \in Requests : \/ \E paid \in BOOLEAN : Land(r, paid)
                          \/ RunAndFail(r)

Caller ==
  \E r \in Requests :
    \/ \E p \in Payments : SignTransaction(r, p) \/ SignAtSeqno(r, p)
    \/ HandToRelayer(r)
    \/ Broadcast(r) \/ SendPrimary(r) \/ SendFallback(r)
    \/ \E h \in {None, r} : Ask(r, h)
    \/ ReadStatus(r)

RequestState == ReadSeqno \/ ReadTrace \/ ReadHead \/ ReadFails

Next == Network \/ Caller \/ RequestState

Spec == Init /\ [][Next]_vars

\* Time passes, providers keep up, and a caller who keeps asking about a
\* request keeps getting answers: a read may fail often, but not every time.
Fairness ==
  /\ WF_vars(Tick)
  /\ \A p \in Providers : SF_vars(Advance(p))
  /\ \A r \in Requests :
       /\ SF_vars(Ask(r, None))
       /\ SF_vars(ReadSeqno /\ call.req = r)
       /\ SF_vars(ReadTrace /\ call.req = r)
       /\ SF_vars(ReadHead /\ call.req = r)

FairSpec == Spec /\ Fairness

-----------------------------------------------------------------------------
(* Properties.                                                             *)

Outcomes ==
  {"sent", "raw", "RpcError", "NonceTooLow", "BroadcastRejected", "BroadcastUncertain"}
Request == [kind : Kinds, payment : Payments, seqno : Nat, validUntil : Int]

\* Every variable holds a value of its kind; a ledger holds only requests of
\* this wallet, and a provider has never seen the block still being built.
TypeOK ==
  /\ now \in Nat \ {0}
  /\ view \in [Providers -> Nat]
  /\ ledger \in Seq([req : Requests, at : Nat, paid : BOOLEAN])
  /\ failedRuns \in SUBSET Requests
  /\ req \in [Requests -> Request \cup {Unsigned}]
  /\ pool \in SUBSET Requests
  /\ sending \in [Requests -> {"idle", "primary", "fallback"}]
  /\ handed \in SUBSET Requests
  /\ returned \in {Nothing} \cup [outcome : Outcomes, req : Requests, taken : BOOLEAN]
  /\ call \in {NoCall} \cup [step : {"seqno", "trace", "head"}, req : Requests,
                             hash : Requests \cup {None}, on : Providers, from : Nat]
  /\ told \in [Requests -> SUBSET Answers]

\* A caller who signs a payment again only when the SDK has said that is safe
\* (getRequestState "expired", a status Failed of its own request, or a
\* definite BroadcastRejected) never pays it twice.
PaidOnce ==
  \A i, j \in DOMAIN ledger :
    /\ ledger[i].paid /\ ledger[j].paid
    /\ req[ledger[i].req].payment = req[ledger[j].req].payment
    => i = j

\* getRequestState: an "expired" request "can never execute".
ExpiredNeverLands ==
  \A r \in Requests : "expired" \in told[r] => ~Landed(r, now) /\ ~CanLand(r)

\* tonBroadcastReply: BroadcastRejected is definite, so a request refused so
\* has not landed and will not, whatever an earlier broadcast of it did.
RejectedNeverLands ==
  \A r \in Requests : "rejected" \in told[r] => ~Landed(r, now) /\ ~CanLand(r)

\* Both of the answers after which a caller may sign anew are final.
AnswersAreFinal == ExpiredNeverLands /\ RejectedNeverLands

\* getTransactionStatus: an external request reported Failed will not pay
\* later; its seqno is gone, "ignore errors" saw to that.
FailedNeverPays ==
  \A r \in Requests :
    "failed" \in told[r] =>
      /\ ~CanLand(r)
      /\ \A i \in DOMAIN ledger : ledger[i].req = r => ~ledger[i].paid

\* getRequestState: "consumed" means the wallet's seqno has moved past the
\* request's.
ConsumedIsPast ==
  \A r \in Requests : "consumed" \in told[r] => Len(ledger) > req[r].seqno

\* TonFallbackProvider.sendBoc: when a broadcast ends with a definite refusal
\* no provider it asked gave the message to the network.
DefiniteRefusalSentNothing ==
  returned.outcome \in {"RpcError", "NonceTooLow", "BroadcastRejected"} => ~returned.taken

\* The caller of getRequestState always learns the end of a request it signed:
\* no request stays "live" for good.
IsDecided(r) == Signed(r) ~> told[r] \cap Answers # {}
Decided == \A r \in Requests : IsDecided(r)

-----------------------------------------------------------------------------
(* The abstract specification.  A request holds its payment while it can   *)
(* still be delivered, now or later.                                       *)

CanStillLand(r) == Signed(r) /\ ~Lapsed(r, now) /\ req[r].seqno >= Len(ledger)

Holders == [p \in Payments |-> {r \in Requests : CanStillLand(r) /\ req[r].payment = p}]
Times ==
  [p \in Payments |-> Cardinality({i \in DOMAIN ledger :
                                    ledger[i].paid /\ req[ledger[i].req].payment = p})]

Promise == INSTANCE PaymentOnce WITH holders <- Holders, times <- Times

\* Whatever the chain and the providers do, signing, delivery and expiry
\* behave as PaymentOnce says.
PaysAtMostOnce == Promise!Spec

-----------------------------------------------------------------------------
(* What the documentation says and the code does not keep (see README).    *)

\* ton_chain.ts, broadcast: it throws TonBroadcastUncertainError "when the
\* message may have reached the network anyway".  A body lost after the
\* headers arrive surfaces as fetch's own error instead.
OtherErrorsSentNothing ==
  returned.outcome \in {"raw", "RpcError", "NonceTooLow", "BroadcastRejected"} => ~returned.taken
=============================================================================
