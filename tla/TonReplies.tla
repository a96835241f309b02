----------------------------- MODULE TonReplies -----------------------------
(***************************************************************************)
(* How the SDK reads a TON provider's reply to a broadcast: tonHttpJson,   *)
(* then tonBroadcastReply, then the provider's sendBoc (ton/ton_provider.ts*)
(* and ton/ton_toncenter.ts; TonAPI's sendBoc is the same code).           *)
(*                                                                         *)
(* A reply is abstracted to what the code tells apart: the status class,   *)
(* and the one thing its text says.  Wording is left out; the regular      *)
(* expressions that read it are the membership tests below.                *)
(***************************************************************************)

\* What a reply's text says.  "duplicate" and the refusals are the lite
\* server's words, the exit codes those of the wallet contracts; "code0" is
\* a refusal whose exit code is none of the listed ones, or absent.
Refusals == {"beforeExecution", "exit133", "exit33", "exit35", "exit36", "code0"}
Texts == {"plain", "error", "nonJson", "duplicate"} \cup Refusals

\* "none": fetch itself failed (connection, timeout, redirect).
\* "lost": the headers came, the body did not.
Replies == [status : {"none", "lost", "404"}, text : {"plain"}]
             \cup [status : {"2xx", "4xx", "429", "5xx"}, text : Texts]

-----------------------------------------------------------------------------
(* The ways a promise of the code below settles.                           *)

Outcome(kind, retryable, text) ==
  [kind |-> kind, retryable |-> retryable, text |-> text]

Resolved(payload) == Outcome(payload, FALSE, "plain")

\* A TonProviderError carries its message, which tonBroadcastReply searches.
ProviderError(retryable, text) == Outcome("RpcError", retryable, text)

\* tonHttpJson.  A 404 is null whatever the request was.  The body is read
\* outside the try: when that fails the caller gets fetch's own error.  An
\* unreadable body keeps none of its text in the error.
TonHttpJson(reply) ==
  IF reply.status = "none" THEN ProviderError(TRUE, "plain")
  ELSE IF reply.status = "lost" THEN Outcome("raw", FALSE, "plain")
  ELSE IF reply.status = "404" THEN Resolved("null")
  ELSE IF reply.status \in {"429", "5xx"} THEN ProviderError(TRUE, reply.text)
  ELSE IF reply.text = "nonJson" THEN ProviderError(TRUE, "plain")
  ELSE IF reply.status = "4xx" THEN ProviderError(FALSE, reply.text)
  ELSE Outcome("payload", FALSE, reply.text)

SeqnoMovedExitCodes == {"exit133", "exit33"}

MaybeLandedExitCodes == {"exit35", "exit36"}

\* Slip: an account that cannot pay taken for a definite refusal.
OnlyExitCodesSayNothing(text) == text \in MaybeLandedExitCodes
\* Refusals that do not rule out that the message landed earlier.
SaysNothingOfLanding(text) == text = "beforeExecution" \/ text \in MaybeLandedExitCodes

\* tonBroadcastReply: what the lite server said decides, not the status.
TonBroadcastReply(result) ==
  LET definite(kind) == Outcome(kind, FALSE, "plain") IN
  IF result.kind # "RpcError" THEN result
  ELSE IF result.text = "duplicate" THEN Resolved("payload")
  ELSE IF SaysNothingOfLanding(result.text) THEN definite("BroadcastUncertain")
  ELSE IF result.text \in SeqnoMovedExitCodes THEN definite("NonceTooLow")
  ELSE IF result.text \in Refusals THEN definite("BroadcastRejected")
  ELSE result

\* sendBoc: an error field in a 2xx reply is a definite refusal.  A null (404)
\* has no error field.
SendBoc(reply) ==
  LET result == TonBroadcastReply(TonHttpJson(reply)) IN
  IF result.kind = "payload" /\ result.text # "plain"
    THEN Outcome("BroadcastRejected", FALSE, "plain")
  ELSE IF result.kind \in {"payload", "null"}
    THEN Outcome("sent", FALSE, "plain")
  ELSE result
=============================================================================
