------------------------------- MODULE TVWebhook -------------------------------
(***************************************************************************)
(* core/ingestion/tv_webhook.py: the token bucket and the request handler  *)
(* of the TradingView webhook.                                             *)
(*                                                                         *)
(* Tokens and times are integers: a token is Token units, and every unit   *)
(* of time brings Rate of them (rate_limit_rpm / 60 per second).           *)
(***************************************************************************)
EXTENDS Integers, Sequences

CONSTANTS
  Token, Rate,
  Capacity,     \* in units
  Secret,       \* hmac_secret is given
  Bodies,       \* bodies of requests: [signed, json, schema, event], BOOLEANs
  MaxRequests, MaxClock \* bounds: requests, and the clock

ASSUME WebhookAssumption ==
  /\ Token \in Nat \ {0} /\ Rate \in Nat /\ Capacity \in Nat
  /\ Secret \in BOOLEAN
  /\ Bodies \subseteq [signed : BOOLEAN, json : BOOLEAN, schema : BOOLEAN, event : BOOLEAN]
  /\ MaxRequests \in Nat /\ MaxClock \in Nat

VARIABLES
  tokens, lastUpdate, \* TokenBucketRateLimiter
  clock,              \* time.monotonic()
  requestCount, rejectedCount,
  reading,            \* requests admitted and waiting for their body
  answers,            \* history: how many requests got each status
  admitted            \* history: times at which requests were admitted

webhookVars == <<tokens, lastUpdate, clock, requestCount, rejectedCount,
                 reading, answers, admitted>>

Statuses == {200, 400, 401, 429, 500}

WebhookInit ==
  /\ tokens = Capacity /\ lastUpdate = 0 /\ clock = 0
  /\ requestCount = 0 /\ rejectedCount = 0 /\ reading = 0
  /\ answers = [s \in Statuses |-> 0]
  /\ admitted = <<>>

(* Mutant: the elapsed time is added without the capacity.                 *)
RefilledWithoutCap == tokens + Rate * (clock - lastUpdate)

Refilled ==
  LET r == tokens + Rate * (clock - lastUpdate) IN
  IF r < Capacity THEN r ELSE Capacity

(* _handle_webhook up to its first real await: acquire() holds its lock    *)
(* without one.                                                            *)
Admit ==
  /\ requestCount < MaxRequests
  /\ requestCount' = requestCount + 1 /\ lastUpdate' = clock
  /\ Refilled >= Token
  /\ tokens' = Refilled - Token
  /\ reading' = reading + 1
  /\ admitted' = Append(admitted, clock)
  /\ UNCHANGED <<clock, rejectedCount, answers>>

Reject ==
  /\ requestCount < MaxRequests
  /\ requestCount' = requestCount + 1 /\ lastUpdate' = clock
  /\ Refilled < Token
  /\ tokens' = Refilled
  /\ rejectedCount' = rejectedCount + 1
  /\ answers' = [answers EXCEPT ![429] = @ + 1]
  /\ UNCHANGED <<clock, reading, admitted>>

(* The status of a request whose body has come; an event that pydantic     *)
(* refuses raises out of the handler.                                      *)
Status(body) ==
  IF Secret /\ ~body.signed THEN 401
  ELSE IF ~body.json \/ ~body.schema THEN 400
  ELSE IF ~body.event THEN 500 ELSE 200

(* The rest of _handle_webhook, for whichever request has its body first.  *)
Answer(body) ==
  /\ reading > 0 /\ reading' = reading - 1
  /\ answers' = [answers EXCEPT ![Status(body)] = @ + 1]
  /\ UNCHANGED <<tokens, lastUpdate, clock, requestCount, rejectedCount, admitted>>

Tick ==
  /\ clock < MaxClock /\ clock' = clock + 1
  /\ UNCHANGED <<tokens, lastUpdate, requestCount, rejectedCount, reading, answers, admitted>>

WebhookNext ==
  \/ Admit \/ Reject
  \/ \E body \in Bodies : Answer(body)
  \/ Tick

WebhookSpec == WebhookInit /\ [][WebhookNext]_webhookVars

-----------------------------------------------------------------------------
(* Whenever they come, the requests admitted between two moments are no    *)
(* more than a full bucket and what the time between them brings           *)
(* (TokenBucketRateLimiter: a burst after a pause gains nothing).          *)
RateIsBounded ==
  \A i \in 1..Len(admitted) : \A j \in i..Len(admitted) :
    Token * (j - i + 1) <= Capacity + Rate * (admitted[j] - admitted[i])
=============================================================================
