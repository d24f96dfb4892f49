----------------------------- MODULE ApiGateway -----------------------------
(***************************************************************************)
(* A request at the API gateway (src/services/api-gateway/main.py): the    *)
(* token, the rate limit, and the call of the service behind. The limit is *)
(* a counter of Redis for each caller that INCR makes and EXPIRE, a second *)
(* call, lets run out; requests of one caller interleave between them.     *)
(*                                                                         *)
(* A handler takes one request of a caller after another, as many handlers *)
(* as requests are under way at once. Tokens, bodies and statuses of the   *)
(* services are left out. Time is in ticks that are long compared to a     *)
(* call of Redis: one tick may fall between INCR and EXPIRE, a second one  *)
(* may not.                                                                *)
(*                                                                         *)
(* The names below are this module's alone, so that another component can  *)
(* be extended together with it.                                           *)
(***************************************************************************)
EXTENDS Integers

CONSTANTS
  Handlers,
  Callers,
  callerOf,    \* handler -> identifier: the subject of the token, or the address
  Limit,       \* rate_limit_per_minute
  Window,      \* the 60 s of EXPIRE, in ticks
  MaxCount,    \* bound: value of a counter beyond which its caller rests
  MaxFaults    \* bound: calls of Redis that fail, and evicted keys

Never == -1    \* no expiry
Spans == 0 .. Window + 1   \* ticks that one looks back

ASSUME CallerAssumption == callerOf \in [Handlers -> Callers]
ASSUME LimitAssumption == Limit \in Nat \ {0} /\ Window \in Nat \ {0}
ASSUME BoundsAssumption == MaxCount \in Nat /\ MaxFaults \in Nat

VARIABLES
  stage,      \* handler -> idle, or where its request is
  count,      \* caller -> its counter, 0 when there is no key
  ttl,        \* caller -> ticks to live of the key, Never, or 0 when there is none
  recent,     \* caller -> span -> its requests let through in that many ticks and this one
  faults

gatewayVars == <<stage, count, ttl, recent, faults>>

Answers == {"unauthorized", "refused", "answered", "unavailable", "timeout", "error"}
Stages == {"idle", "counting", "expiring", "late", "forwarding", "waiting"} \cup Answers

GatewayInit ==
  /\ stage = [h \in Handlers |-> "idle"]
  /\ count = [c \in Callers |-> 0]
  /\ ttl = [c \in Callers |-> 0]
  /\ recent = [c \in Callers |-> [n \in Spans |-> 0]]
  /\ faults = 0

Fault == faults < MaxFaults /\ faults' = faults + 1
Goes(h, s) == stage' = [stage EXCEPT ![h] = s]

-----------------------------------------------------------------------------
(* The token. *)

Routes == {"agents", "workflows", "approvals", "memory", "policies"}
Limited == {"agents", "workflows"}

\* get_current_user raises for a bad token; require_auth also when there is none.
Authorized(route, token) == token = "good" \/ (route = "agents" /\ token = "none")

\* The next request, after the answer to the last.
Arrive(h) ==
  /\ stage[h] \in {"idle"} \cup Answers
  /\ \E route \in Routes, token \in {"none", "bad", "good"} :
       \/ ~ Authorized(route, token) /\ Goes(h, "unauthorized")
       \/ Authorized(route, token) /\ route \notin Limited /\ Goes(h, "forwarding")
       \/ /\ Authorized(route, token) /\ route \in Limited
          /\ count[callerOf[h]] < MaxCount
          /\ Goes(h, "counting")
  /\ UNCHANGED <<count, ttl, recent, faults>>

-----------------------------------------------------------------------------
(* The rate limit. *)

\* Redis: INCR makes a missing key, without expiry.
Incr(c) ==
  /\ count' = [count EXCEPT ![c] = @ + 1]
  /\ ttl' = [ttl EXCEPT ![c] = IF count[c] = 0 THEN Never ELSE @]

\* Redis: EXPIRE does nothing when there is no such key.
Expires(c) == ttl' = [ttl EXCEPT ![c] = IF count[c] = 0 THEN 0 ELSE Window]

Admits(c) == recent' = [recent EXCEPT ![c] = [n \in Spans |-> @[n] + 1]]

\* Mutant: the limit is reached one request too late.
Count_OffByOne(h) ==
  LET c == callerOf[h] IN
  /\ stage[h] = "counting"
  /\ Incr(c)
  /\ \/ count[c] = 0 /\ Goes(h, "expiring") /\ Admits(c)
     \/ count[c] \in 1 .. Limit /\ Goes(h, "forwarding") /\ Admits(c)
     \/ count[c] > Limit /\ Goes(h, "refused") /\ UNCHANGED recent
  /\ UNCHANGED faults

\* Mutant: the requests at the limit are refused.
Count_Early(h) ==
  LET c == callerOf[h] IN
  /\ stage[h] = "counting"
  /\ Incr(c)
  /\ \/ count[c] = 0 /\ Goes(h, "expiring") /\ Admits(c)
     \/ count[c] \in 1 .. Limit - 2 /\ Goes(h, "forwarding") /\ Admits(c)
     \/ count[c] >= Limit - 1 /\ count[c] > 0 /\ Goes(h, "refused") /\ UNCHANGED recent
  /\ UNCHANGED faults

\* INCR answers with the count, this request included: the first of a window goes on
\* to EXPIRE, and those beyond the limit are refused.
Count(h) ==
  LET c == callerOf[h] IN
  /\ stage[h] = "counting"
  /\ Incr(c)
  /\ \/ count[c] = 0 /\ Goes(h, "expiring") /\ Admits(c)
     \/ count[c] \in 1 .. Limit - 1 /\ Goes(h, "forwarding") /\ Admits(c)
     \/ count[c] >= Limit /\ Goes(h, "refused") /\ UNCHANGED recent
  /\ UNCHANGED faults

\* Mutant: a counter that others have raised is taken to have its expiry.
Expire_OnlyAlone(h) ==
  LET c == callerOf[h] IN
  /\ stage[h] \in {"expiring", "late"}
  /\ IF count[c] = 1 THEN Expires(c) ELSE UNCHANGED ttl
  /\ Goes(h, "forwarding")
  /\ UNCHANGED <<count, recent, faults>>

\* Mutant: the expiry is that of two windows.
Expire_Long(h) ==
  LET c == callerOf[h] IN
  /\ stage[h] \in {"expiring", "late"}
  /\ ttl' = [ttl EXCEPT ![c] = IF count[c] = 0 THEN 0 ELSE 2 * Window]
  /\ Goes(h, "forwarding")
  /\ UNCHANGED <<count, recent, faults>>

Expire(h) ==
  /\ stage[h] \in {"expiring", "late"}
  /\ Expires(callerOf[h])
  /\ Goes(h, "forwarding")
  /\ UNCHANGED <<count, recent, faults>>

\* "Redis failure -> allow request": a call raises, before or after it had its effect.
RedisFails(h) ==
  LET c == callerOf[h] IN
  /\ Fault
  /\ \/ stage[h] = "counting" /\ Admits(c) /\ (Incr(c) \/ UNCHANGED <<count, ttl>>)
     \/ /\ stage[h] \in {"expiring", "late"}
        /\ Expires(c) \/ UNCHANGED ttl
        /\ UNCHANGED <<count, recent>>
  /\ Goes(h, "forwarding")

\* Redis evicts any key when its memory is full (allkeys-lru).
Evict(c) ==
  /\ count[c] > 0
  /\ Fault
  /\ count' = [count EXCEPT ![c] = 0]
  /\ ttl' = [ttl EXCEPT ![c] = 0]
  /\ UNCHANGED <<stage, recent>>

\* Time passes: counters come closer to their end. A request between INCR and EXPIRE
\* is late after one tick, and goes on before the next.
Tick ==
  /\ \A h \in Handlers : stage[h] # "late"
  /\ \E c \in Callers : ttl[c] > 0 \/ recent[c][Window + 1] > 0
  /\ ttl' = [c \in Callers |-> IF ttl[c] > 0 THEN ttl[c] - 1 ELSE ttl[c]]
  /\ count' = [c \in Callers |-> IF ttl[c] = 1 THEN 0 ELSE count[c]]
  /\ recent' = [c \in Callers |-> [n \in Spans |-> IF n = 0 THEN 0 ELSE recent[c][n - 1]]]
  /\ stage' = [h \in Handlers |-> IF stage[h] = "expiring" THEN "late" ELSE stage[h]]
  /\ UNCHANGED faults

-----------------------------------------------------------------------------
(* The service behind. *)

\* ConnectError is answered with 503; anything else httpx raises but a timeout, with 500.
Forward(h) ==
  /\ stage[h] = "forwarding"
  /\ \E s \in {"waiting", "unavailable", "error"} : Goes(h, s)
  /\ UNCHANGED <<count, ttl, recent, faults>>

Respond(h) ==
  /\ stage[h] = "waiting"
  /\ \E s \in {"answered", "error"} : Goes(h, s)
  /\ UNCHANGED <<count, ttl, recent, faults>>

\* Mutant: the client of httpx has no timeout.
TimesOut_Never(h) ==
  /\ stage[h] = "waiting" /\ FALSE
  /\ Goes(h, "timeout")
  /\ UNCHANGED <<count, ttl, recent, faults>>

\* The timeout of 30 s: 504. The service may have served the request, or may yet.
TimesOut(h) ==
  /\ stage[h] = "waiting"
  /\ Goes(h, "timeout")
  /\ UNCHANGED <<count, ttl, recent, faults>>

-----------------------------------------------------------------------------
GatewayNext ==
  \/ \E h \in Handlers : Arrive(h) \/ Count(h) \/ Expire(h) \/ RedisFails(h)
  \/ \E h \in Handlers : Forward(h) \/ Respond(h) \/ TimesOut(h)
  \/ \E c \in Callers : Evict(c)
  \/ Tick

GatewaySpec == GatewayInit /\ [][GatewayNext]_gatewayVars

\* Handlers go on, the timeout included, and time passes; services owe nothing. That a
\* call of Redis returns or raises (its client has no timeout of its own), and that the
\* body of a request arrives (main.py:285, before the timeout begins), is assumed.
GatewayFairness ==
  /\ \A h \in Handlers :
       /\ WF_gatewayVars(Count(h)) /\ WF_gatewayVars(Expire(h))
       /\ WF_gatewayVars(Forward(h)) /\ WF_gatewayVars(TimesOut(h))
  /\ WF_gatewayVars(Tick)

GatewayFairSpec == GatewaySpec /\ GatewayFairness

-----------------------------------------------------------------------------
(* Properties. *)

\* Types; there is a counter exactly when there is a key.
GatewayTypeOK ==
  /\ stage \in [Handlers -> Stages]
  /\ count \in [Callers -> Nat]
  /\ ttl \in [Callers -> Never .. Window]
  /\ \A c \in Callers : ttl[c] = 0 <=> count[c] = 0
  /\ recent \in [Callers -> [Spans -> Nat]]
  /\ faults \in 0 .. MaxFaults

\* "Rate limit exceeded: ... req/min" (main.py:147): as long as no call of Redis fails, a
\* request is refused only after Limit others of its caller within a window and its delay.
RefusedForCause ==
  [][\A h \in Handlers :
       stage[h] = "counting" /\ stage'[h] = "refused" /\ faults = 0
         => recent[callerOf[h]][Window + 1] >= Limit]_gatewayVars

\* The window is fixed, not sliding (main.py:132), so a caller may get two limits
\* through within one window, and no more.
AdmittedIsBounded ==
  faults = 0 => \A c \in Callers : recent[c][Window - 1] <= 2 * Limit

\* A key without expiry refuses its caller for ever once the limit is reached
\* (main.py:141-144): unless a call of Redis fails, a counter comes back to nothing,
\* whatever requests meet between INCR and EXPIRE.
CountsRunOut == \A c \in Callers : count[c] > 0 ~> count[c] = 0 \/ faults > 0

\* Every request whose body arrives is answered, though calls of Redis raise and
\* services never respond (main.py:294, 319).
EveryRequestIsAnswered == \A h \in Handlers : stage[h] = "counting" ~> stage[h] \in Answers
=============================================================================
