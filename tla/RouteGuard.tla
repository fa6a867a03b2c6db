------------------------------ MODULE RouteGuard ------------------------------
(***************************************************************************)
(* The guards of HTTP routes in typescript/src: requireAuth (auth.ts) and  *)
(* checkProxyRequest (proxyGuard.ts), with the sliding-window limiter      *)
(* (rateLimit.ts) each resolves for a request.                             *)
(*                                                                         *)
(* A guard runs to its end without awaiting, so a request is one step; but *)
(* a refusal reads the clock a second time to say how long to wait, and    *)
(* time may pass in between: Answer429 is a step of its own.  The clock is *)
(* relative: a timestamp is its age, saturated at Window, where every      *)
(* comparison of the code has settled.  It is taken to be monotonic.       *)
(***************************************************************************)
EXTENDS Integers, Sequences, Filtered

CONSTANTS
  Guard,              \* "requireAuth" or "checkProxyRequest"
  Inline,             \* whether the route builds its options for each request
  KeyFor,             \* whether requireAuth is given a keyFor, by client
  Clients,            \* addresses of clients
  Elsewhere,          \* other addresses a forwarded header may start with
  MaxElsewhere,       \* bound: how many of them it starts with
  Proxies,            \* reverse proxies in front of the process
  TrustedProxyCount,  \* trustedProxyCount
  Limit,              \* limit
  Window              \* windowMs, in ticks

\* The limiter's constructor, and what proxyGuard.ts asks of a deployment.
ASSUME GuardAssumption ==
  /\ Guard \in {"requireAuth", "checkProxyRequest"}
  /\ Inline \in BOOLEAN /\ KeyFor \in BOOLEAN
  /\ MaxElsewhere \in Nat
  /\ Proxies \in Nat /\ TrustedProxyCount \in 0 .. Proxies
  /\ Limit \in Nat /\ Limit >= 1
  /\ Window \in Nat /\ Window >= 1

VARIABLES
  hits,      \* hits[k], the limiter's timestamps for key k, as ages
  denied,    \* the 429 about to be answered, or NoDenial
  answer,    \* what the last request was answered
  admitted,  \* history: admitted[c], the ages of c's admitted requests
  promised   \* history: promised[c], what is left of the wait c was told of

guardVars == <<hits, denied, answer, admitted, promised>>

Keys == Clients \cup Elsewhere \cup {"proxy", "unknown", "token"}

NoDenial == [client |-> "none", wait |-> 0]

NoPromise == -1

GuardInit ==
  /\ hits = [k \in Keys |-> <<>>]
  /\ denied = NoDenial
  /\ answer = [status |-> 0, wait |-> 0]
  /\ admitted = [c \in Clients |-> <<>>]
  /\ promised = [c \in Clients |-> NoPromise]

-----------------------------------------------------------------------------
(* The key of a request and its limiter. *)

\* x-forwarded-for: each proxy appends the address it saw.
Hops(c, before) == before \o <<c>> \o [i \in 1 .. Proxies - 1 |-> "proxy"]

\* Slip: the first hop is taken for the client.
ClientIp_FirstHop(hops) ==
  IF TrustedProxyCount = 0 THEN "unknown" ELSE hops[1]

\* clientIp; with no more trusted proxies than there are, the first header
\* always has the hop that counts.
ClientIp(hops) ==
  LET i == Len(hops) - TrustedProxyCount + 1
  IN  IF TrustedProxyCount # 0 /\ i \in DOMAIN hops THEN hops[i] ELSE "unknown"

\* requireAuth counts by the bearer token, which all callers share, unless it
\* is given a keyFor.
KeyOf(c, before) ==
  IF Guard = "checkProxyRequest" THEN ClientIp(Hops(c, before))
  ELSE IF KeyFor THEN c ELSE "token"

\* resolveLimiter: requireAuth registers limiters under the options object,
\* so that an inline one brings an empty limiter that nobody uses again;
\* checkProxyRequest registers them under limit and windowMs.
SharedLimiter == Guard = "checkProxyRequest" \/ ~Inline

Used(k) == IF SharedLimiter THEN hits[k] ELSE <<>>

SetHits(k, recent) ==
  hits' = IF SharedLimiter THEN [hits EXCEPT ![k] = recent] ELSE hits

\* What check() and sweep() keep: t > cutoff
Recent(times) == Kept(times, 0 .. Window - 1)

Full(recent) == Len(recent) >= Limit

-----------------------------------------------------------------------------
(* Requests. *)

\* No secret is configured, or the request does not carry it: the limiter is
\* not consulted.
Refuse ==
  /\ denied = NoDenial
  /\ \E status \in {503, 401} : answer' = [status |-> status, wait |-> 0]
  /\ UNCHANGED <<hits, denied, admitted, promised>>

\* check() admits, and records the request.
Admit(c, before) ==
  LET k == KeyOf(c, before)
      recent == Recent(Used(k))
  IN  /\ denied = NoDenial
      /\ ~Full(recent)
      /\ SetHits(k, Append(recent, 0))
      /\ answer' = [status |-> 200, wait |-> 0]
      /\ admitted' = [admitted EXCEPT ![c] = Append(Recent(@), 0)]
      /\ promised' = [promised EXCEPT ![c] = NoPromise]
      /\ UNCHANGED denied

\* Slip: the window is said to reset when the newest hit expires.
Deny_FromNewest(c, before) ==
  LET k == KeyOf(c, before)
      recent == Recent(Used(k))
  IN  /\ denied = NoDenial
      /\ Full(recent)
      /\ SetHits(k, recent)
      /\ denied' = [client |-> c, wait |-> Window - recent[Len(recent)]]
      /\ UNCHANGED <<answer, admitted, promised>>

\* check() refuses: resetAt is when the oldest recorded request expires.
Deny(c, before) ==
  LET k == KeyOf(c, before)
      recent == Recent(Used(k))
  IN  /\ denied = NoDenial
      /\ Full(recent)
      /\ SetHits(k, recent)
      /\ denied' = [client |-> c, wait |-> Window - recent[1]]
      /\ UNCHANGED <<answer, admitted, promised>>

\* retryAfterMs: resetAt against the limiter's clock, by now.
Answer429 ==
  /\ denied # NoDenial
  /\ answer' = [status |-> 429, wait |-> denied.wait]
  /\ promised' = [promised EXCEPT ![denied.client] = denied.wait]
  /\ denied' = NoDenial
  /\ UNCHANGED <<hits, admitted>>

-----------------------------------------------------------------------------
(* The rest of the process, and time. *)

Sweep ==
  /\ denied = NoDenial
  /\ hits' = [k \in Keys |-> Recent(hits[k])]
  /\ UNCHANGED <<denied, answer, admitted, promised>>

\* reset(key), with the client's own key
Forgive(c) ==
  /\ denied = NoDenial
  /\ hits' = [hits EXCEPT ![KeyOf(c, <<>>)] = <<>>]
  /\ admitted' = [admitted EXCEPT ![c] = <<>>]
  /\ promised' = [promised EXCEPT ![c] = NoPromise]
  /\ UNCHANGED <<denied, answer>>

Older(times) == [i \in DOMAIN times |-> IF times[i] < Window THEN times[i] + 1 ELSE Window]

\* What is left of a wait: Math.max(0, resetAt - now)
Less(wait) == IF wait > 0 THEN wait - 1 ELSE wait

Elapse ==
  /\ hits' = [k \in Keys |-> Older(hits[k])]
  /\ admitted' = [c \in Clients |-> Older(admitted[c])]
  /\ denied' = [denied EXCEPT !.wait = Less(@)]
  /\ promised' = [c \in Clients |-> Less(promised[c])]
  /\ UNCHANGED answer

Headers == UNION {[1 .. n -> Elsewhere] : n \in 0 .. MaxElsewhere}

GuardNext ==
  \/ Refuse
  \/ \E c \in Clients :
       \/ \E before \in Headers : Admit(c, before) \/ Deny(c, before)
       \/ Forgive(c)
  \/ Answer429
  \/ Sweep
  \/ Elapse

GuardSpec == GuardInit /\ [][GuardNext]_guardVars

-----------------------------------------------------------------------------
(* Properties *)

GuardTypeOK ==
  /\ hits \in [Keys -> Seq(0 .. Window)]
  /\ \A k \in Keys : Len(hits[k]) <= Limit
  /\ denied \in [client : Clients \cup {"none"}, wait : 0 .. Window]
  /\ answer \in [status : {0, 200, 401, 429, 503}, wait : 0 .. Window]
  /\ admitted \in [Clients -> Seq(0 .. Window)]
  /\ promised \in [Clients -> {NoPromise} \cup 0 .. Window]

InWindow(c) == Len(Recent(admitted[c]))

\* However requests, refusals, sweeps and time interleave, and whatever the
\* forwarded header starts with, no window of the given length sees more than
\* limit requests of one client admitted.
WindowBounded == \A c \in Clients : InWindow(c) <= Limit

\* A client is refused only while limit of its own requests fill the window
\* (refusals do not count, nor do other clients), and the wait it is told of
\* is right to the tick, although the clock moved on before it was computed:
\* until it is over the window stays full, and then it has room again.
RetryAfterHonest ==
  \A c \in Clients : promised[c] # NoPromise =>
    (promised[c] = 0 <=> InWindow(c) < Limit)
=============================================================================
