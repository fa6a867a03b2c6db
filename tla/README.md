# TLA+ models of cubiczan-resilience

`cubiczan-resilience` is a family of small libraries (Python, TypeScript, Rust,
JavaScript for Atlassian Forge, and an on-chain sender in two languages) that
other programs put between themselves and things that fail: providers, nodes,
databases, disks, callers. Almost every promise it makes is about *several*
calls and *several* failures at once, and that is where its tests are thin:
they drive one call at a time. This directory models the stateful part of the
code, checks it with TLC on small instances, and proves with TLAPS, for every
value of the parameters, every safety property that a passing run checks. What
is checked only is that things eventually happen.

Contents: 1 inventory, 2 modules and how they correspond to the code, 3 runs
and bounds, 4 fairness, 5 proofs, 6 where code and documentation disagree,
7 what is left out, 8 plan.

How to run: `tlc -config X.cfg M` for the pairs listed in section 3, `tlapm
XProofs.tla` for each of the eight modules of proofs listed in section 2.

## 1. Inventory

Each entry: state; operations; who it interacts with; what is hard; what makes
it correct.

**Python circuit breaker** (`python/.../circuit.py`). State: CLOSED, OPEN or
HALF_OPEN, failure count, time of opening, half-open slots taken. Operations:
`allow`, `retry_after`, `state`, `record_success`, `record_failure`, `reset`,
`guard`, each under one lock except `guard` (two). Shared by any number of
callers. Hard: slots are never given back one by one; OPEN becomes HALF_OPEN
lazily, on whichever look comes first; reports arrive late, in a state other
than that in which the call was let through; resets during trials. Correct:
fields cohere, slots are neither leaked nor handed out twice, no trial within
the cooldown of a failure, and what callers are told follows from the reports.

**Python `@resilient`** (`retry.py`). State: a loop per call (attempt, last
error). Runs the wrapped function between `guard` and a report, with timeout and
backoff; async attempts are cut off by `wait_for`, sync ones cannot be. Hard:
timeouts, cancellation and hanging calls while slots are held. Correct: every
async call ends; a half-open period ends; the circuit recovers.

**Python file idempotency store and `atomic_write`** (`idempotency.py`,
`atomic.py`). State: a map in memory, its JSON file, a temp file. Operations:
`already_done`, `get_result`, `mark_done`, load at start. Threads share it;
each flush holds the lock over three file operations. Hard: crash or failure
between any two, two threads on one key, a file unreadable at start. Correct: a
guarded charge is made at most once, and once more at most per start that could
not read the file, and only behind a claim on disk; a key nobody charged for is
answered for only after a known loss; nobody waits for ever.

**Python in-memory idempotency store** (`idempotency.py`). The same protocol
without the file, and `clear`. Hard: `clear` and a restart while charges are
under way. Correct: one charge per key and content of the memory.

**Signed audit ledger** (`audit_ledger.py`, `audit.rs`, `auditLedger.ts`).
State: a JSONL file of records, each signed over its predecessor's signature,
and the last signature in memory. Operations: construct, append, verify. Hard:
restarts, appends that fail before or after their line is in the file, several
writers, edits of contents and signatures, also between two appends. Correct:
what verify accepts was appended, unchanged and in this order; nothing appended
is lost; a file nobody edited is reported only for what its writers did.

**Tiered source** (`tieredSource.ts`, `tiered.py`). State: per call, the rung it
is on and the trail of failures; a cache entry that ages. Hard: the live tier
may be abandoned by a timeout and answer later. Correct: result and provenance
agree with what happened; every resolution ends.

**safeFetch, retry, withTimeout** (`safeFetch.ts`, `retry.ts`, `timeout.ts`,
`errors.ts`). State: per call, an attempt with its controller and timer, and a
listener on the caller's signal. Hard: abort, timer and answer race; listeners
on a long-lived signal. Correct: no listener leaks, no request after an abort,
no retry forgotten or added.

**Route guards and rate limiter** (`proxyGuard.ts`, `auth.ts`, `rateLimit.ts`).
State: a sliding window of timestamps per key, registries of limiters. Hard:
window edges, which hop names the client, limiters keyed by object identity,
two clock readings. Correct: no window admits more than the limit, and a refused
client is told the truth.

**Python verification gate** (`verification_gate.py`). No state of its own; a
report keeps a list of violations and a gate, which it builds again as the list
grows and hands out as a dict. Hard: blank entries, the hint, dicts changed and
read back. Correct: status, confidence and violations of a gate agree.

**Athena client and Lambda handlers** (`scope-core/src/scope_core/athena.py`,
`handlers.py`). State: per analysis, a list of entities, the query waited for,
its deadline, the results so far; per ingestion, the records in hand; the S3
object both meet at. Hard: Athena may be slow, fail or never end a query; calls
fail at any point; a slow ingestion overtakes a newer one. Correct: each
entity gets its own result or its own error, in order; what is left running was
reported; what is read is as new as what was confirmed; every analysis ends.

**On-chain sender** (`onchain/typescript/src/index.ts`,
`onchain/python/resilient_onchain/client.py`). State: per run, a pinned nonce,
fee and attempt; a breaker shared by runs; the application's record of keys
sent. Interacts with a node it cannot trust to answer. Hard: a timed-out attempt
lives on; nonce-too-low may mean this run's own success; runs of one key overlap,
or crash before the broadcast is recorded. Correct: how often a write can land is
bounded, resends outbid, success means a landed transaction of the run's own, and
two runs of a key broadcast only if the record could not tell one of the other.

**Rust idempotency ledger** (`ledger.rs`). State: JSONL file and in-memory
mirror. Operations: `contains`, `record`, load. Hard: two critical sections
with the operation between them; appends that fail half-way. Correct: the mirror
never runs ahead of the file; each failed append costs a bounded number of keys.

**Rust retry, CockroachDB retry, timeout** (`retry.rs`, `crdb.rs`, `timeout.rs`,
`error.rs`). State: per call, an attempt and a delay. Hard: lost commit answers,
futures dropped at an await, shifts and conversions beyond the word. Correct: no
transaction takes effect twice, outcomes are true, the backoff keeps to the capped
exponential.

**Forge resolver and webhook** (`forge-core/src/resolver.js`, `webhook.js`).
State: a storage record used as a cache, written by both. Hard: concurrent
invocations write back what they chose, mock data included; the secret changes
during verification. Correct: only genuine deliveries are stored, and the cache
sheds mock data after an outage.

**Forge fetch and response helpers, FastAPI helpers, TypeScript validation,
package facades.** Not modelled; see section 7.

The hazards of each component, at their lines and with the properties that
cover them, are listed in `PROJECT.json`; a few more are in section 7.

## 2. Modules

Conventions. A component's module holds CONSTANTS with a named ASSUME, its
VARIABLES, one action per operation or per step between two awaits or critical
sections, and its properties. Variables marked *history* in the modules record
what happened, and no guard reads them. `MC*` modules only add the symmetry sets of
TLC. Beside some definitions stands an operator `Name_Slip`, introduced by
"Slip:": the definition as a plausible mistake would leave it. `PROJECT.json`
pairs each checked property with the slip that breaks it; the specifications
never use them.

Clocks are relative: where the code compares `now - t` with a limit, the model
keeps that age, saturated where the code stops telling ages apart.

| module | models | composes |
|---|---|---|
| `BreakerContract` | what the breaker promises, without its states | |
| `CircuitBreaker` | `circuit.py`; implements the contract | `BreakerContract` by INSTANCE |
| `Resilient` | loops of `retry.py` around one breaker | EXTENDS `CircuitBreaker` |
| `OnchainSend` | `send_with_retry` and `sendWithRetry`, node, chain | |
| `ClaimStore` | the `IdempotencyStore` protocol; the in-memory store | |
| `FileIdempotency` | store, `atomic_write`, guarded call; implements the contract | `ClaimStore` by INSTANCE |
| `KeyLedger` | Rust ledger and guarded operation | |
| `AuditLedger` | signed ledger, verify, edits | |
| `Filtered` | `Array.filter`, a comprehension with `if`, as an operator | |
| `RouteGuard` | guards, limiter, client address | EXTENDS `Filtered` |
| `SafeFetch` | `safeFetch` in its retry loop | |
| `TieredFetch` | `resolveTiered` over `withTimeout(safeFetch)` | EXTENDS `SafeFetch` |
| `CrdbRetry` | `crdb_retry` in `with_timeout`, database | |
| `ForgeResolver` | resolver invocations and storage | |
| `ForgeApp` | resolver and webhook on one storage | EXTENDS `ForgeResolver` |
| `AthenaAnalysis` | analysis handler, client, Athena | |
| `ScopePipeline` | ingestion and analysis over one S3 object | EXTENDS `AthenaAnalysis` |
| `VerificationGate` | `build_gate`, `to_dict`, report and receiver | EXTENDS `Filtered` |

Proofs are in eight modules:

| module | about |
|---|---|
| `ResilientProofs` | `CircuitBreaker`, `Resilient` |
| `FileIdempotencyProofs` | `FileIdempotency` and its contract |
| `RustProofs` | `KeyLedger`, `CrdbRetry` |
| `OnchainSendProofs` | `OnchainSend` |
| `TieredFetchProofs` | `SafeFetch`, `TieredFetch` |
| `ScopePipelineProofs` | `AthenaAnalysis`, `ScopePipeline` |
| `AuditLedgerProofs` | `AuditLedger` |
| `GuardProofs` | `RouteGuard`, `VerificationGate`, `ForgeApp` |

So that one module can extend several components, the initial predicate, next-state
relation and specification of `CrdbRetry`, `RouteGuard` and `VerificationGate` have
names of their own (`CrdbSpec`, `GuardSpec`, `GateSpec`); elsewhere they are `Init`,
`Next` and `Spec`.

**CircuitBreaker.** The record `cb` is the object. Each method is a function
from the record before to the record after (`MaybeHalfOpen`, `Allowed`,
`AfterAllow`, `RetryAfter`, `TripOpen`, `AfterSuccess`, `AfterFailure`), applied
by an action of its own (`AskAllow`, `AskRetryAfter`, `ReadState`,
`RecordSuccess`, `RecordFailure`, `Reset`). `opened` is `clock() - opened_at`,
saturated at the cooldown.

**BreakerContract.** The abstract breaker: failures since the last success,
time left until a trial, trials since the last report, last answer. Fewer than
`FailureThreshold` failures admit; otherwise `Cooldown` must have passed since
the last failure and fewer than `HalfOpenMaxCalls` trials been let through.
`CircuitBreaker!MeetsContract` is its specification under the refinement mapping
`Contract`; the two differ in that the state machine has no counter of trials
outside HALF_OPEN and moves lazily.

**Resilient.** A caller is at `guard` (before `allow`, where a backoff is also
spent), `denied` (between `allow` and `retry_after`), or in `call`. Between two
of these everything is local to the caller, so that the end of an attempt and
its report are one step. Async attempts may time out; sync attempts may hang.
`Observe` is any monitoring code that reads `state`; `OperatorReset` is `reset()`.

**OnchainSend.** One action per call of the adapter or await. `language` says
which of the two versions runs; it never changes, and both start. They differ in
`TimesOut`, where only the timer of TypeScript can overtake an answer that is
already on its way back, and in `Interrupted`, a KeyboardInterrupt in Python's
backoff (one during an attempt is a retryable error, and so one of `TimesOut`).
A fee is a record of the fields of `FeeMode`: one, or the EIP-1559 pair, both
bumped. `TimesOut` leaves the request in flight and the transaction in the pool,
as the code does. `NodeAccepts`, `NodeRefuses`, `Mine` are the external node, as
far as the adapters rely on it: one transaction per nonce, replaced only for
more in every field, mined in nonce order, any request delayed or lost, and with
`Retransmits` sent again when its answer is lost. A client is one run, for the
key `job` gives it; runs overlap and follow each other freely. The code only
asks `already_sent` (`Start`); the record `seen` is the application's, "written
when a tx is first broadcast" (`onchain/README.md:199`). The model takes it that
`sign_send` writes it, as its last step (`Mark`), when the node has taken the
transaction; a crash or a timeout may come before that, and in TypeScript an
abandoned `sign_send` goes on and writes it late. `excused` is history: the runs
of the same key that the record could not tell a run of when it passed the guard
(`Unrecorded`). `Crash` forgets runs, their `sign_send` calls and the breaker.

**ClaimStore.** `Ask`, `Check` and `MarkDone` are a guarded call against any
store that keeps the protocol. With `Durable = FALSE` it is the in-memory store:
`Clear` and `Restart` forget. With `Durable = TRUE` it is the contract of the
file store: a claim is saved before the charge, or the request fails.

**FileIdempotency.** The guarded call of `python/README.md`: `Check`, `Claim`,
the three steps of the flush under the lock, `Charge`. Any step of the flush may
raise (`FlushFails`), the charge may fail, and `Restart` may come between any
two steps; `Loaded` is `_load`, which takes a file it cannot read for empty.
`misreads` counts how often that happened, `lost` collects the keys whose claim
was given up. `KeepsContract` is the specification of `ClaimStore` under the
refinement mapping `Contract`: the map is what the store answers for, the file
what it saved, and the three steps of a flush are one.

**KeyLedger.** `lines` is the file, a line the sequence of pieces written to it;
`open` says that the last has no newline. `RecordFails` leaves nothing, a torn
piece, or a whole one without newline. `Loaded` is `load_keys`.

**AuditLedger.** A signature is the sequence of events it covers, that is HMAC
and canonical form are taken to be injective and HMAC not to be forged: whoever
edits the file can use the signatures that ledgers made, and others, which are no
record's. Lines are pieces as in `KeyLedger`. `AppendFails` leaves nothing, a part
of the line, all but its newline, or all of it, and in no case moves `_last_sig`
on. `Tamper` changes a line's content, its `sig` or its `prev_sig`, deletes it,
copies a line before it or exchanges it with another; any number of edits can
combine, undo each other, and come between restarts and appends. `issued` is
history: every record that reached the file whole, with the object that wrote it,
whether its append returned, and what the object had appended before it. `Verify`
is `verify_ledger`, `Accepted` the lines it takes before the one it reports.

**RouteGuard.** `Guard` selects `requireAuth` or `checkProxyRequest`, `Inline`
whether the caller builds options for each request. `hits` are the limiter's
timestamps as ages, `Recent` is the filter of `check` and `sweep`. `Deny` and
`Answer429` are the two clock readings of a refusal, `Elapse` is time. With
`KeyFor = FALSE`, `requireAuth` counts by the bearer token (`auth.ts:89`), which all
callers share.

**SafeFetch, TieredFetch.** The places of a call are its awaits. `TimerFires`,
`Settles`, `CallerAborts` are events, `Resume` and `Wake` the code after the
await. `Released` is `withTimeout` giving up: the ladder goes on and so does the
fetch. `Deaf` calls have a fetch implementation that ignores its signal.
`Refusals` are the errors before any request, a host that is not allowed or no
`fetch` at all. `Resume` joins the catch of the attempt and that of `retry`, which
are a microtask apart: an abort in between is not told from one just after.

**CrdbRetry.** `Commit` is the serializable database (external): 40001 when
another transaction committed since this one read. `server` holds what the
database has of a client; its answer may be lost, `TimesOut` drops the future at
any await and leaves the request with the server. `policy` is the `RetryPolicy`,
chosen at the start from `Durations`, which are counted in units of 1/`PerMilli`
of a millisecond; `AsMillis` is `as_millis() as u64`, which drops fractions and
wraps at the word. `PowerOfTwo` is written as a recursive function, since the
provers know nothing of exponentiation.

**ForgeResolver, ForgeApp.** Handlers await the proxy, the cache read and the
write-back; deliveries await the digest and the store. A datum carries its true
age, which the program does not know, the entry the age of its timestamp, which
it does; `stamp` is the timestamp of a write under way, taken when `writeCache` is
called. With `Faulty` the application's mock and decorate may throw, which ends the
invocation. `Rotate` sets, changes or unsets the secret. A signature is the secret
it was made with; `Unset` stands for one made with the empty key.

**AthenaAnalysis, ScopePipeline.** The places of an analysis are the calls to
Athena and the sleep between two polls. `Poll` is one round of `wait`: the answer
first, then the clock. `RowsOf` is the page `fetch_rows` reads. `AthenaActs` is
Athena, and a query that is given up goes on. A query reads the object as it is
when it succeeds; `floor` is a history field, the newest version confirmed when
it was started. `FetchRecords` and `Put` are the two halves of `ingest`, and
what an ingestion holds between them is the version it fetched.

**VerificationGate.** `BuildGate` is `build_gate`, as an operator on a list of
sentences and blanks; the actions are a report that goes on growing, renders
itself as often as it likes, and hands out dicts which their receiver appends to
and builds gates from.

## 3. Runs

Passing runs. States are distinct states with the symmetry of the cfg.

| run | module / cfg | instance | states |
|---|---|---|---|
| resilient | `MCResilient` / `Resilient` | 2 async and 1 sync caller, threshold 2, cooldown 2, 2 slots, 2 attempts, resets | 152,456 |
| onchain_safety | `MCOnchainSend` / `OnchainSafety` | both languages, 2 runs of one key or of two, 2 attempts each, fee pair (4, 1), factor 1.125, threshold 2, cooldown 1, lost answers | 3,016,027 |
| store_safety | `FileIdempotency` / `StoreSafety` | 2 threads, 2 keys, 2 unreadable starts | 52,622 |
| ledger_safety | `MCKeyLedger` / `LedgerSafety` | 2 threads, 3 keys, 2 torn appends, 2 restarts | 588,781 |
| audit_safety | `MCAuditLedger` / `AuditSafety` | 2 ledger objects, 2 events, 2 appends that return, 2 faults (edits and failed appends) | 391,640 |
| proxy_guard | `MCRouteGuard` / `ProxyGuard` | 2 clients, 2 proxies, 2 addresses to put in front of a header, limit 2, window 3 | 4,034 |
| forge_app | `MCForgeApp` / `ForgeApp` | 2 invocations, 1 delivery, 1 secret or none, TTL 1, throwing mock and decorate | 351,698 |
| tiered_fetch | `MCTieredFetch` / `TieredFetch` | 2 calls (one mocked, one deaf), 2 attempts, limits 0 and 1, values without a date | 301,910 |
| crdb_retry | `CrdbRetry` / `CrdbRetry` | 2 clients, 5 attempts, every policy of delays 0.5, 1, 3.5 and 5 ms, words of 2 bits | 165,366 |
| scope_pipeline | `MCScopePipeline` / `ScopePipeline` | 1 analysis of 3 entities, the second refused, poll interval 2, limit 2, results of 1 or 3 rows, page 3, 2 ingesters, 2 versions | 170,393 |
| verification_gate | `VerificationGate` / `VerificationGate` | lists of up to 5 entries | 271,262 |

What they show, and why the bounds suffice:

* **resilient.** `Coherent`, `SlotsAreHeld`, `QuietBeforeTrial`,
  `MeetsContract`; `AsyncCallsEnd`, `TrialResolves`, `Recovers`. Three callers
  are what the hazards need: one that holds a slot, one that reports late, one
  that asks. With threshold 2 a failure can be counted without opening; with two
  slots one can be free while another is taken; with cooldown 2 a failure can
  come in mid-cooldown. The sync caller may hang for ever and hold a slot; the
  others must end all the same. `Recovers` assumes that calls keep arriving and
  returning and that no attempt fails from some time on, and concludes that the
  circuit closes for good. The safety part is proved in section 5.
* **onchain_safety.** `LandingsBoundedByRefreshes`: a run lands at most once
  for the nonce it pinned and once more per nonce refresh. `ResendOutbids`;
  `SuccessLanded`, of a transaction of the run's own. `DuplicatesExplained`: two
  runs of a key both broadcast only if one passed the guard while the other was
  under way, or after it ended with no `sign_send` returned. Two attempts allow
  one resend or one refresh after the deadline of the first; two runs are
  concurrent ones or a rerun after a crash or a failure, of one key or of two,
  and race for nonces either way. A priority fee of 1 is one that the factor
  alone does not raise. `OnchainLatest.cfg` repeats the first two properties with
  four attempts, one run, a legacy fee and a `fetch_state` that does not count
  pending transactions, so that several refreshes follow each other.
* **store_safety.** `AtMostOnce`: one charge, and one more at most per unreadable
  start. `ReplayExplained`: a replay without a charge is that of a claim at work
  or lost. `ClaimsPersisted`, `FileUsable`, `KeepsContract`, `RequestsEnd`. Two
  threads on one key and on two keys; two misreads show that charges add up and
  no more. Restarts are not bounded.
* **ledger_safety.** `LossBoundedByTears`: two recorded keys at most per failed
  append. Two tears show that losses add up and no more; three keys are one
  before, one on and one after the torn line, so that the bound is met with one
  tear and not with two. `MirrorFromFile`.
* **audit_safety.** `AcceptedWasAppended`: the lines verify accepts are records
  that append wrote, each unchanged and behind the one its object had appended
  before it, whatever was edited, signed over and put back. `AppendsKept`: without
  edits the file has every record append returned for, and at most one more per
  failed append. `AlarmsExplained`: without edits a line is reported only if the
  line before it is of an append that did not return or of another object. Two
  faults are an edit and its undoing with a restart and an append between them, a
  failed append and an edit, or two failed appends; two objects chain apart.
* **proxy_guard.** `WindowBounded` and `RetryAfterHonest`, whatever the forwarded
  header begins with. Limit 2 and window 3 make the window slide over a partly
  expired history; ages beyond the window are not told apart by the code.
* **forge_app.** `OnlySignedIsStored`, `CacheRecovers`. A secret
  that is unset and set while the digest is awaited is the same race as one that
  is rotated. Two invocations are a slow one of the outage and one after it.
* **tiered_fetch.** `ListenersMatchAttempts`, `TrailIsComplete`,
  `GivesUpWhenSpent`, `AbortIsFinal`, `Resolves`. Two calls are what it takes for
  one's listeners to be confused with the other's; the limits 0 and 1 give an
  entry that is fresh, stale and too old.
* **crdb_retry.** `EffectMatchesOutcome`, `BackoffIsCappedExponential`, `CallsEnd`.
  With 2-bit words the third retry shifts by the width of the word and its exact
  delay overflows it, for which 64 bits take some 64 attempts. The delays are one
  below a millisecond, a whole one, one with a fraction, and one that the word
  does not hold.
* **scope_pipeline.** `ResultsTrue`: one result per entity, in order, and a
  completed one has the rows of its own query of this very analysis.
  `LeftoversReported`: a query that runs on behind an analysis has an error in
  the list. `TimeoutsAreReal`, `AnalysesEnd`. `FreshUnlessRaced`: an analysis sees
  what was confirmed before its query was started, unless an ingestion wrote,
  late, something older. Two accepted entities are what it takes to confuse their
  queries, with a refused one between them; two ingesters and two versions are the
  race; sizes 1 and 3 against a page of 3, header included, are results of
  different length; a limit as long as one sleep lets a query end during the sleep
  that passes the deadline. That several analyses in turn do not confuse their
  queries is left to the theorem.
* **verification_gate.** `GateConsistent`, over every list of up to five entries:
  with five violations the score is below the floor.

`second_landing` is a violation: section 6. Configurations that pass beside the
listed runs: `OnchainLatest` (68,042 states), `OnchainLiveness` (`RunsEnd`:
every run ends, whatever the node does; 282,462) and `MemoryStore` on
`ClaimStore` (`OncePerMemory`: three threads, two keys, the memory lost twice;
123,656). The type invariant of each module that has one holds on the instance of
its run as well; no run lists it. That of `Resilient` is proved, those of
`FileIdempotency` and `KeyLedger` are part of the invariants of section 5.

Where a cfg says CHECK_DEADLOCK FALSE, the system really stops: the bound on analyses
or on appends is used up, or all calls are done.

## 4. Fairness

* `Resilient`: weak fairness of the clock, and of the steps of a caller that
  only need the lock (`Guard`, `Reject`). An *async* attempt ends, since
  `wait_for` cuts it off; nothing is assumed of a sync attempt, which the code
  cannot interrupt. New calls are not assumed to arrive, except in the premise of
  `Recovers`.
* `OnchainSend`: timers, sleeps and `fetch_state` come to an end (weak fairness
  of a run's next step). Nothing is owed by the node: requests may stay in flight
  for ever. In Python this stands on the adapter, which is asked to pass the
  timeout on to its RPC calls.
* `FileIdempotency`: file operations return or raise (weak fairness), and a
  thread that waits for the lock gets it if it is free again and again (strong
  fairness of `Check` and `Claim`): what waiting on `threading.RLock` gives when
  the operating system does not starve a thread.
* `TieredFetch`: promises that are settled are resumed and timers fire, except
  for `Deaf` fetches.
* `CrdbRetry`: the server answers or drops the connection, sleeps end; no timeout
  is counted on.
* `ForgeApp`: awaited calls settle (the platform bounds them); they may always
  reject.
* `ScopePipeline`: invocations run, calls of boto3 return or raise, and sleeps end
  (weak fairness of an analyst's step and of the clock). Athena owes nothing: a
  query may run for ever, and the deadline is what ends the wait for it. Nothing
  is assumed of ingestions.

## 5. Proofs

All theorems hold for every value of the constants that the named assumptions
allow. These say what the code accepts and, where a proof counts, that there are
finitely many threads, callers, keys or runs: `BreakerAssumption` (threshold and slots at least 1,
any cooldown), `CallersAssumption` (at least one attempt), `OnchainAssumption`
(at least one attempt, a bump factor of at least 1, either fee mode, fees of 0 and
more), `StoreAssumption`, `LedgerAssumption`, `PolicyAssumption` (of
`CrdbRetry`: any delays, a word of any width), `ResolverAssumption` (of
`ForgeApp`), `FetchAssumption` and `TierAssumption` (of `SafeFetch` and
`TieredFetch`), `AnalysisAssumption` and `PipelineAssumption`, `AuditAssumption`,
`GateAssumption`, `GuardAssumption` (limit and window at least 1). `MaxRuns`,
`MaxMisreads`, `MaxTears`, `MaxAppends`, `MaxFaults` and the like are any natural
numbers, so that the bounds of the runs are no bounds of the theorems.

Two theorems have a hypothesis on the constants besides, which their run
satisfies. `RateIsBounded` and
`WaitsAreHonest` assume `OwnLimiter`: every client has a key of its own, and a
limiter that lasts, that is all proxies are trusted, or the options of `requireAuth`
are not built inline and have a `keyFor`. Without it clients share a key, or have none (`InlineAuth` in
section 6).

| theorem | module | result |
|---|---|---|
| `BreakerCoherent` | `ResilientProofs` | types and `Coherent`, for any order of calls to the breaker |
| `BreakerMeetsContract` | `ResilientProofs` | the state machine implements `BreakerContract` |
| `TypeCorrect` | `ResilientProofs` | `TypeOK` |
| `SlotsNeverLeak` | `ResilientProofs` | `SlotsAreHeld` |
| `TrialsAfterQuiet` | `ResilientProofs` | `QuietBeforeTrial` |
| `CallersSeeContract` | `ResilientProofs` | the composition implements the contract and stays coherent |
| `ChargedOnce` | `FileIdempotencyProofs` | `AtMostOnce` |
| `ReplaysExplained` | `FileIdempotencyProofs` | `ReplayExplained` |
| `ClaimsSurvive` | `FileIdempotencyProofs` | `ClaimsPersisted` |
| `FileAlwaysUsable` | `FileIdempotencyProofs` | `FileUsable` |
| `StoreKeepsContract` | `FileIdempotencyProofs` | the file store implements `ClaimStore` |
| `LossIsBounded` | `RustProofs` | `LossBoundedByTears` |
| `MirrorFollowsFile` | `RustProofs` | `MirrorFromFile` |
| `CallsTakeEffectOnce` | `RustProofs` | `EffectMatchesOutcome` |
| `LandingsAreBounded` | `OnchainSendProofs` | `LandingsBoundedByRefreshes` |
| `DuplicatesAreExplained` | `OnchainSendProofs` | `DuplicatesExplained` |
| `SuccessMeansLanded` | `OnchainSendProofs` | `SuccessLanded` |
| `ResendsOutbid` | `OnchainSendProofs` | `ResendOutbids` |
| `OnlyGenuineStored` | `GuardProofs` | `OnlySignedIsStored` |
| `RateIsBounded` | `GuardProofs` | `WindowBounded`, given `OwnLimiter` |
| `WaitsAreHonest` | `GuardProofs` | `RetryAfterHonest`, given `OwnLimiter` |
| `GatesAgree` | `GuardProofs` | `GateConsistent` |
| `BackoffIsExact` | `RustProofs` | `BackoffIsCappedExponential` |
| `NoListenerLeaks` | `TieredFetchProofs` | `ListenersMatchAttempts` |
| `TrailsAreComplete` | `TieredFetchProofs` | `TrailIsComplete` |
| `RetriesAreUsed` | `TieredFetchProofs` | `GivesUpWhenSpent` |
| `AbortsAreFinal` | `TieredFetchProofs` | `AbortIsFinal` |
| `ResultsAreTrue` | `ScopePipelineProofs` | `ResultsTrue` |
| `LeftoversAreReported` | `ScopePipelineProofs` | `LeftoversReported` |
| `AnalysesAreFresh` | `ScopePipelineProofs` | `FreshUnlessRaced` |
| `TimeoutsAreNeverEarly` | `ScopePipelineProofs` | `TimeoutsAreReal` |
| `AppendsAreKept` | `AuditLedgerProofs` | `AppendsKept` |
| `AcceptedWereAppended` | `AuditLedgerProofs` | `AcceptedWasAppended` |
| `AlarmsAreExplained` | `AuditLedgerProofs` | `AlarmsExplained` |

In each module there is one lemma per action or kind of action, `...InvStep`
puts them together, and the theorems follow from the invariant.

*The breaker.* `BreakerInv` is the types with `Coherent`: CLOSED exactly when
there is no opening time and exactly when the count is below the threshold;
no slots are taken unless HALF_OPEN; HALF_OPEN only when the cooldown is over.
It is inductive by itself. There is one lemma per method (`MaybeHalfOpenGood`,
`AfterAllowGood`, `TripOpenGood`, `AfterFailureGood`) and one step per action.

*The contract.* Under `BreakerInv`, every breaker operation is a step of the
contract or a stutter (`ContractStep`). The invariant is needed where the two
differ: the move to HALF_OPEN must be invisible, so OPEN with an expired
cooldown and no slots must look as HALF_OPEN with none taken does, and a count
at the threshold must mean "not CLOSED".

*The callers.* `SlotsAreHeld` says that in HALF_OPEN the counter, which the code
never decrements, is the number of trials of this period that are still
running. It is not inductive: one must know that a caller has a slot only while
in `call` (`SlotWhileCalling`), and that outside HALF_OPEN nobody holds a trial
slot, so that the first trial of a period starts from none. `QuietBeforeTrial`
needs `AgeIsQuiet`: while the circuit is not CLOSED its age is the time since the
last failure, because late failures restart it. `RInv` is the conjunction of
these with `BreakerInv` and the types; there is one lemma per conjunct and one
step per action. `StepIsBreakerStep` shows that whatever a caller does is one
breaker operation or none, so that the contract holds of the composition.

*The file store.* `StoreInv` says where a key can be, by the position of the
thread that claimed it: there is one flush at most and one holder of a key
(`OneFlush`, `OneHolder`); what a flush is about to put in place is the map
(`HeldIsKnown`); the file is whole and, until an unreadable start, behind the map
(`FileBehind`). `Counted` bounds the charges: a key that the map or the file does
not know, or that somebody is still to charge, was charged for once less than it
may be. This is what `AtMostOnce` lacks: a holder's charge must still fit.
`Explained` says of every key in map or file that somebody charged for it, gave it
up or holds it. The contract's steps then follow action by action
(`ContractStep`): the rename is `Save`, the other steps of a flush are stutters,
and a start that cannot read the file is `Forget`.

*The Rust ledger.* That the file has lost at most two vouched keys per tear is
not inductive: a reload puts a key in the mirror, the next append spoils its
line, and `record` then vouches for it from the mirror. `LossPaidFor` counts the
keys of the mirror as well, and owes two keys for a line whose newline is
missing: the one that is on it and the one that may come to share it. The lemmas
`AppendedShape`, `PiecesKept` and `LoadedAfter` say what an append does to the
lines and to what a reload finds.

*CockroachDB.* At most one request of a client is with the server
(`OneRequest`), because the next attempt follows only an answer; `EffectKnown`
says what that request's answer means for the effect.

*The sender.* `NonceBudget` bounds the *nonces* of a run, those it ever sent with
the one it holds, by one and the refreshes; `MinedNonces` gives each nonce one
transaction; hence the bound on landings. `PairsExplained` says of any two runs
of a key that are past the guard or have a transaction somewhere that one is
excused to the other. It is kept when a run passes the guard because of
`Recorded`: a `sign_send` that returned wrote the key, so that a run whose key is
not recorded can only meet runs that are under way or never had one return.

*Fees.* `FeeCovers` says that the fee a run holds is at least that of all it sent
at its nonce, and more once bumped (`BumpRaises`: the bump adds one, so that fees
rise even from 0). After a refresh the fee starts over, and the argument is about
nonces instead: `TooLowIsTrue`, the node says so only of a nonce that is taken;
a taken nonce stays taken; and `FetchedIsFree`, the nonce fetched is not taken
if pending transactions are counted, which needs that a free one exists among
the first `Cardinality(pool) + 1` (`SomeFree`) and a least one
(`LeastOne`).

*Receipts.* A receipt is looked up by hash, and two runs of a key at one nonce and
fee have the same. `IsHeld` says of every transaction a client knows to be taken
that its nonce is taken, by itself or by what outbids it, there or on chain. The
node keeps it so, since it replaces for a higher fee only and `Outbids` is
transitive; so a mined transaction of the same nonce and fee is this very one.

*The webhook.* `HandledIsConfigured`: between the digest and the store a delivery
carries the secret that was configured when it came in and its signature was
made with. The action property `StoresSigned` is then that of one step.

*Fetches and ladders.* `ListenersMatchAttempts` is inductive once it is known
whose abort a controller carries (`CallerAborted`, `ReasonGiven`). For the ladder
one needs that an outcome never changes (`OutcomeWhenDone`): a fetch goes on after
its ladder has left it, and must not reach the trail any more. `TrailSoFar` fixes
the trail of an unfinished ladder by its rung, and `TrailsConcatenated` says what
the last rung adds. The two action properties are those of one step (`Reports`,
`SendsNothing`), which `TierStep` proves together with the invariant.

*Analyses and ingestion.* `PipelineInv` has a part for the analysts and one for
the store. The first (`AnalysisInv`) says of an analyst that the query it waits for
is its own, of this run and for the entity it is at (`WaitsForOwn`), and of a
query that is still running that its owner has it in hand or has reported an
error for its entity (`QueryOK`). Most lemmas use of the other actors only
`QueriesKept`: queries are added and end, and nothing else happens to them. The
second (`StoreInv`) is what `FreshUnlessRaced` lacks: an ingestion that was not
overtaken holds nothing older than the object (`NotOvertaken`), so that the object
has what was confirmed, so that a query that succeeds reads what its `floor`
promised (`ReadFresh`).

*The signed ledger.* `ChainInv` says of every signature in the file, and of every
object's `_last_sig`, that a ledger made it, or that it is the start of the chain
or none that verifies (`LinesSigned`, `HeadSigned`); and of every record written
that it was signed behind a signature known before (`EntrySigned`). A signature
tells its content and the one before it (`Signed`), so that the chain of an
accepted line can be traced back whatever the file went through
(`AcceptedSignature`). `FileInv` adds what holds while nobody edits: the lines are
the records issued, each chained to the line before it unless that is of another
object or of an append that failed (`Follows`), and so is what each object will
write next (`InStep`).

*The limiter.* `GuardInv` says of every client that the recent part of what the
limiter stores is the recent part of what it admitted, oldest first and no longer
than the limit (`Sees`), and that a promised wait is what is left to the oldest of
these, or over with room to spare (`Honest`). The limiter cleans only when it is asked, so that
the stored lists differ and only their recent parts agree. `RecentAppend`,
`RecentOlder`, `RecentOrdered` and `RecentShrinks` say what admitting and time do to the
recent part. `KeyIsClient` is where `OwnLimiter` is used.

*The gate.* `BuildGateConsistent`: of whatever list, the gate that `build_gate`
makes is consistent, because the filter keeps exactly the members it should
(`KeptMembers`).

*Backoff.* `PowerOfTwo` doubles (`PowerOfTwoSteps`) and outgrows its argument
(`PowerOfTwoGrows`); hence a shift that loses bits is of a power that exceeds every
cap that fits in a word, and in milliseconds the code's ceiling is the exact one
(`CeilingIsExact`). `MillisOfDuration` and `RoundedDown` say what the conversion
takes away: never more than there is, so that no sleep exceeds what the policy
asks for, and where the word holds the delays less than a millisecond in the end
and the fraction of `base_delay` times 2^i. `SleepsCapped` carries it to all
recorded sleeps.

*Recursion.* `Kept` and `PowerOfTwo` are recursive functions. That such a function
exists is proved first (`KeepsExists`, `PowersExist`), by induction in the form of a
set: a set of naturals with 0 and with all successors is all of `Nat`
(`SetInduction`, from the well-foundedness of `Nat`), and likewise for sequences and
`Append` (`SeqSetInduction`). Stated of sets, the lemmas need no operator as a
parameter.

*Only model-checked.* The liveness properties, which depend on fairness and
ENABLED: `AsyncCallsEnd`, `TrialResolves`, `Recovers`, `RequestsEnd` of the store,
`CacheRecovers`, `Resolves`, `CallsEnd`, `AnalysesEnd`. Of the
configurations beside the runs, `RunsEnd` and `OncePerMemory`. All other
properties of the passing runs are theorems. Where a count saturates (`CountCap`,
`ExecutedCap`), nothing that the code or a property compares it with lies beyond
the cap.

## 6. Where code and documentation disagree

One is listed as a finding, with a run.

* **second_landing**, `onchain/typescript/src/index.ts:379`, and the same in
  Python. Attempt 1 times out, attempt 2 resends at the same nonce with a higher
  fee; meanwhile attempt 1 is mined and the node refuses the resend as
  nonce-too-low; the nonce is refreshed and attempt 3 submits the write again,
  which lands too. `onchain/README.md:187-189` says that a resend replaces the
  earlier transaction instead of queuing a second one.
  `LandingsBoundedByRefreshes` is what is true. `SecondLanding.cfg` allows one run
  of three attempts and no lost answers.

TLC finds each of the following statements violated under the configuration
named; where a `*Claims` configuration has several, all but one are commented
out. Some are consequences of a design that is documented elsewhere.

| cfg (module) | property | statement | what happens |
|---|---|---|---|
| `ResilientClaims` (`MCResilient`) | `OnlyDocumentedTransitions` | diagram in `circuit.py:7-12` | a success reported late takes OPEN to CLOSED within the cooldown |
| | `ConcurrentTrialsBounded` | `circuit.py:56`, "Maximum number of concurrent trial calls" | trials of the last period run on beside those of the present one |
| | `ExhaustionIsReported` | `retry.py:47`, "Raised when all retry attempts have been used without success" | the last error is raised itself |
| `OnchainClaims` (`MCOnchainSend`) | `NoSubmissionWhileOpen` | `onchain/README.md:22-23`, "stops submitting after N consecutive failures" | a run that passed the guard goes on resending |
| | `OneTrial` | `index.ts:138`, "allow one trial through" | all runs pass until one reports |
| | `OneRunBroadcasts` | `onchain/README.md:25-27`, "a crashed-then-retried job that already broadcast will short-circuit" | the crash comes before the record, or the runs overlap |
| `StoreClaims` (`FileIdempotency`) | `NeverTwice` | `python/README.md:92`, "runs exactly once" | a file unreadable at start empties the store |
| | `ReplayedWasCompleted` | `idempotency.py:9`, "has key been completed before?" | a claim whose charge failed replays as done |
| `LedgerClaims` (`MCKeyLedger`) | `RecordedKeysSurvive` | `ledger.rs:62-64`, only "a partially written final line" is ignored | the key recorded behind a torn line shares its line and is skipped with it |
| | `NoDuplicateExecution` | `ledger.rs:33`, "Guards ... against duplicate execution" | two threads see the key missing |
| `AuditClaims` (`MCAuditLedger`) | `NoFalseAlarm` | `audit_ledger.py:148`, "reports the first tampered line" | two ledger objects on one file chain apart; a record follows one whose append did not return |
| | `VerifyReports` | the same | half a line makes verify raise |
| `CrdbClaims` (`CrdbRetry`) | `BackoffGrows` | `retry.rs:58-59`, `min(base * 2^attempt, max_delay)` | a base below a millisecond gives no backoff at all, however often it is doubled |
| `InlineAuth` (`MCRouteGuard`) | `WindowBounded` | `requireAuth` limits rates | inline options bring a new limiter each time |
| `ForgeClaims` (`MCForgeApp`) | `CachedWithinTtl` | `resolver.js:26`, "max age ... before the entry is considered stale" | a cache hit is written back with a fresh timestamp |
| | `NeverRejects` (`Wrapped = FALSE`) | `resolver.js:12-13`, "Each step swallows its own errors" | accessors not wrapped in `readCache`/`writeCache` reject |
| `ScopeClaims` (`MCScopePipeline`) | `AllRowsReturned` | `scope-core/README.md:59`, "then returns rows" | one page is read, header row included |
| | `StoredNewest` | what is stored never gets older (no statement of the documentation) | a slow ingestion writes over a newer one |

## 7. What is left out

Abstractions inside the models:

* Backoff lengths, and in `Resilient` and `SafeFetch` the jitter, are left to the
  scheduler: any delay can occur. `CrdbRetry` computes them.
* Error texts, receipts, HTTP statuses and digests are reduced to the classes
  the code tells apart. HMAC and canonical JSON are taken to be injective, and
  HMAC not to be forged.
* `ResendOutbids` is about a strict increase of every field. A node's minimum for a
  replacement (often 10 percent) is the bump factor's business, and not covered.
* `clientIp` goes on to the next header when the first has too few hops
  (`proxyGuard.ts:133-155`); with no more trusted proxies than there are, as
  `GuardAssumption` has it, that does not happen and is left out.
* `AbortIsFinal` lets a call succeed after the abort when its last request is
  answered: the answer was there already, or the fetch ignores its signal.
* In `OnchainSend` the Python client's receipt that comes too late and is dropped
  is one of the timeouts. Its breaker has no lock; the methods are taken to be
  atomic all the same.
* The runs of Python's `resolve_tiered` are those of `TieredFetch` without
  `Released`: it runs one source after the other and abandons none. Its
  `miss_sentinel` is one way to miss, a bare value has no date (`Undated`).
* In `AthenaAnalysis` a call to Athena takes less than a tick, RUNNING stands for
  QUEUED too and FAILED for CANCELLED; `poll_until_terminal` is the loop of `wait`
  again; rows are counted, not kept. Every ingestion writes one key.
* `VerificationGate` builds what its receiver reads back without a hint, since a
  dict carries none; rendering is left out.
* Hooks (`onRetry`, `onFailure`, `allowlist`) do not throw.
* A crash is one of the process: file operations that completed stay done. The
  directory entry of `os.replace` (`atomic.py:67`) is not synced by the code, so
  that a power loss could undo it.
* Clocks are monotonic; `Date.now` (`rateLimit.ts:43`) may step back.
* Ledger lines are not made of characters: an append torn inside a UTF-8
  character makes the Rust ledger (`ledger.rs:99`) refuse to open.
* The ports of the audit ledger sign different canonical forms
  (`audit_ledger.py:77`); that a ledger of one port verifies in another is not
  claimed.
* Floats: `retry.py:98` raises OverflowError in its power from some 1025
  attempts on.

Seen in the code, and not covered: a sync trial that hangs keeps its slot for
ever (`retry.py:249`), so that `TrialResolves` speaks of async trials; with all
slots taken `retry_after` is 0 (`circuit.py:131`), which the contract allows;
a `fetchState` that throws is not reported to the on-chain breaker
(`index.ts:340`, also so in `FetchFails`); `AttemptsReported` in `SafeFetch`
states that errors carry the number of attempts made (`errors.ts`), while those
of an attempt are rethrown with 1 (`retry.ts:107`); an `onFailure` that throws in the
cache tier is taken for a second failure of it (`tieredSource.ts:231`);
the body of a response has no time limit (`safeFetch.ts:154`).

Not modelled: *TypeScript validation*, *FastAPI helpers*, *Forge response
helpers* are functions of one value, without state, failures or order; *Forge
fetch* is one attempt of `safeFetch`, which `SafeFetch` models with its retries;
the *package facades* only re-export.

Beyond the prover, and therefore only checked: temporal properties under
fairness.

## 8. Plan

Done, in this order: breaker, contract, callers, proofs; on-chain sender; file
store; ledgers; guards; `SafeFetch` and `TieredFetch`; `CrdbRetry`; Forge;
verification gate; analysis and ingestion; the store's contract and the in-memory
store; the sender's Python version and fee pair; proofs for the stores, the
sender, CockroachDB and the webhook; proofs for fetches and ladders, analyses and
ingestion, the signed ledger, the limiter, the gate and backoff, with which every
property of a passing run that is not liveness is a theorem.

Left:

1. An abstract sliding window (the multiset of admitted times) which
   `RouteGuard` implements, as `BreakerContract` is to the breaker. `Sees` is the
   refinement mapping's invariant.
2. `OncePerMemory` of `ClaimStore` as a theorem, and with `StoreKeepsContract` a
   second way to `AtMostOnce`.
3. Two objects of `FileIdempotency` on one file, which the code does not support
   and its documentation does not forbid.
