----------------------------- MODULE OnchainSend -----------------------------
(***************************************************************************)
(* Concurrent calls of send_with_retry                                     *)
(* (onchain/python/resilient_onchain/client.py), or of its TypeScript twin *)
(* sendWithRetry (onchain/typescript/src/index.ts), from one account,      *)
(* sharing one off-chain circuit breaker, against a chain.                 *)
(*                                                                         *)
(* A client is one call (a run), for a job, that is, an idempotency key.   *)
(* Runs of one job overlap or follow each other, as the application and    *)
(* its crashes have it.  A run's program counter is                        *)
(*   "new"     not called yet                                              *)
(*   "breaker" the idempotency guard let it pass                           *)
(*   "fetch"   past the guards, about to call fetch_state                  *)
(*   "send"    at the top of the loop (the backoff is spent here)          *)
(*   "sent"    in sign_send                                                *)
(*   "wait"    in wait(): sign_send has returned                           *)
(*   "error"   the node's refusal (err) is on its way back                 *)
(*   "refetch" after nonce-too-low, in fetch_state                         *)
(*   "ended"   it returned, threw or died                                  *)
(* What lies between two such calls is one step (threads of the Python     *)
(* version are not interleaved inside a method of the breaker).  A timeout *)
(* abandons the attempt without cancelling it: its request stays in        *)
(* flight, its transaction in the pool.                                    *)
(*                                                                         *)
(* The languages differ in two places.  TypeScript races the attempt       *)
(* against a timer, which may overtake an answer; Python looks at the      *)
(* clock when the attempt has returned.  And in Python a KeyboardInterrupt *)
(* during an attempt is one more retryable error (except BaseException),   *)
(* while in a backoff it ends the run.                                     *)
(*                                                                         *)
(* sign_send and the store behind alreadySent are the application's: it    *)
(* broadcasts, and when the node has taken the transaction writes the key  *)
(* ("written when a tx is first broadcast") and returns.  A timer of       *)
(* TypeScript's abandons the call, which goes on by itself.                *)
(*                                                                         *)
(* The node and the chain are external; they are modelled as far as the    *)
(* client's code and its adapters rely on them: one transaction per nonce, *)
(* replaced only for a higher fee, mined in nonce order.                   *)
(***************************************************************************)
EXTENDS Integers, FiniteSets

CONSTANTS
  Clients,        \* calls of send_with_retry
  Jobs,           \* idempotency keys
  MaxAttempts,    \* opts.max_attempts
  FeeMode,        \* opts.fee_mode
  BumpMilli,      \* round(bump_factor * 1000)
  BaseFee,        \* the gas_price or max_fee_per_gas fetch_state reports
  BasePriority,   \* its max_priority_fee_per_gas, or NoPriority
  FetchPending,   \* whether fetch_state counts pending transactions
  Retransmits,    \* whether the provider repeats a request without an answer
  Threshold,      \* breaker threshold
  Cooldown,       \* breaker cooldown, in ticks; 0 never half-opens
  CountCap        \* where the model stops counting consecutive failures

NoPriority == -1

\* The BAD_CONFIG checks; fees are whole numbers of wei.
ASSUME OnchainAssumption ==
  /\ IsFiniteSet(Clients)
  /\ MaxAttempts \in Nat /\ MaxAttempts >= 1
  /\ BumpMilli \in Nat /\ BumpMilli >= 1000
  /\ FeeMode \in {"legacy", "eip1559"}
  /\ BaseFee \in Nat
  /\ BasePriority \in Nat \cup {NoPriority}
  /\ FetchPending \in BOOLEAN /\ Retransmits \in BOOLEAN
  /\ Threshold \in Nat /\ Threshold >= 1
  /\ Cooldown \in Nat
  /\ CountCap \in Nat /\ CountCap >= Threshold

VARIABLES
  language,    \* which of the two versions runs
  job,         \* job[c], its idempotency key
  pc, nonce, fee, attempt, err, result,   \* locals of each run
  refreshes,   \* history: its nonce refreshes
  trial,       \* history: whether the run passed an expired, still open breaker
  seen,        \* the application's durable record for alreadySent
  signing,     \* transactions whose sign_send waits for the node's answer
  marking,     \* those whose sign_send has it and is to write the record
  returned,    \* history: the runs of which a sign_send call returned
  excused,     \* history: see Start
  failures,    \* consecutiveFailures of the breaker
  opened,      \* time since openedAt, saturated at Cooldown; NotOpened if null
  inflight,    \* requests on their way to the node
  pool,        \* the node's pending transactions
  mined        \* the transactions of the account that landed

clientVars == <<language, job, pc, nonce, fee, attempt, err, result, refreshes, trial, excused>>
appVars == <<seen, signing, marking, returned>>
breakerVars == <<failures, opened>>
chainVars == <<inflight, pool, mined>>
vars == <<language, job, pc, nonce, fee, attempt, err, result, refreshes, trial, excused,
          seen, signing, marking, returned, failures, opened, inflight, pool, mined>>

NotOpened == -1

UnderWay == {"breaker", "fetch", "send", "sent", "wait", "error", "refetch"}
PC == UnderWay \cup {"new", "ended"}
Err == {"none", "nonce", "retryable", "fatal"}
Result == {"none", "success", "ALREADY_SENT", "CIRCUIT_OPEN", "TX_FAILED",
           "NON_RETRYABLE", "RETRY_EXHAUSTED", "fetch_error", "interrupted", "crashed"}

\* FeeFields: what the fee mode uses of it.
FeeField == IF FeeMode = "legacy" THEN {"gas_price"}
            ELSE {"max_fee_per_gas", "max_priority_fee_per_gas"}
Fee == [FeeField -> Nat]
NoFee == [f \in FeeField |-> 0]

\* A node replaces a transaction only if every field is raised.
Outbids(f, g) == \A x \in FeeField : f[x] > g[x]

\* A broadcast transaction.  Job, nonce and fee determine its hash.
Tx == [by : Clients, attempt : 1 .. MaxAttempts, nonce : Nat, fee : Fee]

SameHash(t, u) == job[t.by] = job[u.by] /\ t.nonce = u.nonce /\ t.fee = u.fee

\* The transaction of c's present attempt.
Current(c) == [by |-> c, attempt |-> attempt[c], nonce |-> nonce[c], fee |-> fee[c]]

-----------------------------------------------------------------------------
Init ==
  /\ language \in {"python", "typescript"}
  /\ job \in [Clients -> Jobs]
  /\ pc = [c \in Clients |-> "new"]
  /\ nonce = [c \in Clients |-> 0]
  /\ fee = [c \in Clients |-> NoFee]
  /\ attempt = [c \in Clients |-> 1]
  /\ err = [c \in Clients |-> "none"]
  /\ result = [c \in Clients |-> "none"]
  /\ refreshes = [c \in Clients |-> 0]
  /\ trial = [c \in Clients |-> FALSE]
  /\ excused = [c \in Clients |-> {}]
  /\ seen = {}
  /\ signing = {}
  /\ marking = {}
  /\ returned = {}
  /\ failures = 0
  /\ opened = NotOpened
  /\ inflight = {}
  /\ pool = {}
  /\ mined = {}

-----------------------------------------------------------------------------
(* The chain, as the adapters see it. *)

\* Transactions mined for the account: the latest transaction count.
Latest == Cardinality(mined)

\* What the adapter's fetch_state returns for the nonce.
FetchedNonce ==
  LET Free(n) == n >= Latest /\ \A t \in pool : t.nonce # n
  IN  IF FetchPending
        THEN CHOOSE n \in Latest .. Latest + Cardinality(pool) :
               Free(n) /\ \A m \in Latest .. n - 1 : ~Free(m)
        ELSE Latest

\* initial_fee: without a priority fee of its own, the cap serves as one.
InitialFee ==
  [x \in FeeField |->
     IF x = "max_priority_fee_per_gas" /\ BasePriority # NoPriority
       THEN BasePriority ELSE BaseFee]

\* Slip: a bump that may leave a small fee as it is.
BumpFee_NoFloor(f) == [x \in FeeField |-> (f[x] * BumpMilli) \div 1000]

\* bump_fee
BumpFee(f) == [x \in FeeField |-> (f[x] * BumpMilli) \div 1000 + 1]

-----------------------------------------------------------------------------
(* The breaker.  Nothing locks it in Python. *)

HalfOpen == Cooldown > 0 /\ opened >= Cooldown

\* assert_closed does not raise
AssertClosed == opened = NotOpened \/ HalfOpen

RecordSuccess ==
  /\ failures' = 0
  /\ opened' = NotOpened

RecordFailure ==
  /\ failures' = IF failures < CountCap THEN failures + 1 ELSE CountCap
  /\ opened' = IF failures + 1 >= Threshold THEN 0 ELSE opened

-----------------------------------------------------------------------------
(* How a run ends or goes on. *)

\* The call returns or throws; its locals are gone.
End(c, res) ==
  /\ pc' = [pc EXCEPT ![c] = "ended"]
  /\ result' = [result EXCEPT ![c] = res]
  /\ nonce' = [nonce EXCEPT ![c] = 0]
  /\ fee' = [fee EXCEPT ![c] = NoFee]
  /\ attempt' = [attempt EXCEPT ![c] = 1]
  /\ err' = [err EXCEPT ![c] = "none"]
  /\ trial' = [trial EXCEPT ![c] = FALSE]
  /\ UNCHANGED <<language, job, refreshes, excused>>

\* The next attempt, at nonce n and fee f.
Again(c, n, f) ==
  /\ pc' = [pc EXCEPT ![c] = "send"]
  /\ nonce' = [nonce EXCEPT ![c] = n]
  /\ fee' = [fee EXCEPT ![c] = f]
  /\ attempt' = [attempt EXCEPT ![c] = @ + 1]
  /\ err' = [err EXCEPT ![c] = "none"]
  /\ UNCHANGED <<language, job, result, trial, excused>>

\* Slip: the nonce is fetched again for every attempt.
Failed_Unpinned(c, e) ==
  /\ RecordFailure
  /\ IF e = "fatal" THEN End(c, "NON_RETRYABLE")
     ELSE IF attempt[c] = MaxAttempts THEN End(c, "RETRY_EXHAUSTED")
     ELSE Again(c, FetchedNonce, BumpFee(fee[c])) /\ UNCHANGED refreshes

\* The common end of the except block, for every error that is not a revert.
Failed(c, e) ==
  /\ RecordFailure
  /\ IF e = "fatal" THEN End(c, "NON_RETRYABLE")
     ELSE IF attempt[c] = MaxAttempts THEN End(c, "RETRY_EXHAUSTED")
     ELSE Again(c, nonce[c], BumpFee(fee[c])) /\ UNCHANGED refreshes

-----------------------------------------------------------------------------
(* The steps of a run. *)

\* The runs of c's job that the guard cannot tell c of: those under way, and
\* those that ended before any sign_send of theirs returned.
Unrecorded(c) ==
  {d \in Clients \ {c} : /\ job[d] = job[c]
                         /\ pc[d] \in UnderWay \/ (pc[d] = "ended" /\ d \notin returned)}

\* Slip: the idempotency guard is not consulted.
Start_Unguarded(c) ==
  /\ pc[c] = "new"
  /\ pc' = [pc EXCEPT ![c] = "breaker"]
  /\ excused' = [excused EXCEPT ![c] = Unrecorded(c)]
  /\ UNCHANGED <<language, job, nonce, fee, attempt, err, result, refreshes, trial,
                 appVars, breakerVars, chainVars>>

\* The application calls; the guards come before anything is spent.
Start(c) ==
  /\ pc[c] = "new"
  /\ IF job[c] \in seen
       THEN /\ pc' = [pc EXCEPT ![c] = "ended"]
            /\ result' = [result EXCEPT ![c] = "ALREADY_SENT"]
       ELSE /\ pc' = [pc EXCEPT ![c] = "breaker"]
            /\ UNCHANGED result
  /\ excused' = [excused EXCEPT ![c] = Unrecorded(c)]
  /\ UNCHANGED <<language, job, nonce, fee, attempt, err, refreshes, trial,
                 appVars, breakerVars, chainVars>>

CheckBreaker(c) ==
  /\ pc[c] = "breaker"
  /\ IF AssertClosed
       THEN /\ pc' = [pc EXCEPT ![c] = "fetch"]
            /\ trial' = [trial EXCEPT ![c] = opened # NotOpened]
            /\ UNCHANGED result
       ELSE /\ pc' = [pc EXCEPT ![c] = "ended"]
            /\ result' = [result EXCEPT ![c] = "CIRCUIT_OPEN"]
            /\ UNCHANGED trial
  /\ UNCHANGED <<language, job, nonce, fee, attempt, err, refreshes, excused,
                 appVars, breakerVars, chainVars>>

\* Pin nonce and fee.
Fetch(c) ==
  /\ pc[c] = "fetch"
  /\ pc' = [pc EXCEPT ![c] = "send"]
  /\ nonce' = [nonce EXCEPT ![c] = FetchedNonce]
  /\ fee' = [fee EXCEPT ![c] = InitialFee]
  /\ UNCHANGED <<language, job, attempt, err, result, refreshes, trial, excused,
                 appVars, breakerVars, chainVars>>

\* fetch_state raises, or reports no fee for the mode (BAD_FEE): nothing catches
\* it, and the breaker is not told.
FetchFails(c) ==
  /\ pc[c] \in {"fetch", "refetch"}
  /\ End(c, "fetch_error")
  /\ UNCHANGED <<appVars, breakerVars, chainVars>>

\* A KeyboardInterrupt while the backoff before a retry is slept.
Interrupted(c) ==
  /\ language = "python"
  /\ pc[c] = "send"
  /\ attempt[c] > 1
  /\ End(c, "interrupted")
  /\ UNCHANGED <<appVars, breakerVars, chainVars>>

\* sign_send is called and broadcasts.
Send(c) ==
  /\ pc[c] = "send"
  /\ pc' = [pc EXCEPT ![c] = "sent"]
  /\ inflight' = inflight \cup {Current(c)}
  /\ signing' = signing \cup {Current(c)}
  /\ UNCHANGED <<language, job, nonce, fee, attempt, err, result, refreshes, trial, excused,
                 seen, marking, returned, breakerVars, pool, mined>>

\* sign_send writes the key and returns, to its attempt unless that was abandoned.
Mark(t) ==
  /\ t \in marking
  /\ marking' = marking \ {t}
  /\ seen' = seen \cup {job[t.by]}
  /\ returned' = returned \cup {t.by}
  /\ pc' = IF pc[t.by] = "sent" /\ t = Current(t.by)
             THEN [pc EXCEPT ![t.by] = "wait"] ELSE pc
  /\ UNCHANGED <<language, job, nonce, fee, attempt, err, result, refreshes, trial, excused,
                 signing, breakerVars, chainVars>>

\* sign_send raises e for request t, in its attempt unless that was abandoned.
Raise(t, e) ==
  /\ signing' = signing \ {t}
  /\ IF pc[t.by] = "sent" /\ t = Current(t.by)
       THEN /\ pc' = [pc EXCEPT ![t.by] = "error"]
            /\ err' = [err EXCEPT ![t.by] = e]
       ELSE UNCHANGED <<pc, err>>

Rivals(t) == {u \in pool : u.nonce = t.nonce}

\* The node accepts t, in place of a cheaper one with its nonce if there is one.
\* Its answer reaches sign_send, if that still waits.  Or it is lost and the
\* provider then transmits t a second time: that is what "already known", one of
\* the nonce-too-low texts, is an answer to.
NodeAccepts(t) ==
  /\ t \in inflight
  /\ t.nonce >= Latest
  /\ \A u \in Rivals(t) : Outbids(t.fee, u.fee)
  /\ pool' = (pool \ Rivals(t)) \cup {t}
  /\ \/ /\ inflight' = inflight \ {t}
        /\ signing' = signing \ {t}
        /\ marking' = marking \cup ({t} \cap signing)
     \/ Retransmits /\ UNCHANGED <<inflight, signing, marking>>
  /\ UNCHANGED <<clientVars, seen, returned, breakerVars, mined>>

\* The node refuses t, or the network loses it ("retryable") or the node finds
\* the account unable to pay ("fatal").
NodeRefuses(t) ==
  /\ t \in inflight
  /\ inflight' = inflight \ {t}
  /\ \/ /\ t.nonce < Latest \/ \E u \in Rivals(t) : SameHash(t, u)
        /\ Raise(t, "nonce")
     \/ /\ t.nonce >= Latest
        /\ \E u \in Rivals(t) : ~Outbids(t.fee, u.fee) /\ ~SameHash(t, u)
        /\ Raise(t, "retryable")
     \/ \E e \in {"retryable", "fatal"} : Raise(t, e)
  /\ UNCHANGED <<language, job, nonce, fee, attempt, result, refreshes, trial, excused,
                 seen, marking, returned, breakerVars, pool, mined>>

\* The next transaction of the account is mined, successfully or reverting.
Mine(t) ==
  /\ t \in pool
  /\ t.nonce = Latest
  /\ pool' = pool \ {t}
  /\ \E ok \in BOOLEAN : mined' = mined \cup {[tx |-> t, ok |-> ok]}
  /\ UNCHANGED <<clientVars, appVars, breakerVars, inflight>>

\* Slip: any receipt counts as success.
Receipt_Unchecked(c) ==
  /\ pc[c] = "wait"
  /\ \E m \in mined : SameHash(m.tx, Current(c))
  /\ RecordSuccess
  /\ End(c, "success")
  /\ UNCHANGED <<appVars, chainVars>>

\* wait() resolves in time; a confirmed revert is terminal.
Receipt(c) ==
  /\ pc[c] = "wait"
  /\ \E m \in mined :
       /\ SameHash(m.tx, Current(c))
       /\ IF m.ok THEN RecordSuccess /\ End(c, "success")
                  ELSE RecordFailure /\ End(c, "TX_FAILED")
  /\ UNCHANGED <<appVars, chainVars>>

\* The attempt's deadline passes, or sign_send or wait() raises without an answer
\* of the node's (in Python also when interrupted).  Python sees the deadline
\* once wait() has returned, possibly with a receipt that is then dropped; only
\* in TypeScript can the timer overtake sign_send, which goes on, or the node's
\* refusal.
TimesOut(c) ==
  /\ \/ pc[c] \in {"sent", "wait"}
     \/ pc[c] = "error" /\ language = "typescript"
  /\ Failed(c, "retryable")
  /\ \/ signing' = signing \ {Current(c)} /\ marking' = marking \ {Current(c)}
     \/ language = "typescript" /\ UNCHANGED <<signing, marking>>
  /\ UNCHANGED <<seen, returned, chainVars>>

\* The except block, on the node's answer.
OnError(c) ==
  /\ pc[c] = "error"
  /\ IF err[c] = "nonce"
       THEN /\ pc' = [pc EXCEPT ![c] = "refetch"]
            /\ err' = [err EXCEPT ![c] = "none"]
            /\ UNCHANGED <<language, job, nonce, fee, attempt, result, refreshes, trial,
                           excused, breakerVars>>
       ELSE Failed(c, err[c])
  /\ UNCHANGED <<appVars, chainVars>>

\* fetch_state answers after nonce-too-low.  Only the last attempt goes on to
\* the breaker and ends the run; any other starts over with a fresh nonce.
Refetch(c) ==
  /\ pc[c] = "refetch"
  /\ IF attempt[c] < MaxAttempts
       THEN /\ Again(c, FetchedNonce, InitialFee)
            /\ refreshes' = [refreshes EXCEPT ![c] = @ + 1]
            /\ UNCHANGED breakerVars
       ELSE Failed(c, "retryable")
  /\ UNCHANGED <<appVars, chainVars>>

\* The process dies: runs, sign_send calls and breaker are gone, the chain and
\* seen are not.
Crash ==
  LET dead == {c \in Clients : pc[c] \in UnderWay} IN
  /\ dead # {} \/ signing \cup marking # {}
  /\ pc' = [c \in Clients |-> IF c \in dead THEN "ended" ELSE pc[c]]
  /\ result' = [c \in Clients |-> IF c \in dead THEN "crashed" ELSE result[c]]
  /\ nonce' = [c \in Clients |-> 0]
  /\ fee' = [c \in Clients |-> NoFee]
  /\ attempt' = [c \in Clients |-> 1]
  /\ err' = [c \in Clients |-> "none"]
  /\ trial' = [c \in Clients |-> FALSE]
  /\ signing' = {}
  /\ marking' = {}
  /\ failures' = 0
  /\ opened' = NotOpened
  /\ UNCHANGED <<language, job, refreshes, excused, seen, returned, chainVars>>

Tick ==
  /\ opened \in 0 .. Cooldown - 1
  /\ opened' = opened + 1
  /\ UNCHANGED <<clientVars, appVars, failures, chainVars>>

Advance(c) ==
  \/ CheckBreaker(c) \/ Fetch(c) \/ FetchFails(c) \/ Send(c)
  \/ Receipt(c) \/ TimesOut(c) \/ OnError(c) \/ Refetch(c)

Next ==
  \/ \E c \in Clients : Start(c) \/ Advance(c) \/ Interrupted(c)
  \/ \E t \in inflight : NodeAccepts(t) \/ NodeRefuses(t)
  \/ \E t \in marking : Mark(t)
  \/ \E t \in pool : Mine(t)
  \/ Crash
  \/ Tick

Spec == Init /\ [][Next]_vars

\* Timers fire, sleeps end and fetch_state answers or raises; the node owes
\* nothing, since withTimeout bounds every wait for it (in Python: the timeout
\* the adapter is asked to pass to its RPC calls).
Fairness == \A c \in Clients : WF_vars(Advance(c))

FairSpec == Spec /\ Fairness

-----------------------------------------------------------------------------
(* Properties *)

TypeOK ==
  /\ language \in {"python", "typescript"}
  /\ job \in [Clients -> Jobs]
  /\ pc \in [Clients -> PC]
  /\ nonce \in [Clients -> Nat]
  /\ fee \in [Clients -> Fee]
  /\ attempt \in [Clients -> 1 .. MaxAttempts]
  /\ err \in [Clients -> Err]
  /\ result \in [Clients -> Result]
  /\ refreshes \in [Clients -> 0 .. MaxAttempts - 1]
  /\ trial \in [Clients -> BOOLEAN]
  /\ excused \in [Clients -> SUBSET Clients]
  /\ seen \subseteq Jobs /\ returned \subseteq Clients
  /\ signing \subseteq Tx /\ marking \subseteq Tx
  /\ failures \in 0 .. CountCap
  /\ opened \in {NotOpened} \cup 0 .. Cooldown
  /\ inflight \subseteq Tx /\ pool \subseteq Tx
  /\ \A m \in mined : m.tx \in Tx /\ m.ok \in BOOLEAN

Landed(c) == {m \in mined : m.tx.by = c}

\* The pinned nonce is what keeps retries from doubling the write: however late
\* abandoned attempts land, a run lands at most once for the nonce it first
\* pinned and once more for every nonce-too-low refresh.
LandingsBoundedByRefreshes ==
  \A c \in Clients : Cardinality(Landed(c)) <= 1 + refreshes[c]

\* A resend outbids every earlier transaction of its run at the same nonce,
\* wherever that one is: after a bump always, and after a refresh (which resets
\* the fee) provided that fetchState counts pending transactions.
ResendOutbids ==
  \A c \in Clients : pc[c] = "send" /\ (refreshes[c] = 0 \/ FetchPending) =>
    \A t \in inflight \cup pool :
      (t.by = c /\ t.nonce = nonce[c]) => Outbids(fee[c], t.fee)

\* A run that reports success has a transaction of its own on chain that did not
\* revert, although a receipt is looked up by hash and other runs of the job may
\* send the same transaction, and whatever was replaced.
SuccessLanded ==
  \A c \in Clients : result[c] = "success" => \E m \in Landed(c) : m.ok

\* Every transaction that is on its way, pending or landed.
Everywhere == inflight \cup pool \cup {m.tx : m \in mined}

\* Two runs of a job both broadcast only if, when one of them was let pass, the
\* other was under way, or had ended (died, given up or been interrupted) with
\* every sign_send of its abandoned before it could record the broadcast.  So
\* never after a run that had a receipt, or whose broadcast was answered.
DuplicatesExplained ==
  \A t, u \in Everywhere :
    job[t.by] = job[u.by] /\ t.by # u.by =>
      t.by \in excused[u.by] \/ u.by \in excused[t.by]

\* Every run comes to an end, whatever the node does.
RunsEnd == \A c \in Clients : pc[c] \in UnderWay ~> pc[c] = "ended"

-----------------------------------------------------------------------------
(* What the documentation says, and the code does not do. *)

\* "a bumped-fee resend replaces the prior dropped/underpriced tx instead of
\* queuing a second one"
NeverLandsTwice ==
  \A c \in Clients : Cardinality(Landed(c)) <= 1

\* "a crashed-then-retried job that already broadcast will short-circuit"
OneRunBroadcasts ==
  \A t, u \in Everywhere : job[t.by] = job[u.by] => t.by = u.by

\* "stops submitting after N consecutive failures"
NoSubmissionWhileOpen ==
  [][\A c \in Clients :
       pc[c] = "send" /\ pc'[c] = "sent" => AssertClosed]_vars

\* "Half-open: allow one trial through"
OneTrial == Cardinality({c \in Clients : trial[c]}) <= 1
=============================================================================
