----------------------------- MODULE TieredFetch -----------------------------
(***************************************************************************)
(* Calls of resolveTiered (typescript/src/tieredSource.ts; the ladder of   *)
(* python/src/cubiczan_resilience/tiered.py is the same) whose live tier   *)
(* is a safeFetch bounded by withTimeout (timeout.ts):                     *)
(*                                                                         *)
(*   resolveTiered({ live: () => withTimeout(safeFetch(url, opts), ms),    *)
(*                   cache, mock, maxCacheAge, maxCacheAgeHard })          *)
(*                                                                         *)
(* withTimeout releases the ladder, not the fetch, which goes on behind    *)
(* its back.  The rungs of a ladder are                                    *)
(*   "idle", "live"      not called; awaiting live()                       *)
(*   "cache", "hit"      awaiting cache(); resumed with a hit              *)
(*   "done"              settled                                           *)
(* mock() is one step with the failure of the tier above it, since nothing *)
(* it does concerns anyone else.  onFailure does not throw.  The age of    *)
(* the cache entry is saturated past MaxAgeHard.  A cache may return a     *)
(* bare value instead, whose age cannot be known.  Python's live() is a    *)
(* plain call, which nothing abandons: its runs are those without Released.*)
(***************************************************************************)
EXTENDS SafeFetch, Integers, Sequences

CONSTANTS
  Mocked,      \* calls with a mock tier; all have a cache tier
  MaxAge,      \* maxCacheAge
  MaxAgeHard   \* maxCacheAgeHard

ASSUME TierAssumption ==
  /\ Mocked \subseteq Calls
  /\ MaxAge \in Nat /\ MaxAgeHard \in Nat

VARIABLES
  rung,      \* rung[c], as above
  failures,  \* failures[c], the tiers reported as failed
  result,    \* result[c], the tier of the result ("stale" is the cache's with
             \* the stale flag), or "rejected"
  entry,     \* the age of the cache entry
  hit        \* hit[c], the age of what cache() gave c

tierVars == <<rung, failures, result, entry, hit>>

vars == <<fetchVars, tierVars>>

Past == MaxAgeHard + 1

\* What the code knows of a hit's age: Undated is None, or undefined.
Undated == -1

Ages == {Undated} \cup 0 .. Past

Init ==
  /\ FetchInit
  /\ rung = [c \in Calls |-> "idle"]
  /\ failures = [c \in Calls |-> <<>>]
  /\ result = [c \in Calls |-> "none"]
  /\ entry = Past
  /\ hit = [c \in Calls |-> 0]

Climb(c, to) == rung' = [rung EXCEPT ![c] = to]

Fail(c, tier) == failures' = [failures EXCEPT ![c] = Append(@, tier)]

Return(c, tier) ==
  /\ Climb(c, "done")
  /\ result' = [result EXCEPT ![c] = tier]

-----------------------------------------------------------------------------
(* live *)

Resolve(c) ==
  /\ rung[c] = "idle"
  /\ Climb(c, "live")
  /\ Call(c)
  /\ UNCHANGED <<failures, result, entry, hit>>

LiveAnswers(c) ==
  /\ rung[c] = "live" /\ outcome[c] = "response"
  /\ Return(c, "live")
  /\ UNCHANGED <<fetchVars, failures, entry, hit>>

LiveThrows(c) ==
  /\ rung[c] = "live" /\ outcome[c] \in Errors
  /\ Fail(c, "live")
  /\ Climb(c, "cache")
  /\ UNCHANGED <<fetchVars, result, entry, hit>>

\* Slip: the time limit is an attempt's, which is not retried after it.
Released_OnTimeout(c) ==
  /\ rung[c] = "live" /\ place[c] = "settled" /\ reply[c] = "reason"
  /\ Fail(c, "live")
  /\ Climb(c, "cache")
  /\ UNCHANGED <<fetchVars, result, entry, hit>>

\* withTimeout rejects first; safeFetch is left running.
Released(c) ==
  /\ rung[c] = "live" /\ place[c] # "done"
  /\ Fail(c, "live")
  /\ Climb(c, "cache")
  /\ UNCHANGED <<fetchVars, result, entry, hit>>

-----------------------------------------------------------------------------
(* cache and mock *)

\* What follows the cache: the mock, if there is one and it does not throw.
AfterCache(c) ==
  /\ Climb(c, "done")
  /\ \/ /\ c \in Mocked
        /\ failures' = [failures EXCEPT ![c] = @ \o <<"cache">>]
        /\ result' = [result EXCEPT ![c] = "mock"]
     \/ /\ failures' = [failures EXCEPT ![c] =
               @ \o IF c \in Mocked THEN <<"cache", "mock">> ELSE <<"cache">>]
        /\ result' = [result EXCEPT ![c] = "rejected"]

\* cache() throws, or has no entry.
CacheMisses(c) ==
  /\ rung[c] = "cache"
  /\ AfterCache(c)
  /\ UNCHANGED <<fetchVars, entry, hit>>

\* cache() gives the entry with the time it was recorded, or a bare value.
CacheReads(c) ==
  /\ rung[c] = "cache"
  /\ \E age \in {entry, Undated} : hit' = [hit EXCEPT ![c] = age]
  /\ Climb(c, "hit")
  /\ UNCHANGED <<fetchVars, failures, result, entry>>

\* Slip: a hit that is refused is not reported.
TakeHit_Unreported(c) ==
  /\ rung[c] = "hit"
  /\ IF hit[c] > MaxAgeHard
       THEN Return(c, IF c \in Mocked THEN "mock" ELSE "rejected")
       ELSE Return(c, IF hit[c] > MaxAge THEN "stale" ELSE "cache")
  /\ hit' = [hit EXCEPT ![c] = 0]
  /\ UNCHANGED <<fetchVars, failures, entry>>

\* The age is taken now, after the await: past the hard limit the hit counts
\* as a failure, past maxCacheAge it is stale; a bare value is neither.
TakeHit(c) ==
  /\ rung[c] = "hit"
  /\ IF hit[c] > MaxAgeHard
       THEN AfterCache(c)
       ELSE /\ Return(c, IF hit[c] > MaxAge THEN "stale" ELSE "cache")
            /\ UNCHANGED failures
  /\ hit' = [hit EXCEPT ![c] = 0]
  /\ UNCHANGED <<fetchVars, entry>>

-----------------------------------------------------------------------------
(* The application and time. *)

Refresh ==
  /\ entry' = 0
  /\ UNCHANGED <<fetchVars, rung, failures, result, hit>>

Older(age) == IF age \in {Undated, Past} THEN age ELSE age + 1

Tick ==
  /\ entry' = Older(entry)
  /\ hit' = [c \in Calls |-> IF rung[c] = "hit" THEN Older(hit[c]) ELSE 0]
  /\ UNCHANGED <<fetchVars, rung, failures, result>>

FetchStep(c) == Advance(c) /\ UNCHANGED tierVars

Ladder(c) ==
  \/ LiveAnswers(c) \/ LiveThrows(c) \/ Released(c)
  \/ CacheMisses(c) \/ CacheReads(c) \/ TakeHit(c)

Next ==
  \/ \E c \in Calls : Resolve(c) \/ FetchStep(c) \/ Ladder(c)
  \/ CallerAborts /\ UNCHANGED tierVars
  \/ Refresh
  \/ Tick

Spec == Init /\ [][Next]_vars

\* Timers fire, awaits resume, cache and mock answer or throw, and a fetch
\* settles once its controller was aborted, unless it is deaf: of such a call
\* nothing is assumed but the ladder's own steps, withTimeout's among them.
Fairness ==
  /\ \A c \in Calls : WF_vars(Ladder(c))
  /\ \A c \in Calls \ Deaf : WF_vars(FetchStep(c))

FairSpec == Spec /\ Fairness

-----------------------------------------------------------------------------
(* Properties *)

TypeOK ==
  /\ FetchTypeOK
  /\ rung \in [Calls -> {"idle", "live", "cache", "hit", "done"}]
  /\ failures \in [Calls -> Seq({"live", "cache", "mock"})]
  /\ result \in [Calls -> {"none", "live", "cache", "stale", "mock", "rejected"}]
  /\ entry \in 0 .. Past
  /\ hit \in [Calls -> Ages]

\* The trail of a result names exactly the tiers above it, in order, each
\* once, and that of a rejection all that are configured: a late answer of an
\* abandoned fetch neither changes the result nor the trail.
TrailIsComplete ==
  \A c \in Calls :
    /\ result[c] = "live" => failures[c] = <<>> /\ outcome[c] = "response"
    /\ result[c] \in {"cache", "stale"} => failures[c] = <<"live">>
    /\ result[c] = "mock" => failures[c] = <<"live", "cache">>
    /\ result[c] = "rejected" =>
         failures[c] = IF c \in Mocked THEN <<"live", "cache", "mock">>
                                       ELSE <<"live", "cache">>

\* Every resolution comes to an end, although a deaf fetch never does; and a
\* fetch that heeds its signal ends, abandoned or not.
Resolves ==
  /\ \A c \in Calls : rung[c] = "live" ~> rung[c] = "done"
  /\ \A c \in Calls \ Deaf : place[c] = "fetching" ~> place[c] = "done"
=============================================================================
