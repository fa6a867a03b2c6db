-------------------------- MODULE TieredFetchProofs --------------------------
(***************************************************************************)
(* Proofs about safeFetch in its retry loop, and about the ladder of       *)
(* resolveTiered over it, for any calls, attempts and limits, whichever    *)
(* calls have a mock and whichever fetch ignores its signal.               *)
(*                                                                         *)
(* What an attempt will report is settled before it resumes: a controller  *)
(* that was aborted was so by the timer or, with the signal, by the        *)
(* caller, and a reason is given only by a fetch whose controller was.     *)
(* The trail of a ladder is fixed by its rung; what the fetch does after   *)
(* it was abandoned cannot reach it, since an outcome never changes.       *)
(***************************************************************************)
EXTENDS TieredFetch, SequenceTheorems, TLAPS

FetchTypes ==
  /\ aborted \in BOOLEAN
  /\ place \in [Calls -> Places]
  /\ DOMAIN attempt = Calls
  /\ linked \in [Calls -> BOOLEAN]
  /\ control \in [Calls -> {"live", "timeout", "caller"}]
  /\ reply \in [Calls -> {"none"} \cup Replies]
  /\ outcome \in [Calls -> {"none", "response"} \cup Errors]

\* Only the caller's abort aborts a controller on the caller's behalf.
CallerAborted == \A c \in Calls : control[c] = "caller" => aborted

\* The reason of a controller is given only once it was aborted.
ReasonGiven ==
  \A c \in Calls : place[c] = "settled" /\ reply[c] = "reason" => control[c] # "live"

\* A promise that is settled stays so.
OutcomeWhenDone == \A c \in Calls : outcome[c] # "none" => place[c] = "done"

FetchInv ==
  /\ FetchTypes
  /\ ListenersMatchAttempts
  /\ CallerAborted
  /\ ReasonGiven
  /\ OutcomeWhenDone

LadderTypes ==
  /\ rung \in [Calls -> {"idle", "live", "cache", "hit", "done"}]
  /\ DOMAIN failures = Calls
  /\ DOMAIN result = Calls

\* What the rung of a ladder that is not over says of its trail.
TrailSoFar ==
  \A c \in Calls : rung[c] # "done" =>
    /\ result[c] = "none"
    /\ failures[c] = IF rung[c] \in {"idle", "live"} THEN <<>> ELSE <<"live">>

LadderInv == LadderTypes /\ TrailSoFar /\ TrailIsComplete

TierInv == FetchInv /\ LadderInv

-----------------------------------------------------------------------------
(* The steps of a fetch. *)

\* Before any call.
LEMMA FetchInvInit == FetchInit => FetchInv
  <1> SUFFICES ASSUME FetchInit PROVE FetchInv
    OBVIOUS
  <1>1. \A c \in Calls : linked[c] = FALSE /\ place[c] = "idle"
    BY DEF FetchInit
  <1>2. ListenersMatchAttempts
    BY <1>1 DEF FetchInit, ListenersMatchAttempts
  <1> QED
    BY <1>2 DEF FetchInit, FetchInv, FetchTypes, CallerAborted, ReasonGiven,
                OutcomeWhenDone, Places, Replies, Errors, Refusals

\* The head of the loop, for a call that is idle or wakes from its sleep: an
\* attempt gets a listener and a live controller, unless the signal is aborted.
LEMMA AttemptInv ==
  ASSUME FetchInv, NEW c \in Calls, place[c] \in {"idle", "backoff"},
         Attempt(c), UNCHANGED <<aborted, reply>>, DOMAIN attempt' = Calls
  PROVE  FetchInv'
  <1>1. CASE aborted
    BY <1>1 DEF Attempt, End, MoveTo, FetchInv, FetchTypes, ListenersMatchAttempts,
                CallerAborted, ReasonGiven, OutcomeWhenDone, Places, Replies, Errors, Refusals
  <1>2. CASE ~aborted
    <2>1. /\ linked' = [linked EXCEPT ![c] = TRUE]
          /\ control' = [control EXCEPT ![c] = "live"]
          /\ place' = [place EXCEPT ![c] = "fetching"]
          /\ UNCHANGED outcome
      BY <1>2 DEF Attempt, MoveTo
    <2>2. \A d \in Calls : (linked[d])' <=> (place[d])' \in {"fetching", "settled"}
      BY <2>1 DEF FetchInv, FetchTypes, ListenersMatchAttempts
    <2>3. ListenersMatchAttempts'
      BY <1>2, <2>2 DEF ListenersMatchAttempts
    <2> QED
      BY <2>1, <2>3 DEF FetchInv, FetchTypes, CallerAborted, ReasonGiven, OutcomeWhenDone,
                        Places, Replies, Errors, Refusals
  <1> QED
    BY <1>1, <1>2, Zenon

\* A call begins, or is refused before it sends anything.
LEMMA CallInv == ASSUME FetchInv, NEW c \in Calls, Call(c) PROVE FetchInv'
  <1>1. CASE Attempt(c)
    BY <1>1, AttemptInv DEF Call, FetchInv, FetchTypes
  <1>2. ASSUME NEW why \in Refusals, End(c, why), UNCHANGED <<linked, control>>
        PROVE  FetchInv'
    BY <1>2 DEF Call, End, MoveTo, FetchInv, FetchTypes, ListenersMatchAttempts,
                CallerAborted, ReasonGiven, OutcomeWhenDone, Places, Replies, Errors, Refusals
  <1> QED
    BY <1>1, <1>2 DEF Call

\* Timer, answer, resumption and the end of a sleep.
LEMMA AdvanceInv == ASSUME FetchInv, NEW c \in Calls, Advance(c) PROVE FetchInv'
  <1> USE DEF FetchInv, FetchTypes, ListenersMatchAttempts, CallerAborted, ReasonGiven,
              OutcomeWhenDone, Places, Replies, Errors, Refusals
  <1>1. CASE TimerFires(c)
    BY <1>1 DEF TimerFires
  <1>2. CASE Settles(c)
    BY <1>2 DEF Settles, MoveTo
  <1>3. CASE Resume(c)
    <2>1. \/ \E how \in {"response"} \cup Errors : End(c, how)
          \/ MoveTo(c, "backoff") /\ UNCHANGED outcome
      BY <1>3 DEF Resume, IsFinal, ErrorOf
    <2> QED
      BY <1>3, <2>1 DEF Resume, Cleanup, End, MoveTo
  <1>4. CASE Wake(c)
    BY <1>4, AttemptInv DEF Wake
  <1> QED
    BY <1>1, <1>2, <1>3, <1>4 DEF Advance

\* The listeners are there when the signal is aborted.
LEMMA CallerAbortsInv == ASSUME FetchInv, CallerAborts PROVE FetchInv'
  BY DEF CallerAborts, FetchInv, FetchTypes, ListenersMatchAttempts, CallerAborted,
         ReasonGiven, OutcomeWhenDone, Places, Replies, Errors, Refusals

\* The ladder and the clock leave the fetches alone.
LEMMA FetchStutterInv == ASSUME FetchInv, UNCHANGED fetchVars PROVE FetchInv'
  BY DEF fetchVars, FetchInv, FetchTypes, ListenersMatchAttempts, CallerAborted,
         ReasonGiven, OutcomeWhenDone

-----------------------------------------------------------------------------
(* What a step of a fetch never does, and what it leaves to the ladder. *)

\* An outcome is only given, once, by the call itself.
LEMMA OutcomesStay ==
  ASSUME FetchInv, NEW c \in Calls, Call(c) \/ Advance(c)
  PROVE  \A d \in Calls : outcome[d] # "none" => outcome'[d] = outcome[d]
  <1>1. place[c] # "done"
    BY DEF Call, Advance, TimerFires, Settles, Resume, Wake
  <1>2. outcome[c] = "none"
    BY <1>1 DEF FetchInv, OutcomeWhenDone
  <1>3. UNCHANGED outcome \/ \E how : outcome' = [outcome EXCEPT ![c] = how]
    BY DEF Call, Advance, TimerFires, Settles, Resume, Wake, Attempt, End
  <1> QED
    BY <1>2, <1>3 DEF FetchInv, FetchTypes

\* The two action properties of a step of a call.
Reports(c) ==
  outcome'[c] # outcome[c] =>
    /\ outcome'[c] \in {"http", "network", "timeout"} => attempt[c] = MaxAttempts
    /\ outcome'[c] = "timeout" => control[c] = "timeout" /\ reply[c] = "reason"
    /\ aborted => outcome'[c] \in {"aborted"} \cup Refusals \/ reply[c] = "good"

SendsNothing(c) == ~(place[c] # "fetching" /\ place'[c] = "fetching")

\* What the steps of a call report: an error that allows another attempt is the
\* outcome only of the last, and once aborted nothing more is sent.
LEMMA CallReports ==
  ASSUME FetchInv, NEW c \in Calls, Call(c)
  PROVE  \A d \in Calls : Reports(d) /\ (aborted => SendsNothing(d))
  BY DEF Call, Attempt, End, MoveTo, FetchInv, FetchTypes, Reports, SendsNothing, Refusals

\* A resumed attempt is the one step that can report anything but an abort.
LEMMA ResumeReports ==
  ASSUME FetchInv, NEW c \in Calls, Resume(c)
  PROVE  \A d \in Calls : Reports(d) /\ SendsNothing(d)
  <1>1. place[c] = "settled"
    BY DEF Resume
  <1>2. ErrorOf(c) = "timeout" => control[c] = "timeout" /\ reply[c] = "reason"
    BY <1>1 DEF ErrorOf, FetchInv, FetchTypes, CallerAborted, ReasonGiven
  <1>3. aborted => ErrorOf(c) = "aborted"
    BY DEF ErrorOf
  <1>4. CASE reply[c] = "good"
    BY <1>4 DEF Resume, End, MoveTo, FetchInv, FetchTypes, Reports, SendsNothing
  <1>5. CASE reply[c] # "good" /\ IsFinal(c)
    <2>1. /\ place' = [place EXCEPT ![c] = "done"]
          /\ outcome' = [outcome EXCEPT ![c] = ErrorOf(c)]
      BY <1>5 DEF Resume, End, MoveTo
    <2>2. ErrorOf(c) \in {"http", "network", "timeout"} => attempt[c] = MaxAttempts
      BY <1>5 DEF IsFinal
    <2> QED
      BY <1>2, <1>3, <2>1, <2>2 DEF FetchInv, FetchTypes, Reports, SendsNothing
  <1>6. CASE reply[c] # "good" /\ ~IsFinal(c)
    BY <1>6 DEF Resume, MoveTo, FetchInv, FetchTypes, Reports, SendsNothing
  <1> QED
    BY <1>4, <1>5, <1>6

\* Of what is scheduled for a call only the resumed attempt and the end of the
\* backoff report, the latter an abort.
LEMMA AdvanceReports ==
  ASSUME FetchInv, NEW c \in Calls, Advance(c)
  PROVE  \A d \in Calls : Reports(d) /\ (aborted => SendsNothing(d))
  <1>1. CASE TimerFires(c)
    BY <1>1 DEF TimerFires, Reports, SendsNothing
  <1>2. CASE Settles(c)
    BY <1>2 DEF Settles, MoveTo, FetchInv, FetchTypes, Reports, SendsNothing
  <1>3. CASE Wake(c)
    BY <1>3 DEF Wake, Attempt, End, MoveTo, FetchInv, FetchTypes, Reports, SendsNothing
  <1> QED
    BY <1>1, <1>2, <1>3, ResumeReports DEF Advance

\* A call that a step leaves alone reports nothing.
LEMMA OthersReport ==
  ASSUME UNCHANGED <<place, outcome>>
  PROVE  \A d \in Calls : Reports(d) /\ SendsNothing(d)
  BY DEF Reports, SendsNothing

-----------------------------------------------------------------------------
(* The ladder. *)

\* Before any ladder.
LEMMA LadderInvInit == Init => LadderInv
  BY DEF Init, LadderInv, LadderTypes, TrailSoFar, TrailIsComplete

\* While the rungs stay, the trail does too: what the fetch comes to afterwards
\* is the outcome it had.
LEMMA TrailKept ==
  ASSUME LadderInv, UNCHANGED <<rung, failures, result>>,
         \A d \in Calls : outcome[d] # "none" => outcome'[d] = outcome[d]
  PROVE  LadderInv'
  BY DEF LadderInv, LadderTypes, TrailSoFar, TrailIsComplete

\* A ladder starts with an empty trail.
LEMMA ResolveTrail ==
  ASSUME TierInv, NEW c \in Calls, Resolve(c)
  PROVE  LadderInv'
  <1>1. \A d \in Calls : outcome[d] # "none" => outcome'[d] = outcome[d]
    BY OutcomesStay DEF TierInv, Resolve
  <1>2. /\ rung[c] = "idle" /\ rung' = [rung EXCEPT ![c] = "live"]
        /\ UNCHANGED <<failures, result>>
    BY DEF Resolve, Climb
  <1> QED
    BY <1>1, <1>2 DEF TierInv, LadderInv, LadderTypes, TrailSoFar, TrailIsComplete

\* The live tier is on the trail once it failed, and only then.
LEMMA LiveTrail ==
  ASSUME LadderInv, NEW c \in Calls, LiveAnswers(c) \/ LiveThrows(c) \/ Released(c)
  PROVE  LadderInv'
  <1>1. failures[c] = <<>> /\ rung[c] = "live"
    BY DEF LadderInv, TrailSoFar, LiveAnswers, LiveThrows, Released
  <1>2. CASE LiveAnswers(c)
    BY <1>1, <1>2 DEF LiveAnswers, Return, Climb, fetchVars, LadderInv, LadderTypes,
                      TrailSoFar, TrailIsComplete
  <1>3. CASE LiveThrows(c) \/ Released(c)
    <2>1. /\ rung' = [rung EXCEPT ![c] = "cache"]
          /\ failures' = [failures EXCEPT ![c] = Append(failures[c], "live")]
          /\ UNCHANGED <<result, outcome>>
      BY <1>3 DEF LiveThrows, Released, Fail, Climb, fetchVars
    <2>2. Append(<<>>, "live") = <<"live">>
      OBVIOUS
    <2>3. failures' = [failures EXCEPT ![c] = <<"live">>]
      BY <1>1, <2>1, <2>2
    <2> QED
      BY <1>1, <2>1, <2>3 DEF LadderInv, LadderTypes, TrailSoFar, TrailIsComplete
  <1> QED
    BY <1>2, <1>3

\* What the cache adds to the trail.
LEMMA TrailsConcatenated ==
  /\ <<"live">> \o <<"cache">> = <<"live", "cache">>
  /\ <<"live">> \o <<"cache", "mock">> = <<"live", "cache", "mock">>
  <1> DEFINE Tiers == {"live", "cache", "mock"}
  <1>1. ASSUME NEW s \in Seq(Tiers), NEW t \in Seq(Tiers), Len(s) = Len(t),
               \A i \in 1 .. Len(s) : s[i] = t[i]
        PROVE  s = t
    BY <1>1, SeqEqual
  <1>2. ASSUME NEW s \in Seq(Tiers), NEW t \in Seq(Tiers)
        PROVE  /\ s \o t \in Seq(Tiers) /\ Len(s \o t) = Len(s) + Len(t)
               /\ \A i \in 1 .. Len(s) + Len(t) :
                    (s \o t)[i] = IF i <= Len(s) THEN s[i] ELSE t[i - Len(s)]
    BY ConcatProperties
  <1>3. /\ <<"live">> \in Seq(Tiers) /\ <<"cache">> \in Seq(Tiers)
        /\ <<"cache", "mock">> \in Seq(Tiers) /\ <<"live", "cache">> \in Seq(Tiers)
        /\ <<"live", "cache", "mock">> \in Seq(Tiers)
    OBVIOUS
  <1>4. /\ Len(<<"live">>) = 1 /\ <<"live">>[1] = "live"
        /\ Len(<<"cache">>) = 1 /\ <<"cache">>[1] = "cache"
        /\ Len(<<"cache", "mock">>) = 2
        /\ <<"cache", "mock">>[1] = "cache" /\ <<"cache", "mock">>[2] = "mock"
        /\ Len(<<"live", "cache">>) = 2
        /\ <<"live", "cache">>[1] = "live" /\ <<"live", "cache">>[2] = "cache"
        /\ Len(<<"live", "cache", "mock">>) = 3
        /\ <<"live", "cache", "mock">>[1] = "live"
        /\ <<"live", "cache", "mock">>[2] = "cache"
        /\ <<"live", "cache", "mock">>[3] = "mock"
    OBVIOUS
  <1> HIDE DEF Tiers
  <1>5. ASSUME NEW l, NEW c, NEW both, l \in Seq(Tiers), c \in Seq(Tiers), both \in Seq(Tiers),
               Len(l) = 1, Len(c) = 1, Len(both) = 2, both[1] = l[1], both[2] = c[1]
        PROVE  l \o c = both
    <2>0. /\ Len(l \o c) = 2 /\ l \o c \in Seq(Tiers)
          /\ \A i \in 1 .. 2 : (l \o c)[i] = IF i <= 1 THEN l[i] ELSE c[i - 1]
      <3>1. /\ l \o c \in Seq(Tiers) /\ Len(l \o c) = Len(l) + Len(c)
            /\ \A i \in 1 .. Len(l) + Len(c) :
                 (l \o c)[i] = IF i <= Len(l) THEN l[i] ELSE c[i - Len(l)]
        BY <1>2, <1>5, Zenon
      <3> QED
        BY <1>5, <3>1
    <2>1. /\ Len(l \o c) = 2 /\ l \o c \in Seq(Tiers)
          /\ (l \o c)[1] = both[1] /\ (l \o c)[2] = both[2]
      BY <1>5, <2>0
    <2>2. \A n \in 1 .. 2 : (l \o c)[n] = both[n]
      BY <2>1
    <2> QED
      BY <1>1, <1>5, <2>1, <2>2
  <1>6. ASSUME NEW l, NEW c, NEW all, l \in Seq(Tiers), c \in Seq(Tiers), all \in Seq(Tiers),
               Len(l) = 1, Len(c) = 2, Len(all) = 3,
               all[1] = l[1], all[2] = c[1], all[3] = c[2]
        PROVE  l \o c = all
    <2> DEFINE joined == l \o c
    <2>0. /\ joined \in Seq(Tiers) /\ Len(joined) = Len(l) + Len(c)
          /\ \A i \in 1 .. Len(l) + Len(c) :
               joined[i] = IF i <= Len(l) THEN l[i] ELSE c[i - Len(l)]
      BY <1>2, <1>6, Zenon
    <2> HIDE DEF joined
    <2>1. joined[1] = all[1] /\ joined[2] = all[2] /\ joined[3] = all[3]
      BY <1>6, <2>0
    <2>2. \A n \in 1 .. 3 : n = 1 \/ n = 2 \/ n = 3
      OBVIOUS
    <2>3. \A n \in 1 .. 3 : joined[n] = all[n]
      BY <2>1, <2>2
    <2>4. joined = all
      BY <1>1, <1>6, <2>0, <2>3
    <2> QED
      BY <2>4 DEF joined
  <1>7. <<"live">> \o <<"cache">> = <<"live", "cache">>
    BY <1>3, <1>4, <1>5, Zenon
  <1>8. <<"live">> \o <<"cache", "mock">> = <<"live", "cache", "mock">>
    BY <1>3, <1>4, <1>6, Zenon
  <1> QED
    BY <1>7, <1>8

\* Past the cache: the trail names every tier above the one that answers.
LEMMA AfterCacheTrail ==
  ASSUME LadderInv, NEW c \in Calls, rung[c] \in {"cache", "hit"}, AfterCache(c),
         UNCHANGED outcome
  PROVE  LadderInv'
  <1>1. failures[c] = <<"live">>
    BY DEF LadderInv, TrailSoFar
  <1>2. /\ <<"live">> \o <<"cache">> = <<"live", "cache">>
        /\ <<"live">> \o <<"cache", "mock">> = <<"live", "cache", "mock">>
    BY TrailsConcatenated
  <1>3. CASE /\ c \in Mocked
             /\ failures' = [failures EXCEPT ![c] = <<"live", "cache">>]
             /\ result' = [result EXCEPT ![c] = "mock"]
    BY <1>3 DEF AfterCache, Climb, LadderInv, LadderTypes, TrailSoFar, TrailIsComplete
  <1>4. CASE /\ failures' = [failures EXCEPT ![c] =
                   IF c \in Mocked THEN <<"live", "cache", "mock">> ELSE <<"live", "cache">>]
             /\ result' = [result EXCEPT ![c] = "rejected"]
    BY <1>4 DEF AfterCache, Climb, LadderInv, LadderTypes, TrailSoFar, TrailIsComplete
  <1> QED
    BY <1>1, <1>2, <1>3, <1>4 DEF AfterCache

\* The steps of the cache tier.
LEMMA CacheTrail ==
  ASSUME LadderInv, NEW c \in Calls, CacheMisses(c) \/ CacheReads(c) \/ TakeHit(c)
  PROVE  LadderInv'
  <1>1. CASE CacheMisses(c)
    BY <1>1, AfterCacheTrail DEF CacheMisses, fetchVars
  <1>2. CASE CacheReads(c)
    BY <1>2 DEF CacheReads, Climb, fetchVars, LadderInv, LadderTypes, TrailSoFar,
                TrailIsComplete
  <1>3. CASE TakeHit(c) /\ hit[c] > MaxAgeHard
    BY <1>3, AfterCacheTrail DEF TakeHit, fetchVars
  <1>4. CASE TakeHit(c) /\ ~(hit[c] > MaxAgeHard)
    <2>1. /\ rung[c] = "hit" /\ rung' = [rung EXCEPT ![c] = "done"]
          /\ \E tier \in {"cache", "stale"} : result' = [result EXCEPT ![c] = tier]
          /\ UNCHANGED <<failures, outcome>>
      BY <1>4 DEF TakeHit, Return, Climb, fetchVars
    <2> QED
      BY <2>1 DEF LadderInv, LadderTypes, TrailSoFar, TrailIsComplete
  <1> QED
    BY <1>1, <1>2, <1>3, <1>4

-----------------------------------------------------------------------------
(* Every step. *)

StepReports == \A c \in Calls : Reports(c) /\ (aborted => SendsNothing(c))

\* Every step keeps the invariant and reports as the properties ask.
LEMMA TierStep == TierInv /\ [Next]_vars => TierInv' /\ StepReports
  <1> SUFFICES ASSUME TierInv, [Next]_vars PROVE TierInv' /\ StepReports
    OBVIOUS
  <1>0. FetchInv /\ LadderInv
    BY DEF TierInv
  <1>1. ASSUME NEW c \in Calls, Resolve(c)
        PROVE  TierInv' /\ StepReports
    BY <1>0, <1>1, CallInv, CallReports, ResolveTrail DEF Resolve, TierInv, StepReports
  <1>2. ASSUME NEW c \in Calls, FetchStep(c)
        PROVE  TierInv' /\ StepReports
    BY <1>0, <1>2, AdvanceInv, AdvanceReports, OutcomesStay, TrailKept
       DEF FetchStep, tierVars, TierInv, StepReports
  <1>3. ASSUME NEW c \in Calls, Ladder(c)
        PROVE  TierInv' /\ StepReports
    <2>1. UNCHANGED fetchVars
      BY <1>3 DEF Ladder, LiveAnswers, LiveThrows, Released, CacheMisses, CacheReads, TakeHit
    <2>2. UNCHANGED <<place, outcome>>
      BY <2>1 DEF fetchVars
    <2> QED
      BY <1>0, <1>3, <2>1, <2>2, FetchStutterInv, OthersReport, LiveTrail, CacheTrail
         DEF Ladder, TierInv, StepReports
  <1>4. CASE CallerAborts /\ UNCHANGED tierVars
    <2>1. UNCHANGED <<place, outcome, rung, failures, result>>
      BY <1>4 DEF CallerAborts, tierVars
    <2> QED
      BY <1>0, <1>4, <2>1, CallerAbortsInv, OthersReport, TrailKept DEF TierInv, StepReports
  <1>5. CASE Refresh \/ Tick \/ UNCHANGED vars
    <2>1. UNCHANGED fetchVars /\ UNCHANGED <<rung, failures, result>>
      BY <1>5 DEF Refresh, Tick, vars, tierVars
    <2>2. UNCHANGED <<place, outcome>>
      BY <2>1 DEF fetchVars
    <2> QED
      BY <1>0, <2>1, <2>2, FetchStutterInv, OthersReport, TrailKept DEF TierInv, StepReports
  <1> QED
    BY <1>1, <1>2, <1>3, <1>4, <1>5 DEF Next

\* Before any call.
LEMMA TierInvInit == Init => TierInv
  BY FetchInvInit, LadderInvInit DEF Init, TierInv

\* The invariant of the composition.
LEMMA TierInvariant == Spec => []TierInv
  <1>1. TierInv /\ [Next]_vars => TierInv'
    BY TierStep
  <1> QED
    BY <1>1, TierInvInit, PTL DEF Spec

-----------------------------------------------------------------------------
\* However attempts end and calls overlap on one signal, there is one listener
\* for each attempt in flight, and an abort reaches every attempt it finds.
THEOREM NoListenerLeaks == Spec => []ListenersMatchAttempts
  <1>1. TierInv => ListenersMatchAttempts
    BY DEF TierInv, FetchInv
  <1> QED
    BY <1>1, TierInvariant, PTL

\* The trail of a result names the tiers above it, each once and in order, and
\* no late answer of an abandoned fetch changes it.
THEOREM TrailsAreComplete == Spec => []TrailIsComplete
  <1>1. TierInv => TrailIsComplete
    BY DEF TierInv, LadderInv
  <1> QED
    BY <1>1, TierInvariant, PTL

\* A call gives up on what could be retried only with its attempts used up, and
\* reports a timeout only of an attempt that was aborted by its timer.
THEOREM RetriesAreUsed == Spec => GivesUpWhenSpent
  <1>1. TierInv /\ [Next]_vars =>
          [\A c \in Calls : outcome'[c] # outcome[c] =>
             /\ outcome'[c] \in {"http", "network", "timeout"} => attempt[c] = MaxAttempts
             /\ outcome'[c] = "timeout" => control[c] = "timeout" /\ reply[c] = "reason"
          ]_fetchVars
    BY TierStep DEF StepReports, Reports
  <1> QED
    BY <1>1, TierInvariant, PTL DEF Spec, GivesUpWhenSpent

\* Once the signal is aborted no request goes out, and a call ends aborted unless
\* its last request is answered.
THEOREM AbortsAreFinal == Spec => AbortIsFinal
  <1>1. TierInv /\ [Next]_vars =>
          [aborted => \A c \in Calls :
             /\ ~(place[c] # "fetching" /\ place'[c] = "fetching")
             /\ outcome'[c] # outcome[c] =>
                  outcome'[c] \in {"aborted"} \cup Refusals \/ reply[c] = "good"]_fetchVars
    BY TierStep DEF StepReports, Reports, SendsNothing
  <1> QED
    BY <1>1, TierInvariant, PTL DEF Spec, AbortIsFinal
=============================================================================
