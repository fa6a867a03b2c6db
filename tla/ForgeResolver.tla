---------------------------- MODULE ForgeResolver ----------------------------
(***************************************************************************)
(* Concurrent invocations of one Forge resolver (forge-core/src/           *)
(* resolver.js): proxy, else cache within its TTL, else mock data, and the *)
(* write of whatever was chosen back to the cache, as wired in             *)
(* forge-core/README.md.                                                   *)
(*                                                                         *)
(* An invocation's program counter is                                      *)
(*   "idle"     not running                                                *)
(*   "proxy"    awaiting fromProxy                                         *)
(*   "cache"    awaiting fromCache: read() of the storage                  *)
(*   "persist"  awaiting persist: write() of the storage                   *)
(* Wrapped says whether fromCache and persist go through readCache and     *)
(* writeCache, which swallow what the storage throws, or call the storage  *)
(* themselves; Faulty, whether the application's mock and decorate may     *)
(* throw.  A datum carries its age (saturated past Ttl), which the program *)
(* does not know; the storage entry carries the age of its timestamp,      *)
(* which it does.                                                          *)
(***************************************************************************)
EXTENDS Naturals

CONSTANTS
  Handlers,   \* invocations that can run at the same time
  Ttl,        \* ttlMs, in ticks
  Wrapped,    \* whether readCache and writeCache are used
  Faulty      \* whether mock and decorate may throw

ASSUME ResolverAssumption ==
  /\ Ttl \in Nat
  /\ Wrapped \in BOOLEAN
  /\ Faulty \in BOOLEAN

VARIABLES
  pc, data, source, outcome,   \* of each invocation
  stamp,                       \* stamp[h], the age of the timestamp h is writing
  entry                        \* the storage record

resolverVars == <<pc, data, source, outcome, stamp, entry>>

Old == Ttl + 1

Age == 0 .. Old

\* What the resolver handles: data of the proxy or of a webhook (null is
\* NoData), and the mock.
NoData == [from |-> "none", age |-> 0]
Mock == [from |-> "mock", age |-> 0]
Datum == [from : {"proxy", "webhook"}, age : Age] \cup {Mock, NoData}

ResolverInit ==
  /\ pc = [h \in Handlers |-> "idle"]
  /\ data = [h \in Handlers |-> NoData]
  /\ source = [h \in Handlers |-> "mock"]
  /\ outcome = [h \in Handlers |-> "none"]
  /\ stamp = [h \in Handlers |-> Old]
  /\ entry = [data |-> NoData, stamp |-> Old]

Goto(h, place) == pc' = [pc EXCEPT ![h] = place]

Finish(h, how) ==
  /\ Goto(h, "idle")
  /\ outcome' = [outcome EXCEPT ![h] = how]
  /\ stamp' = [stamp EXCEPT ![h] = Old]

-----------------------------------------------------------------------------
(* An invocation. *)

Invoke(h) ==
  /\ pc[h] = "idle"
  /\ Goto(h, "proxy")
  /\ data' = [data EXCEPT ![h] = NoData]
  /\ source' = [source EXCEPT ![h] = "mock"]
  /\ outcome' = [outcome EXCEPT ![h] = "none"]
  /\ UNCHANGED <<stamp, entry>>

\* persist is called with what was chosen; writeCache takes the time before it
\* awaits the storage.
Choose(h, what, whence) ==
  /\ data' = [data EXCEPT ![h] = what]
  /\ source' = [source EXCEPT ![h] = whence]
  /\ stamp' = [stamp EXCEPT ![h] = 0]
  /\ Goto(h, "persist")
  /\ UNCHANGED outcome

ProxyAnswers(h) ==
  /\ pc[h] = "proxy"
  /\ Choose(h, [from |-> "proxy", age |-> 0], "proxy")
  /\ UNCHANGED entry

\* fromProxy throws (its time limit included) or returns null: caught.
ProxyFails(h) ==
  /\ pc[h] = "proxy"
  /\ Goto(h, "cache")
  /\ UNCHANGED <<data, source, outcome, stamp, entry>>

\* The handler throws.
Rejects(h) ==
  /\ Finish(h, "rejected")
  /\ UNCHANGED <<data, source>>

\* No data so far: the mock is used, or throws.
UseMock(h) ==
  \/ Choose(h, Mock, "mock")
  \/ Faulty /\ Rejects(h)

\* readCache: an entry within its TTL by its timestamp, which need not be that
\* of the data in it
Readable == entry.data # NoData /\ entry.stamp <= Ttl

CacheReads(h) ==
  /\ pc[h] = "cache"
  /\ IF Readable THEN Choose(h, entry.data, "cache") ELSE UseMock(h)
  /\ UNCHANGED entry

\* The storage throws on read: readCache returns null, an accessor of the
\* application's own takes the whole invocation with it.
CacheThrows(h) ==
  /\ pc[h] = "cache"
  /\ IF Wrapped THEN UseMock(h) ELSE Rejects(h)
  /\ UNCHANGED entry

\* The write is over: the data are returned, unless decorate throws.
Return(h) ==
  /\ \E how \in {"resolved"} \cup (IF Faulty THEN {"rejected"} ELSE {}) : Finish(h, how)
  /\ UNCHANGED <<data, source>>

\* Slip: an entry that is there only has its timestamp renewed.
Persist_Touches(h) ==
  /\ pc[h] = "persist"
  /\ entry' = [data |-> IF entry.data = NoData THEN data[h] ELSE entry.data, stamp |-> stamp[h]]
  /\ Return(h)

\* Whatever was chosen is written, under the time of the call.
Persist(h) ==
  /\ pc[h] = "persist"
  /\ entry' = [data |-> data[h], stamp |-> stamp[h]]
  /\ Return(h)

\* The storage throws on write.
PersistThrows(h) ==
  /\ pc[h] = "persist"
  /\ IF Wrapped THEN Return(h) ELSE Rejects(h)
  /\ UNCHANGED entry

-----------------------------------------------------------------------------
Aged(d) == IF d.from \in {"proxy", "webhook"} /\ d.age < Old THEN [d EXCEPT !.age = @ + 1] ELSE d

AgedStamp(age) == IF age < Old THEN age + 1 ELSE Old

Tick ==
  /\ data' = [h \in Handlers |-> Aged(data[h])]
  /\ stamp' = [h \in Handlers |-> AgedStamp(stamp[h])]
  /\ entry' = [data |-> Aged(entry.data), stamp |-> AgedStamp(entry.stamp)]
  /\ UNCHANGED <<pc, source, outcome>>

Work(h) ==
  \/ ProxyAnswers(h) \/ ProxyFails(h)
  \/ CacheReads(h) \/ CacheThrows(h)
  \/ Persist(h) \/ PersistThrows(h)

-----------------------------------------------------------------------------
(* Properties *)

ResolverTypeOK ==
  /\ pc \in [Handlers -> {"idle", "proxy", "cache", "persist"}]
  /\ data \in [Handlers -> Datum]
  /\ source \in [Handlers -> {"proxy", "cache", "mock"}]
  /\ outcome \in [Handlers -> {"none", "resolved", "rejected"}]
  /\ stamp \in [Handlers -> Age]
  /\ entry \in [data : Datum, stamp : Age]

-----------------------------------------------------------------------------
(* What the documentation says, and the code does not do. *)

\* "Each step swallows its own errors and falls through, so a degraded proxy
\* or storage layer never blocks the resolver."
NeverRejects == \A h \in Handlers : outcome[h] # "rejected"

\* "max age in ms before the entry is considered stale"
CachedWithinTtl ==
  [][\A h \in Handlers :
       source[h] # "cache" /\ source'[h] = "cache" => data'[h].age <= Ttl]_resolverVars
=============================================================================
