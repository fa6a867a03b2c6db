------------------------- MODULE ScopePipelineProofs -------------------------
(***************************************************************************)
(* Proofs about a scope-* pipeline, for any handlers, requests, allowlist, *)
(* sizes and limits, and whatever Athena, the source and the platform do.  *)
(*                                                                         *)
(* The place of an analysis says which query it waits for: one of its own, *)
(* of this run and for the entity it is at.  Queries keep what they were   *)
(* started with, and those that ended stay as they are, so what was true   *)
(* of a result when it was collected stays so.  What ingestion answered    *)
(* for is in the object as long as nobody wrote what had been overtaken.   *)
(***************************************************************************)
EXTENDS ScopePipeline, SequenceTheorems, TLAPS

Result == [entity : Entities, why : Why, qid : Nat, rows : Nat]

Query == [entity : Entities, by : Analysts, run : Nat,
          state : {"RUNNING"} \cup Terminal, size : Nat, data : Nat, floor : Nat]

Waiting == {"poll", "sleep", "fetch"}

AnalysisTypes ==
  /\ place \in [Analysts -> {"idle", "entity"} \cup Waiting]
  /\ asked \in [Analysts -> Seq(Entities)]
  /\ results \in [Analysts -> Seq(Result)]
  /\ qid \in [Analysts -> Nat]
  /\ waited \in [Analysts -> Nat]
  /\ run \in [Analysts -> Nat]
  /\ queries \in Seq(Query)

\* The query an analyst waits for is the one it started for the entity it is at.
WaitsForOwn(a) ==
  place[a] \in Waiting =>
    /\ Len(results[a]) < Len(asked[a])
    /\ qid[a] \in DOMAIN queries
    /\ queries[qid[a]].by = a
    /\ queries[qid[a]].run = run[a]
    /\ queries[qid[a]].entity = Entity(a)
    /\ Entity(a) \in Allowlist
    /\ place[a] = "fetch" => queries[qid[a]].state = "SUCCEEDED"

\* What ResultsTrue says of one result, and that its query is there.
ResultTrue(a, n) ==
  LET r == results[a][n] IN
  /\ r.entity = asked[a][n]
  /\ r.why = "none" =>
       /\ r.qid \in DOMAIN queries
       /\ queries[r.qid].by = a
       /\ queries[r.qid].run = run[a]
       /\ queries[r.qid].entity = r.entity
       /\ r.entity \in Allowlist
       /\ queries[r.qid].state = "SUCCEEDED"
       /\ r.rows < MaxResults - 1 => r.rows = queries[r.qid].size

AnalystOK(a) ==
  /\ Len(results[a]) <= Len(asked[a])
  /\ place[a] = "idle" => Len(results[a]) = Len(asked[a])
  /\ place[a] \in {"idle", "entity"} => qid[a] = 0
  /\ WaitsForOwn(a)
  /\ \A n \in DOMAIN results[a] : ResultTrue(a, n)

Reported(a, entity) ==
  \E m \in DOMAIN results[a] :
    results[a][m].entity = entity /\ results[a][m].why \in {"call", "timeout"}

\* A query is of a run that was begun; and what LeftoversReported says of it.
QueryOK(n) ==
  LET a == queries[n].by IN
  /\ queries[n].run <= run[a]
  /\ (queries[n].state = "RUNNING" /\ queries[n].run = run[a] /\ asked[a] # <<>>) =>
       qid[a] = n \/ Reported(a, queries[n].entity)

AnalysisInv ==
  /\ AnalysisTypes
  /\ \A a \in Analysts : AnalystOK(a)
  /\ \A n \in DOMAIN queries : QueryOK(n)

-----------------------------------------------------------------------------
(* What steps have in common. *)

\* Queries are added and end; nothing else happens to them.
QueriesKept ==
  /\ queries' \in Seq(Query)
  /\ DOMAIN queries \subseteq DOMAIN queries'
  /\ \A n \in DOMAIN queries :
       /\ queries'[n].by = queries[n].by
       /\ queries'[n].run = queries[n].run
       /\ queries'[n].entity = queries[n].entity
       /\ queries'[n].floor = queries[n].floor
       /\ queries[n].state \in Terminal => queries'[n] = queries[n]

\* A step that is none of b's, whatever it does to the queries.
LEMMA AnalystKept ==
  ASSUME AnalysisTypes, QueriesKept, NEW b \in Analysts, AnalystOK(b),
         place'[b] = place[b], asked'[b] = asked[b], results'[b] = results[b],
         qid'[b] = qid[b], run'[b] = run[b]
  PROVE  AnalystOK(b)'
  <1>1. /\ Len(results'[b]) <= Len(asked'[b])
        /\ place'[b] = "idle" => Len(results'[b]) = Len(asked'[b])
        /\ place'[b] \in {"idle", "entity"} => qid'[b] = 0
    BY DEF AnalystOK
  <1>2. WaitsForOwn(b)'
    BY DEF AnalystOK, WaitsForOwn, QueriesKept, Entity, Terminal
  <1>3. ASSUME NEW n \in DOMAIN results'[b]
        PROVE  ResultTrue(b, n)'
    BY <1>3 DEF AnalystOK, ResultTrue, QueriesKept, Terminal
  <1> QED
    BY <1>1, <1>2, <1>3 DEF AnalystOK

\* A query that was there is still accounted for if its analyst's view of it is.
LEMMA QueryKept ==
  ASSUME AnalysisTypes, QueriesKept, NEW n \in DOMAIN queries, QueryOK(n),
         LET a == queries[n].by IN
           asked'[a] = asked[a] /\ results'[a] = results[a] /\ qid'[a] = qid[a] /\ run'[a] = run[a]
  PROVE  QueryOK(n)'
  <1>1. queries[n].state # "RUNNING" => queries'[n].state # "RUNNING"
    <2>1. queries[n] \in Query
      BY DEF AnalysisTypes
    <2> QED
      BY <2>1 DEF QueriesKept, Query, Terminal
  <1> QED
    BY <1>1 DEF QueryOK, Reported, QueriesKept

\* One more result.
LEMMA ResultAdded ==
  ASSUME AnalysisTypes, NEW a \in Analysts, NEW r \in Result,
         results' = [results EXCEPT ![a] = Append(@, r)]
  PROVE  /\ results' \in [Analysts -> Seq(Result)]
         /\ \A b \in Analysts \ {a} : results'[b] = results[b]
         /\ Len(results'[a]) = Len(results[a]) + 1
         /\ DOMAIN results'[a] = 1 .. Len(results[a]) + 1
         /\ \A n \in DOMAIN results[a] : n \in DOMAIN results'[a] /\ results'[a][n] = results[a][n]
         /\ results'[a][Len(results[a]) + 1] = r
  <1>1. results[a] \in Seq(Result) /\ results'[a] = Append(results[a], r)
    BY DEF AnalysisTypes
  <1>2. /\ Append(results[a], r) \in Seq(Result)
        /\ Len(Append(results[a], r)) = Len(results[a]) + 1
        /\ \A n \in 1 .. Len(results[a]) : Append(results[a], r)[n] = results[a][n]
        /\ Append(results[a], r)[Len(results[a]) + 1] = r
    BY <1>1, AppendProperties
  <1>3. DOMAIN results[a] = 1 .. Len(results[a]) /\ Len(results[a]) \in Nat
    BY <1>1
  <1> QED
    BY <1>1, <1>2, <1>3 DEF AnalysisTypes
\* One more query.
LEMMA QueryAdded ==
  ASSUME AnalysisInv, NEW a \in Analysts, NEW floor \in Nat, More(a),
         queries' = Submitted(a, floor)
  PROVE  /\ QueriesKept
         /\ DOMAIN queries' = DOMAIN queries \cup {Len(queries) + 1}
         /\ Len(queries) + 1 \notin DOMAIN queries
         /\ queries'[Len(queries) + 1] =
              [entity |-> Entity(a), by |-> a, run |-> run[a], state |-> "RUNNING",
               size |-> 0, data |-> 0, floor |-> floor]
  <1> DEFINE q == [entity |-> Entity(a), by |-> a, run |-> run[a], state |-> "RUNNING",
                   size |-> 0, data |-> 0, floor |-> floor]
  <1>1. Entity(a) \in Entities
    <2>1. asked[a] \in Seq(Entities) /\ Len(results[a]) \in Nat /\ Len(results[a]) < Len(asked[a])
      BY DEF AnalysisInv, AnalysisTypes, More
    <2> QED
      BY <2>1 DEF Entity
  <1>2. q \in Query /\ queries \in Seq(Query) /\ queries' = Append(queries, q)
    BY <1>1 DEF AnalysisInv, AnalysisTypes, Query, Submitted
  <1> HIDE DEF q
  <1>3. /\ queries' \in Seq(Query)
        /\ Len(queries') = Len(queries) + 1
        /\ \A n \in 1 .. Len(queries) : queries'[n] = queries[n]
        /\ queries'[Len(queries) + 1] = q
    BY <1>2, AppendProperties
  <1>4. /\ DOMAIN queries = 1 .. Len(queries) /\ Len(queries) \in Nat
        /\ DOMAIN queries' = 1 .. Len(queries')
    BY <1>2, <1>3
  <1>5. QueriesKept
    BY <1>3, <1>4 DEF QueriesKept
  <1> QED
    BY <1>3, <1>4, <1>5 DEF q

\* The error of an entity, with the queries kept or one more: a query that still
\* runs and is waited for no more, or was perhaps started, is reported.
LEMMA ErrsInv ==
  ASSUME AnalysisInv, NEW a \in Analysts, NEW why \in Why \ {"none"}, Errs(a, why),
         Len(results[a]) < Len(asked[a]), QueriesKept, UNCHANGED <<asked, waited, run>>,
         \A n \in DOMAIN queries' \ DOMAIN queries :
           queries'[n].by = a /\ queries'[n].run = run[a],
         \A n \in DOMAIN queries' :
           (n = qid[a] \/ n \notin DOMAIN queries) /\ queries'[n].state = "RUNNING" =>
             queries'[n].entity = Entity(a) /\ why \in {"call", "timeout"}
  PROVE  AnalysisInv'
  <1> DEFINE r == [entity |-> Entity(a), why |-> why, qid |-> 0, rows |-> 0]
  <1>0. /\ AnalysisTypes /\ AnalystOK(a)
        /\ results[a] \in Seq(Result) /\ asked[a] \in Seq(Entities)
        /\ Len(results[a]) \in Nat /\ Len(asked[a]) \in Nat
        /\ DOMAIN results[a] = 1 .. Len(results[a])
    BY DEF AnalysisInv, AnalysisTypes
  <1>1. r \in Result /\ Entity(a) = asked[a][Len(results[a]) + 1]
    BY <1>0 DEF Result, Entity
  <1>2. /\ results' = [results EXCEPT ![a] = Append(@, r)]
        /\ qid' = [qid EXCEPT ![a] = 0]
        /\ place' = [place EXCEPT ![a] = "entity"]
    BY DEF Errs, Goto
  <1> HIDE DEF r
  <1>3. /\ results' \in [Analysts -> Seq(Result)]
        /\ \A b \in Analysts \ {a} : results'[b] = results[b]
        /\ Len(results'[a]) = Len(results[a]) + 1
        /\ DOMAIN results'[a] = 1 .. Len(results[a]) + 1
        /\ \A n \in DOMAIN results[a] : n \in DOMAIN results'[a] /\ results'[a][n] = results[a][n]
        /\ results'[a][Len(results[a]) + 1] = r
    BY <1>0, <1>1, <1>2, ResultAdded
  <1>4. AnalysisTypes'
    BY <1>0, <1>2, <1>3 DEF AnalysisTypes, QueriesKept
  <1>5. \A b \in Analysts \ {a} :
          /\ place'[b] = place[b] /\ qid'[b] = qid[b] /\ results'[b] = results[b]
          /\ asked'[b] = asked[b] /\ run'[b] = run[b]
    BY <1>0, <1>2, <1>3 DEF AnalysisTypes
  <1>6. place'[a] = "entity" /\ qid'[a] = 0
    BY <1>0, <1>2 DEF AnalysisTypes
  <1>7. AnalystOK(a)'
    <2>1. ASSUME NEW n \in DOMAIN results'[a]
          PROVE  ResultTrue(a, n)'
      <3>1. CASE n \in DOMAIN results[a]
        <4>1. ResultTrue(a, n) /\ results'[a][n] = results[a][n] /\ UNCHANGED <<asked, run>>
          BY <1>0, <1>3, <3>1 DEF AnalystOK
        <4>2. results[a][n].why = "none" =>
                /\ results[a][n].qid \in DOMAIN queries'
                /\ queries'[results[a][n].qid] = queries[results[a][n].qid]
          BY <4>1 DEF ResultTrue, QueriesKept, Terminal
        <4> QED
          BY <4>1, <4>2 DEF ResultTrue
      <3>2. CASE n = Len(results[a]) + 1
        BY <1>1, <1>3, <3>2 DEF ResultTrue, r
      <3> QED
        BY <1>0, <1>3, <2>1, <3>1, <3>2
    <2> QED
      BY <1>0, <1>3, <1>6, <2>1 DEF AnalystOK, WaitsForOwn, Waiting
  <1>8. \A b \in Analysts : AnalystOK(b)'
    BY <1>0, <1>5, <1>7, AnalystKept DEF AnalysisInv
  <1>9. ASSUME NEW e, Reported(a, e) PROVE Reported(a, e)'
    BY <1>3, <1>9 DEF Reported
  <1>10. ASSUME NEW e, e = Entity(a), why \in {"call", "timeout"}
         PROVE  Reported(a, e)'
    <2>1. Len(results[a]) + 1 \in DOMAIN results'[a]
      BY <1>0, <1>3
    <2>2. r.entity = e /\ r.why \in {"call", "timeout"}
      BY <1>10 DEF r
    <2>3. \E m \in DOMAIN results'[a] :
            results'[a][m].entity = e /\ results'[a][m].why \in {"call", "timeout"}
      BY <1>3, <2>1, <2>2
    <2> QED
      BY <2>3 DEF Reported
  <1>11. ASSUME NEW n \in DOMAIN queries'
         PROVE  QueryOK(n)'
    <2>0. queries'[n] \in Query /\ queries'[n].by \in Analysts
      <3>1. queries'[n] \in Query
        BY DEF QueriesKept
      <3> QED
        BY <3>1 DEF Query
    <2>1. CASE n \in DOMAIN queries /\ queries[n].by # a
      <3>1. LET b == queries[n].by IN
              asked'[b] = asked[b] /\ results'[b] = results[b] /\ qid'[b] = qid[b] /\ run'[b] = run[b]
        BY <1>5, <2>0, <2>1 DEF QueriesKept
      <3> QED
        BY <1>0, <2>1, <3>1, QueryKept DEF AnalysisInv
    <2>2. CASE n \in DOMAIN queries /\ queries[n].by = a
      <3>0. QueryOK(n) /\ queries[n] \in Query
        BY <1>0, <2>2 DEF AnalysisInv, AnalysisTypes
      <3>1. /\ queries'[n].by = a /\ queries'[n].run = queries[n].run
            /\ queries'[n].entity = queries[n].entity
            /\ queries'[n].state = "RUNNING" => queries[n].state = "RUNNING"
        BY <2>2, <3>0 DEF QueriesKept, Query, Terminal
      <3>2. queries'[n].run <= run'[a]
        BY <2>2, <3>0, <3>1 DEF QueryOK
      <3>3. (queries'[n].state = "RUNNING" /\ queries'[n].run = run'[a] /\ asked'[a] # <<>>) =>
              Reported(a, queries[n].entity)'
        BY <1>9, <1>10, <2>2, <3>0, <3>1 DEF QueryOK
      <3> QED
        BY <3>1, <3>2, <3>3 DEF QueryOK
    <2>3. CASE n \notin DOMAIN queries
      BY <1>0, <1>10, <2>3 DEF QueryOK, AnalysisTypes
    <2> QED
      BY <2>1, <2>2, <2>3
  <1> QED
    BY <1>4, <1>8, <1>11 DEF AnalysisInv
\* What TimeoutsAreReal says of one analyst.
TimeoutReal(a) ==
  (/\ Len(results'[a]) > Len(results[a])
   /\ results'[a][Len(results'[a])].why = "timeout") =>
     waited[a] >= MaxWait /\ queries[qid[a]].state = "RUNNING"

\* The entity an analyst is at is one of its list.
LEMMA EntityType ==
  ASSUME AnalysisTypes, NEW a \in Analysts, Len(results[a]) < Len(asked[a])
  PROVE  Entity(a) \in Entities
  <1>1. asked[a] \in Seq(Entities) /\ Len(results[a]) \in Nat
    BY DEF AnalysisTypes
  <1> QED
    BY <1>1 DEF Entity

\* One more result is the only one looked at.
LEMMA AddedTimeout ==
  ASSUME AnalysisTypes, NEW a \in Analysts, NEW r \in Result,
         results' = [results EXCEPT ![a] = Append(@, r)],
         r.why = "timeout" => waited[a] >= MaxWait /\ queries[qid[a]].state = "RUNNING"
  PROVE  \A b \in Analysts : TimeoutReal(b)
  <1>1. /\ \A b \in Analysts \ {a} : results'[b] = results[b]
        /\ Len(results'[a]) = Len(results[a]) + 1
        /\ results'[a][Len(results[a]) + 1] = r
    BY ResultAdded
  <1>2. \A b \in Analysts : Len(results[b]) \in Nat
    BY DEF AnalysisTypes
  <1> QED
    BY <1>1, <1>2 DEF TimeoutReal

\* An error that is no timeout, or a real one.
LEMMA ErrsTimeout ==
  ASSUME AnalysisTypes, NEW a \in Analysts, NEW why \in Why, Errs(a, why),
         Len(results[a]) < Len(asked[a]),
         why = "timeout" => waited[a] >= MaxWait /\ queries[qid[a]].state = "RUNNING"
  PROVE  \A b \in Analysts : TimeoutReal(b)
  <1> DEFINE r == [entity |-> Entity(a), why |-> why, qid |-> 0, rows |-> 0]
  <1>1. r \in Result /\ r.why = why
    BY EntityType DEF Result
  <1>2. results' = [results EXCEPT ![a] = Append(@, r)]
    BY DEF Errs
  <1> HIDE DEF r
  <1> QED
    BY <1>1, <1>2, AddedTimeout

\* Results that stay or are dropped.
LEMMA NoTimeout ==
  ASSUME AnalysisTypes, \A b \in Analysts : results'[b] = results[b] \/ results'[b] = <<>>
  PROVE  \A b \in Analysts : TimeoutReal(b)
  <1>1. \A b \in Analysts : Len(results[b]) \in Nat
    BY DEF AnalysisTypes
  <1>2. Len(<<>>) = 0
    OBVIOUS
  <1> QED
    BY <1>1, <1>2 DEF TimeoutReal

-----------------------------------------------------------------------------
(* The steps of an analysis. *)

\* Queries that stay as they are are kept.
LEMMA QueriesSame == ASSUME AnalysisTypes, queries' = queries PROVE QueriesKept
  BY DEF AnalysisTypes, QueriesKept

\* A step of a that leaves its list, its results and every query alone.
LEMMA MoveInv ==
  ASSUME AnalysisInv, NEW a \in Analysts, NEW p \in {"idle", "entity"} \cup Waiting,
         Goto(a, p), waited' \in [Analysts -> Nat],
         UNCHANGED <<asked, results, qid, run, queries>>, AnalystOK(a)'
  PROVE  AnalysisInv' /\ \A b \in Analysts : TimeoutReal(b)
  <1>1. AnalysisTypes /\ QueriesKept
    BY QueriesSame DEF AnalysisInv
  <1>2. AnalysisTypes'
    BY <1>1 DEF AnalysisTypes, Goto
  <1>3. \A b \in Analysts \ {a} : place'[b] = place[b]
    BY <1>1 DEF AnalysisTypes, Goto
  <1>4. \A b \in Analysts : AnalystOK(b)'
    BY <1>1, <1>3, AnalystKept DEF AnalysisInv
  <1>5. \A n \in DOMAIN queries' : QueryOK(n)'
    BY <1>1, QueryKept DEF AnalysisInv
  <1> QED
    BY <1>1, <1>2, <1>4, <1>5, NoTimeout DEF AnalysisInv

\* analyze returns when every entity has its result.
LEMMA ReturnInv ==
  ASSUME AnalysisInv, NEW a \in Analysts, Return(a)
  PROVE  AnalysisInv' /\ \A b \in Analysts : TimeoutReal(b)
  <1>1. /\ Goto(a, "idle") /\ waited' \in [Analysts -> Nat]
        /\ UNCHANGED <<asked, results, qid, run, queries>>
    BY DEF Return, AnalysisInv, AnalysisTypes
  <1>2. place'[a] = "idle" /\ place[a] = "entity" /\ Len(results[a]) = Len(asked[a])
    BY DEF Return, Goto, AnalysisInv, AnalysisTypes
  <1>3. AnalystOK(a)'
    BY <1>1, <1>2 DEF AnalysisInv, AnalystOK, WaitsForOwn, ResultTrue, Waiting
  <1> QED
    BY <1>1, <1>3, MoveInv

\* A sleep ends.
LEMMA WakeInv ==
  ASSUME AnalysisInv, NEW a \in Analysts, Wake(a)
  PROVE  AnalysisInv' /\ \A b \in Analysts : TimeoutReal(b)
  <1>1. /\ Goto(a, "poll") /\ waited' \in [Analysts -> Nat]
        /\ UNCHANGED <<asked, results, qid, run, queries>>
    BY DEF Wake, AnalysisInv, AnalysisTypes
  <1>2. place'[a] = "poll" /\ place[a] = "sleep"
    BY DEF Wake, Goto, AnalysisInv, AnalysisTypes
  <1>3. AnalystOK(a)'
    BY <1>1, <1>2 DEF AnalysisInv, AnalystOK, WaitsForOwn, ResultTrue, Waiting, Entity
  <1> QED
    BY <1>1, <1>3, MoveInv DEF Waiting

\* An entity that is not allowed.
LEMMA RefuseInv ==
  ASSUME AnalysisInv, NEW a \in Analysts, Refuse(a)
  PROVE  AnalysisInv' /\ \A b \in Analysts : TimeoutReal(b)
  <1>1. /\ AnalysisTypes /\ QueriesKept /\ UNCHANGED <<asked, waited, run, queries>>
        /\ Errs(a, "disallowed") /\ Len(results[a]) < Len(asked[a])
        /\ place[a] = "entity" /\ AnalystOK(a)
    BY QueriesSame DEF Refuse, More, AnalysisInv
  <1>2. qid[a] = 0 /\ 0 \notin DOMAIN queries
    BY <1>1 DEF AnalystOK, AnalysisTypes
  <1>3. AnalysisInv'
    BY <1>1, <1>2, ErrsInv DEF Why
  <1>4. \A b \in Analysts : TimeoutReal(b)
    BY <1>1, ErrsTimeout DEF Why
  <1> QED
    BY <1>3, <1>4
\* A query is started, and waited for.
LEMMA StartQueryInv ==
  ASSUME AnalysisInv, NEW a \in Analysts, NEW floor \in Nat, StartQuery(a, floor)
  PROVE  AnalysisInv' /\ \A b \in Analysts : TimeoutReal(b)
  <1> DEFINE n0 == Len(queries) + 1
  <1>1. /\ AnalysisTypes /\ More(a) /\ Entity(a) \in Allowlist
        /\ queries' = Submitted(a, floor) /\ qid' = [qid EXCEPT ![a] = n0]
        /\ waited' = [waited EXCEPT ![a] = 0] /\ place' = [place EXCEPT ![a] = "poll"]
        /\ UNCHANGED <<asked, results, nap, run>>
    BY DEF StartQuery, Goto, AnalysisInv
  <1>2. /\ QueriesKept
        /\ DOMAIN queries' = DOMAIN queries \cup {n0}
        /\ n0 \notin DOMAIN queries
        /\ queries'[n0] =
             [entity |-> Entity(a), by |-> a, run |-> run[a], state |-> "RUNNING",
              size |-> 0, data |-> 0, floor |-> floor]
    BY <1>1, QueryAdded
  <1>3. n0 \in Nat
    BY <1>1 DEF AnalysisTypes
  <1> HIDE DEF n0
  <1>4. AnalysisTypes'
    BY <1>1, <1>2, <1>3 DEF AnalysisTypes, QueriesKept, Waiting
  <1>5. /\ place'[a] = "poll" /\ qid'[a] = n0
        /\ \A b \in Analysts \ {a} : place'[b] = place[b] /\ qid'[b] = qid[b]
    BY <1>1 DEF AnalysisTypes
  <1>6. AnalystOK(a)'
    <2>1. ASSUME NEW n \in DOMAIN results'[a]
          PROVE  ResultTrue(a, n)'
      BY <1>1, <1>2, <2>1 DEF AnalysisInv, AnalystOK, ResultTrue, QueriesKept, Terminal
    <2>2. WaitsForOwn(a)'
      BY <1>1, <1>2, <1>5 DEF WaitsForOwn, Entity, More
    <2> QED
      BY <1>1, <1>5, <2>1, <2>2 DEF AnalysisInv, AnalystOK
  <1>7. \A b \in Analysts : AnalystOK(b)'
    BY <1>1, <1>2, <1>5, <1>6, AnalystKept DEF AnalysisInv
  <1>8. ASSUME NEW n \in DOMAIN queries
        PROVE  QueryOK(n)'
    <2>1. CASE queries[n].by # a
      <3>1. queries[n] \in Query
        BY <1>1 DEF AnalysisTypes
      <3>2. queries[n].by \in Analysts
        BY <3>1 DEF Query
      <3> QED
        BY <1>1, <1>2, <1>5, <2>1, <3>2, QueryKept DEF AnalysisInv
    <2>2. CASE queries[n].by = a
      <3>1. qid[a] = 0 /\ n # 0
        BY <1>1 DEF AnalysisInv, AnalysisTypes, AnalystOK, More
      <3>2. queries'[n] = queries[n] \/ queries[n].state = "RUNNING"
        <4>1. queries[n] \in Query
          BY <1>1 DEF AnalysisTypes
        <4> QED
          BY <1>2, <4>1 DEF QueriesKept, Query, Terminal
      <3>3. QueryOK(n)
        BY DEF AnalysisInv
      <3> QED
        BY <1>1, <1>2, <2>2, <3>1, <3>2, <3>3 DEF QueryOK, Reported, QueriesKept
    <2> QED
      BY <2>1, <2>2
  <1>9. ASSUME NEW n, n = n0
        PROVE  QueryOK(n)'
    BY <1>1, <1>2, <1>5, <1>9 DEF QueryOK, AnalysisTypes
  <1>10. \A b \in Analysts : TimeoutReal(b)
    BY <1>1, NoTimeout
  <1> QED
    BY <1>2, <1>4, <1>7, <1>8, <1>9, <1>10 DEF AnalysisInv

\* A start fails, and Athena has the query or not.
LEMMA StartFailsInv ==
  ASSUME AnalysisInv, NEW a \in Analysts, NEW floor \in Nat, StartFails(a, floor)
  PROVE  AnalysisInv' /\ \A b \in Analysts : TimeoutReal(b)
  <1>1. /\ AnalysisTypes /\ More(a) /\ UNCHANGED <<asked, waited, run>>
        /\ Errs(a, "call") /\ Len(results[a]) < Len(asked[a])
        /\ place[a] = "entity" /\ AnalystOK(a)
    BY DEF StartFails, More, AnalysisInv
  <1>2. qid[a] = 0 /\ 0 \notin DOMAIN queries
    BY <1>1 DEF AnalystOK, AnalysisTypes
  <1>3. \A b \in Analysts : TimeoutReal(b)
    BY <1>1, ErrsTimeout DEF Why
  <1>4. CASE queries' = queries
    BY <1>1, <1>2, <1>3, <1>4, ErrsInv, QueriesSame DEF Why
  <1>5. CASE queries' = Submitted(a, floor)
    <2>1. /\ QueriesKept
          /\ DOMAIN queries' = DOMAIN queries \cup {Len(queries) + 1}
          /\ queries'[Len(queries) + 1] =
               [entity |-> Entity(a), by |-> a, run |-> run[a], state |-> "RUNNING",
                size |-> 0, data |-> 0, floor |-> floor]
      BY <1>1, <1>5, QueryAdded
    <2>2. \A n \in DOMAIN queries' \ DOMAIN queries :
            queries'[n].by = a /\ queries'[n].run = run[a] /\ queries'[n].entity = Entity(a)
      BY <2>1
    <2>3. \A n \in DOMAIN queries' :
            (n = qid[a] \/ n \notin DOMAIN queries) /\ queries'[n].state = "RUNNING" =>
              queries'[n].entity = Entity(a)
      <3>1. 0 \notin DOMAIN queries'
        BY <2>1 DEF QueriesKept
      <3> QED
        BY <1>2, <2>2, <3>1
    <2>4. AnalysisInv'
      BY <1>1, <2>1, <2>2, <2>3, ErrsInv DEF Why
    <2> QED
      BY <1>3, <2>4
  <1> QED
    BY <1>4, <1>5 DEF StartFails

\* A query that is given up: what holds of it while it is waited for.
LEMMA GiveUpInv ==
  ASSUME AnalysisInv, NEW a \in Analysts, NEW why \in {"call", "failed", "timeout"},
         place[a] \in Waiting, Errs(a, why), UNCHANGED <<asked, waited, run, queries>>,
         why = "failed" => queries[qid[a]].state # "RUNNING",
         why = "timeout" => waited[a] >= MaxWait /\ queries[qid[a]].state = "RUNNING"
  PROVE  AnalysisInv' /\ \A b \in Analysts : TimeoutReal(b)
  <1>1. /\ AnalysisTypes /\ QueriesKept /\ Len(results[a]) < Len(asked[a])
        /\ queries[qid[a]].entity = Entity(a)
    BY QueriesSame DEF AnalysisInv, AnalystOK, WaitsForOwn
  <1>2. AnalysisInv'
    BY <1>1, ErrsInv DEF Why
  <1>3. \A b \in Analysts : TimeoutReal(b)
    BY <1>1, ErrsTimeout DEF Why
  <1> QED
    BY <1>2, <1>3

\* A call to Athena fails.
LEMMA CallFailsInv ==
  ASSUME AnalysisInv, NEW a \in Analysts, CallFails(a)
  PROVE  AnalysisInv' /\ \A b \in Analysts : TimeoutReal(b)
  BY GiveUpInv DEF CallFails, Waiting

\* One round of wait: the answer is looked at before the clock.
LEMMA PollInv ==
  ASSUME AnalysisInv, NEW a \in Analysts, Poll(a)
  PROVE  AnalysisInv' /\ \A b \in Analysts : TimeoutReal(b)
  <1> DEFINE state == queries[qid[a]].state
  <1>0. /\ place[a] = "poll" /\ UNCHANGED <<asked, waited, run, queries>>
        /\ AnalysisTypes /\ AnalystOK(a) /\ waited' \in [Analysts -> Nat]
    BY DEF Poll, AnalysisInv, AnalysisTypes
  <1>1. state \in {"RUNNING", "SUCCEEDED", "FAILED"}
    <2>1. queries[qid[a]] \in Query
      BY <1>0 DEF AnalystOK, WaitsForOwn, AnalysisTypes, Waiting
    <2> QED
      BY <2>1 DEF Query, Terminal
  <1>2. CASE state = "SUCCEEDED"
    <2>1. Goto(a, "fetch") /\ UNCHANGED <<results, qid>>
      BY <1>2 DEF Poll
    <2>2. place'[a] = "fetch"
      BY <1>0, <2>1 DEF Goto, AnalysisTypes
    <2>3. AnalystOK(a)'
      BY <1>0, <1>2, <2>1, <2>2 DEF AnalystOK, WaitsForOwn, ResultTrue, Waiting, Entity
    <2> QED
      BY <1>0, <2>1, <2>3, MoveInv DEF Waiting
  <1>3. CASE state = "FAILED"
    BY <1>0, <1>3, GiveUpInv DEF Poll, Terminal, Waiting
  <1>4. CASE state = "RUNNING" /\ waited[a] >= MaxWait
    BY <1>0, <1>4, GiveUpInv DEF Poll, Terminal, Waiting
  <1>5. CASE state = "RUNNING" /\ ~(waited[a] >= MaxWait)
    <2>1. Goto(a, "sleep") /\ UNCHANGED <<results, qid>>
      BY <1>5 DEF Poll, Terminal
    <2>2. place'[a] = "sleep"
      BY <1>0, <2>1 DEF Goto, AnalysisTypes
    <2>3. AnalystOK(a)'
      BY <1>0, <2>1, <2>2 DEF AnalystOK, WaitsForOwn, ResultTrue, Waiting, Entity
    <2> QED
      BY <1>0, <2>1, <2>3, MoveInv DEF Waiting
  <1> QED
    BY <1>1, <1>2, <1>3, <1>4, <1>5
\* The rows of a query that succeeded.
LEMMA FetchInv ==
  ASSUME AnalysisInv, NEW a \in Analysts, Fetch(a)
  PROVE  AnalysisInv' /\ \A b \in Analysts : TimeoutReal(b)
  <1> DEFINE q == queries[qid[a]]
             r == [entity |-> Entity(a), why |-> "none", qid |-> qid[a], rows |-> RowsOf(q.size)]
  <1>0. /\ AnalysisTypes /\ AnalystOK(a) /\ QueriesKept /\ place[a] = "fetch"
        /\ results[a] \in Seq(Result) /\ Len(results[a]) \in Nat /\ Len(asked[a]) \in Nat
        /\ DOMAIN results[a] = 1 .. Len(results[a])
        /\ UNCHANGED <<asked, waited, nap, run, queries>>
    BY QueriesSame DEF Fetch, AnalysisInv, AnalysisTypes
  <1>1. /\ Len(results[a]) < Len(asked[a]) /\ qid[a] \in DOMAIN queries
        /\ q.by = a /\ q.run = run[a] /\ q.entity = Entity(a) /\ Entity(a) \in Allowlist
        /\ q.state = "SUCCEEDED"
    BY <1>0 DEF AnalystOK, WaitsForOwn, Waiting
  <1>2. q.size \in Nat
    <2>1. q \in Query
      BY <1>0, <1>1 DEF AnalysisTypes
    <2> QED
      BY <2>1 DEF Query
  <1>3. /\ RowsOf(q.size) \in Nat
        /\ RowsOf(q.size) < MaxResults - 1 => RowsOf(q.size) = q.size
    BY <1>2, AnalysisAssumption DEF RowsOf
  <1>4. r \in Result
    BY <1>0, <1>1, <1>3, EntityType DEF Result, Why, AnalysisTypes
  <1>5. /\ results' = [results EXCEPT ![a] = Append(@, r)]
        /\ qid' = [qid EXCEPT ![a] = 0]
        /\ place' = [place EXCEPT ![a] = "entity"]
    BY DEF Fetch, Goto
  <1>6. /\ r.entity = Entity(a) /\ r.why = "none" /\ r.qid = qid[a]
        /\ r.rows < MaxResults - 1 => r.rows = q.size
    BY <1>3
  <1> HIDE DEF r
  <1>7. /\ results' \in [Analysts -> Seq(Result)]
        /\ \A b \in Analysts \ {a} : results'[b] = results[b]
        /\ Len(results'[a]) = Len(results[a]) + 1
        /\ DOMAIN results'[a] = 1 .. Len(results[a]) + 1
        /\ \A n \in DOMAIN results[a] : n \in DOMAIN results'[a] /\ results'[a][n] = results[a][n]
        /\ results'[a][Len(results[a]) + 1] = r
    BY <1>0, <1>4, <1>5, ResultAdded
  <1>8. AnalysisTypes'
    BY <1>0, <1>5, <1>7 DEF AnalysisTypes
  <1>9. /\ place'[a] = "entity" /\ qid'[a] = 0
        /\ \A b \in Analysts \ {a} : place'[b] = place[b] /\ qid'[b] = qid[b]
    BY <1>0, <1>5 DEF AnalysisTypes
  <1>10. AnalystOK(a)'
    <2>1. ASSUME NEW n \in DOMAIN results'[a]
          PROVE  ResultTrue(a, n)'
      <3>1. CASE n \in DOMAIN results[a]
        BY <1>0, <1>7, <3>1 DEF AnalystOK, ResultTrue
      <3>2. CASE n = Len(results[a]) + 1
        BY <1>0, <1>1, <1>6, <1>7, <3>2 DEF ResultTrue, Entity
      <3> QED
        BY <1>0, <1>7, <2>1, <3>1, <3>2
    <2> QED
      BY <1>0, <1>1, <1>7, <1>9, <2>1 DEF AnalystOK, WaitsForOwn, Waiting
  <1>11. \A b \in Analysts : AnalystOK(b)'
    BY <1>0, <1>7, <1>9, <1>10, AnalystKept DEF AnalysisInv
  <1>12. ASSUME NEW n \in DOMAIN queries
         PROVE  QueryOK(n)'
    <2>0. QueryOK(n) /\ queries[n].by \in Analysts
      <3>1. queries[n] \in Query
        BY <1>0 DEF AnalysisTypes
      <3> QED
        BY <3>1 DEF AnalysisInv, Query
    <2>1. CASE queries[n].by # a
      BY <1>0, <1>7, <1>9, <2>0, <2>1, QueryKept
    <2>2. CASE queries[n].by = a
      <3>1. ASSUME NEW e, Reported(a, e) PROVE Reported(a, e)'
        BY <1>7, <3>1 DEF Reported
      <3> QED
        BY <1>0, <1>1, <2>0, <2>2, <3>1 DEF QueryOK
    <2> QED
      BY <2>1, <2>2
  <1>13. \A b \in Analysts : TimeoutReal(b)
    BY <1>0, <1>4, <1>5, <1>6, AddedTimeout
  <1> QED
    BY <1>0, <1>8, <1>11, <1>12, <1>13 DEF AnalysisInv

\* The list and the results of an analyst begin afresh: with a new run, or with
\* no list because the invocation was killed.
LEMMA AfreshInv ==
  ASSUME AnalysisInv, NEW a \in Analysts, NEW list \in Seq(Entities),
         NEW p \in {"idle", "entity"}, Goto(a, p),
         asked' = [asked EXCEPT ![a] = list], results' = [results EXCEPT ![a] = <<>>],
         qid' = [qid EXCEPT ![a] = 0], UNCHANGED <<waited, queries>>,
         \/ list = <<>> /\ run' = run
         \/ p = "entity" /\ run' = [run EXCEPT ![a] = @ + 1]
  PROVE  AnalysisInv' /\ \A b \in Analysts : TimeoutReal(b)
  <1>0. AnalysisTypes /\ QueriesKept
    BY QueriesSame DEF AnalysisInv
  <1>1. /\ asked'[a] = list /\ results'[a] = <<>> /\ qid'[a] = 0 /\ place'[a] = p
        /\ run'[a] \in Nat /\ run[a] \in Nat
        /\ \A b \in Analysts \ {a} :
             /\ asked'[b] = asked[b] /\ results'[b] = results[b] /\ qid'[b] = qid[b]
             /\ place'[b] = place[b] /\ run'[b] = run[b]
    BY <1>0 DEF AnalysisTypes, Goto
  <1>2. <<>> \in Seq(Result) /\ Len(<<>>) = 0 /\ DOMAIN <<>> = {} /\ Len(list) \in Nat
    OBVIOUS
  <1>3. AnalysisTypes'
    <2>1. run' \in [Analysts -> Nat]
      <3>1. run \in [Analysts -> Nat] /\ (run' = run \/ run' = [run EXCEPT ![a] = run[a] + 1])
        BY <1>0 DEF AnalysisTypes
      <3>2. run[a] + 1 \in Nat
        BY <3>1
      <3>3. CASE run' = [run EXCEPT ![a] = run[a] + 1]
        BY <3>1, <3>2, <3>3
      <3> QED
        BY <3>1, <3>3
    <2>2. results' \in [Analysts -> Seq(Result)]
      BY <1>0, <1>2 DEF AnalysisTypes
    <2> QED
      BY <1>0, <2>1, <2>2 DEF AnalysisTypes, Goto
  <1>4. AnalystOK(a)'
    BY <1>1, <1>2 DEF AnalystOK, WaitsForOwn, Waiting
  <1>5. \A b \in Analysts : AnalystOK(b)'
    BY <1>0, <1>1, <1>4, AnalystKept DEF AnalysisInv
  <1>6. ASSUME NEW n \in DOMAIN queries
        PROVE  QueryOK(n)'
    <2>0. QueryOK(n) /\ queries[n].by \in Analysts /\ queries[n].run \in Nat
      <3>1. queries[n] \in Query
        BY <1>0 DEF AnalysisTypes
      <3> QED
        BY <3>1 DEF AnalysisInv, Query
    <2>1. CASE queries[n].by # a
      BY <1>0, <1>1, <2>0, <2>1, QueryKept
    <2>2. CASE queries[n].by = a
      <3>1. \/ list = <<>> /\ run'[a] = run[a]
            \/ run'[a] = run[a] + 1
        BY <1>0 DEF AnalysisTypes
      <3> QED
        BY <1>1, <2>0, <2>2, <3>1 DEF QueryOK
    <2> QED
      BY <2>1, <2>2
  <1>7. \A b \in Analysts : TimeoutReal(b)
    BY <1>0, <1>1, NoTimeout
  <1> QED
    BY <1>0, <1>3, <1>5, <1>6, <1>7 DEF AnalysisInv

\* A new analysis, or the end of one by the platform.
LEMMA AnalyzeInv ==
  ASSUME AnalysisInv, NEW a \in Analysts, Analyze(a) \/ Killed(a)
  PROVE  AnalysisInv' /\ \A b \in Analysts : TimeoutReal(b)
  <1>1. CASE Analyze(a)
    <2>1. PICK list \in Requests : asked' = [asked EXCEPT ![a] = list]
      BY <1>1 DEF Analyze
    <2>2. list \in Seq(Entities)
      BY AnalysisAssumption
    <2>3. qid' = [qid EXCEPT ![a] = 0]
      BY <1>1 DEF Analyze, AnalysisInv, AnalysisTypes, AnalystOK
    <2> QED
      BY <1>1, <2>1, <2>2, <2>3, AfreshInv DEF Analyze
  <1>2. CASE Killed(a)
    <2>1. <<>> \in Seq(Entities)
      OBVIOUS
    <2> QED
      BY <1>2, <2>1, AfreshInv DEF Killed
  <1> QED
    BY <1>1, <1>2

-----------------------------------------------------------------------------
(* Athena, and time. *)

\* A query ends.
LEMMA AthenaActsInv ==
  ASSUME AnalysisInv, NEW q \in DOMAIN queries, NEW stored \in Nat, AthenaActs(q, stored)
  PROVE  AnalysisInv' /\ \A b \in Analysts : TimeoutReal(b)
  <1>0. /\ AnalysisTypes /\ queries[q] \in Query /\ queries[q].state = "RUNNING"
        /\ UNCHANGED <<place, asked, results, qid, waited, nap, run>>
    <2>1. queries \in Seq(Query) /\ AnalysisTypes
      BY DEF AnalysisInv, AnalysisTypes
    <2>2. queries[q] \in Query
      BY <2>1
    <2>3. /\ queries[q].state = "RUNNING"
          /\ UNCHANGED <<place, asked, results, qid, waited, nap, run>>
      BY DEF AthenaActs
    <2> QED
      BY <2>1, <2>2, <2>3
  <1>1. PICK ended \in Query :
          /\ queries' = [queries EXCEPT ![q] = ended]
          /\ ended.by = queries[q].by /\ ended.run = queries[q].run
          /\ ended.entity = queries[q].entity /\ ended.floor = queries[q].floor
    <2>1. CASE \E n \in Sizes :
                 queries' = [queries EXCEPT ![q].state = "SUCCEEDED", ![q].size = n,
                                            ![q].data = stored]
      <3>1. PICK n \in Sizes :
              queries' = [queries EXCEPT ![q] =
                [queries[q] EXCEPT !.state = "SUCCEEDED", !.size = n, !.data = stored]]
        BY <2>1
      <3>2. [queries[q] EXCEPT !.state = "SUCCEEDED", !.size = n, !.data = stored] \in Query
        BY <1>0, AnalysisAssumption DEF Query, Terminal
      <3> QED
        BY <1>0, <3>1, <3>2 DEF Query
    <2>2. CASE queries' = [queries EXCEPT ![q].state = "FAILED"]
      <3>1. [queries[q] EXCEPT !.state = "FAILED"] \in Query
        BY <1>0 DEF Query, Terminal
      <3> QED
        BY <1>0, <2>2, <3>1 DEF Query
    <2> QED
      BY <2>1, <2>2 DEF AthenaActs
  <1>2. QueriesKept
    <2>1. queries' \in Seq(Query) /\ DOMAIN queries' = DOMAIN queries
      BY <1>0, <1>1 DEF AnalysisTypes
    <2>2. \A n \in DOMAIN queries : queries'[n] = IF n = q THEN ended ELSE queries[n]
      BY <1>0, <1>1 DEF AnalysisTypes
    <2> QED
      BY <1>0, <1>1, <2>1, <2>2 DEF QueriesKept, Terminal
  <1>3. DOMAIN queries' = DOMAIN queries
    BY <1>1
  <1>4. AnalysisTypes'
    BY <1>0, <1>2 DEF AnalysisTypes, QueriesKept
  <1>5. \A b \in Analysts : AnalystOK(b)'
    BY <1>0, <1>2, AnalystKept DEF AnalysisInv
  <1>6. \A n \in DOMAIN queries' : QueryOK(n)'
    BY <1>0, <1>2, <1>3, QueryKept DEF AnalysisInv
  <1> QED
    BY <1>0, <1>4, <1>5, <1>6, NoTimeout DEF AnalysisInv

\* A step that leaves the analyses alone but for the clock.
LEMMA ClockInv ==
  ASSUME AnalysisInv, waited' \in [Analysts -> Nat],
         UNCHANGED <<place, asked, results, qid, run, queries>>
  PROVE  AnalysisInv' /\ \A b \in Analysts : TimeoutReal(b)
  <1>0. AnalysisTypes /\ QueriesKept
    BY QueriesSame DEF AnalysisInv
  <1>1. AnalysisTypes'
    BY <1>0 DEF AnalysisTypes
  <1>2. \A b \in Analysts : AnalystOK(b)'
    BY <1>0, AnalystKept DEF AnalysisInv
  <1>3. \A n \in DOMAIN queries' : QueryOK(n)'
    BY <1>0, QueryKept DEF AnalysisInv
  <1> QED
    BY <1>0, <1>1, <1>2, <1>3, NoTimeout DEF AnalysisInv

\* Whoever acts on the analyses.
LEMMA AnalystStepInv ==
  ASSUME AnalysisInv, NEW a \in Analysts, NEW floor \in Nat, AnalystStep(a, floor)
  PROVE  AnalysisInv' /\ \A b \in Analysts : TimeoutReal(b)
  BY RefuseInv, StartQueryInv, StartFailsInv, PollInv, WakeInv, FetchInv, CallFailsInv, ReturnInv
     DEF AnalystStep
-----------------------------------------------------------------------------
(* What is stored, and what a query has read of it. *)

StoreTypes ==
  /\ job \in [Ingesters -> {"idle", "put"}]
  /\ records \in [Ingesters -> Nat]
  /\ source \in Nat /\ object \in Nat /\ confirmed \in Nat
  /\ raced \in BOOLEAN

\* Nothing is newer than the source.
SourceLeads == object <= source /\ \A i \in Ingesters : records[i] <= source

\* Who has not been overtaken has nothing older than the object to write.
NotOvertaken ==
  \A i \in Ingesters : job[i] = "put" /\ i \notin overtaken => records[i] >= object

\* The object has what was confirmed, and queries promise no more than that.
ConfirmedStored == ~raced => object >= confirmed

FloorsConfirmed == \A n \in DOMAIN queries : queries[n].floor <= confirmed

\* What ended well had read what it was promised.
ReadFresh ==
  ~raced => \A n \in DOMAIN queries :
    queries[n].state = "SUCCEEDED" => queries[n].data >= queries[n].floor

StoreInv ==
  StoreTypes /\ SourceLeads /\ NotOvertaken /\ ConfirmedStored /\ FloorsConfirmed /\ ReadFresh

\* An analyst's step adds at most a query that promises what was confirmed.
LEMMA AnalystFresh ==
  ASSUME AnalysisInv, StoreInv, NEW a \in Analysts,
         AnalystStep(a, confirmed) \/ Analyze(a) \/ Killed(a), UNCHANGED <<ingestVars, source>>
  PROVE  StoreInv'
  <1>1. StoreTypes' /\ SourceLeads' /\ NotOvertaken' /\ ConfirmedStored'
    BY DEF StoreInv, StoreTypes, SourceLeads, NotOvertaken, ConfirmedStored, ingestVars
  <1>2. CASE queries' = queries
    BY <1>1, <1>2 DEF StoreInv, FloorsConfirmed, ReadFresh, ingestVars
  <1>3. CASE More(a) /\ queries' = Submitted(a, confirmed)
    <2>1. /\ DOMAIN queries' = DOMAIN queries \cup {Len(queries) + 1}
          /\ queries'[Len(queries) + 1] =
               [entity |-> Entity(a), by |-> a, run |-> run[a], state |-> "RUNNING",
                size |-> 0, data |-> 0, floor |-> confirmed]
      BY <1>3, QueryAdded DEF StoreInv, StoreTypes
    <2>2. /\ queries'[Len(queries) + 1].floor = confirmed
          /\ queries'[Len(queries) + 1].state = "RUNNING"
      BY <2>1
    <2>3. \A n \in DOMAIN queries : queries'[n] = queries[n]
      BY <1>3, AppendProperties DEF Submitted, AnalysisInv, AnalysisTypes
    <2>4. confirmed \in Nat /\ confirmed' = confirmed /\ raced' = raced
      BY DEF StoreInv, StoreTypes, ingestVars
    <2>5. FloorsConfirmed'
      BY <2>1, <2>2, <2>3, <2>4 DEF StoreInv, FloorsConfirmed
    <2>6. ReadFresh'
      BY <2>1, <2>2, <2>3, <2>4 DEF StoreInv, ReadFresh
    <2> QED
      BY <1>1, <2>5, <2>6 DEF StoreInv
  <1>4. queries' = queries \/ (More(a) /\ queries' = Submitted(a, confirmed))
    BY DEF AnalystStep, Refuse, StartQuery, StartFails, Poll, Wake, Fetch, CallFails, Return,
           Analyze, Killed
  <1> QED
    BY <1>2, <1>3, <1>4

\* A query that ends well has read the object.
LEMMA AthenaFresh ==
  ASSUME AnalysisInv, StoreInv, NEW q \in DOMAIN queries, AthenaActs(q, object),
         UNCHANGED <<ingestVars, source>>
  PROVE  StoreInv'
  <1>1. StoreTypes' /\ SourceLeads' /\ NotOvertaken' /\ ConfirmedStored'
    BY DEF StoreInv, StoreTypes, SourceLeads, NotOvertaken, ConfirmedStored, ingestVars
  <1>2. queries[q] \in Query
    BY DEF AnalysisInv, AnalysisTypes
  <1>3. PICK ended :
          /\ queries' = [queries EXCEPT ![q] = ended]
          /\ ended.floor = queries[q].floor
          /\ ended.state = "SUCCEEDED" => ended.data = object
    <2>1. CASE \E n \in Sizes :
                 queries' = [queries EXCEPT ![q].state = "SUCCEEDED", ![q].size = n,
                                            ![q].data = object]
      <3>1. PICK n \in Sizes :
              queries' = [queries EXCEPT ![q] =
                [queries[q] EXCEPT !.state = "SUCCEEDED", !.size = n, !.data = object]]
        BY <2>1
      <3> DEFINE e == [queries[q] EXCEPT !.state = "SUCCEEDED", !.size = n, !.data = object]
      <3>2. e.floor = queries[q].floor /\ e.data = object
        BY <1>2 DEF Query
      <3> HIDE DEF e
      <3> QED
        BY <3>1, <3>2 DEF e
    <2>2. CASE queries' = [queries EXCEPT ![q].state = "FAILED"]
      <3> DEFINE e == [queries[q] EXCEPT !.state = "FAILED"]
      <3>1. e.floor = queries[q].floor /\ e.state = "FAILED"
        BY <1>2 DEF Query
      <3>2. queries' = [queries EXCEPT ![q] = e]
        BY <2>2
      <3> HIDE DEF e
      <3> QED
        BY <3>1, <3>2
    <2> QED
      BY <2>1, <2>2 DEF AthenaActs
  <1>4. /\ DOMAIN queries' = DOMAIN queries
        /\ \A n \in DOMAIN queries : queries'[n] = IF n = q THEN ended ELSE queries[n]
    BY <1>3
  <1>5. /\ confirmed \in Nat /\ object \in Nat /\ confirmed' = confirmed /\ raced' = raced
        /\ queries[q].floor \in Nat
    BY <1>2 DEF StoreInv, StoreTypes, ingestVars, Query
  <1>6. FloorsConfirmed'
    BY <1>3, <1>4, <1>5 DEF StoreInv, FloorsConfirmed
  <1>7. ReadFresh'
    <2>1. ~raced => queries[q].floor <= confirmed /\ confirmed <= object
      BY <1>5 DEF StoreInv, FloorsConfirmed, ConfirmedStored
    <2> QED
      BY <1>3, <1>4, <1>5, <2>1 DEF StoreInv, ReadFresh
  <1> QED
    BY <1>1, <1>6, <1>7 DEF StoreInv

\* The source moves on, or is read.
LEMMA FetchedFresh ==
  ASSUME StoreInv, UNCHANGED analysisVars,
         Publish \/ \E i \in Ingesters : FetchRecords(i) \/ NothingFetched(i)
  PROVE  StoreInv'
  <1>1. CASE Publish
    BY <1>1 DEF Publish, ingestVars, analysisVars, StoreInv, StoreTypes, SourceLeads,
                NotOvertaken, ConfirmedStored, FloorsConfirmed, ReadFresh
  <1>2. ASSUME NEW i \in Ingesters, FetchRecords(i)
        PROVE  StoreInv'
    <2>1. /\ records' = [records EXCEPT ![i] = source] /\ job' = [job EXCEPT ![i] = "put"]
          /\ UNCHANGED <<object, confirmed, overtaken, raced, source, queries>>
      BY <1>2 DEF FetchRecords, Begins, analysisVars
    <2> QED
      BY <2>1 DEF StoreInv, StoreTypes, SourceLeads, NotOvertaken, ConfirmedStored,
                  FloorsConfirmed, ReadFresh
  <1>3. ASSUME NEW i \in Ingesters, NothingFetched(i)
        PROVE  StoreInv'
    BY <1>3 DEF NothingFetched, Begins, analysisVars, StoreInv, StoreTypes, SourceLeads,
                NotOvertaken, ConfirmedStored, FloorsConfirmed, ReadFresh
  <1> QED
    BY <1>1, <1>2, <1>3

\* The object is replaced; who is overtaken by that is noted.
LEMMA ReplacedFresh ==
  ASSUME AnalysisTypes, StoreInv, NEW i \in Ingesters, Ends(i), Replaced(i),
         \/ confirmed' = IF records[i] > confirmed THEN records[i] ELSE confirmed
         \/ confirmed' = confirmed
  PROVE  StoreInv'
  <1>0. /\ StoreTypes /\ job[i] = "put" /\ records[i] \in Nat /\ records[i] <= source
        /\ UNCHANGED <<source, queries>>
    BY DEF StoreInv, StoreTypes, SourceLeads, Ends, analysisVars
  <1>1. /\ job' = [job EXCEPT ![i] = "idle"] /\ records' = [records EXCEPT ![i] = 0]
        /\ object' = records[i] /\ raced' = (raced \/ i \in overtaken)
        /\ overtaken' =
             (overtaken \cup {j \in Ingesters : job[j] = "put" /\ records[j] < records[i]}) \ {i}
    BY DEF Ends, Replaced
  <1>2. confirmed' \in Nat /\ confirmed <= confirmed'
    BY <1>0 DEF StoreTypes
  <1>3. StoreTypes'
    BY <1>0, <1>1, <1>2 DEF StoreTypes
  <1>4. SourceLeads'
    BY <1>0, <1>1 DEF StoreTypes, StoreInv, SourceLeads
  <1>5. NotOvertaken'
    BY <1>0, <1>1 DEF StoreTypes, NotOvertaken
  <1>6. ~raced' => ~raced /\ records[i] >= object /\ object >= confirmed
    BY <1>0, <1>1 DEF StoreInv, NotOvertaken, ConfirmedStored
  <1>7. ConfirmedStored'
    BY <1>0, <1>1, <1>2, <1>6 DEF StoreTypes, ConfirmedStored
  <1>8. ReadFresh'
    BY <1>0, <1>6 DEF StoreInv, ReadFresh
  <1>9. FloorsConfirmed'
    <2>1. ASSUME NEW n \in DOMAIN queries
          PROVE  queries[n].floor \in Nat
      <3>1. queries[n] \in Query
        BY DEF AnalysisTypes
      <3> QED
        BY <3>1 DEF Query
    <2>2. confirmed \in Nat
      BY <1>0 DEF StoreTypes
    <2> QED
      BY <1>0, <1>2, <2>1, <2>2 DEF StoreInv, FloorsConfirmed
  <1> QED
    BY <1>3, <1>4, <1>5, <1>7, <1>8, <1>9 DEF StoreInv
\* A write ends: well, or not, the object replaced or not.
LEMMA PutFresh ==
  ASSUME AnalysisTypes, StoreInv, NEW i \in Ingesters, Put(i) \/ PutFails(i)
  PROVE  StoreInv'
  <1>1. CASE Put(i)
    BY <1>1, ReplacedFresh DEF Put
  <1>2. CASE PutFails(i) /\ Replaced(i)
    BY <1>2, ReplacedFresh DEF PutFails
  <1>3. CASE Ends(i) /\ overtaken' = overtaken \ {i} /\ UNCHANGED <<object, raced, confirmed>>
    <2>1. /\ job' = [job EXCEPT ![i] = "idle"] /\ records' = [records EXCEPT ![i] = 0]
          /\ UNCHANGED <<source, queries>>
      BY <1>3 DEF Ends, analysisVars
    <2> QED
      BY <1>3, <2>1 DEF StoreInv, StoreTypes, SourceLeads, NotOvertaken, ConfirmedStored,
                        FloorsConfirmed, ReadFresh
  <1> QED
    BY <1>1, <1>2, <1>3 DEF PutFails

-----------------------------------------------------------------------------
(* Every step. *)

PipelineInv == AnalysisInv /\ StoreInv

\* Nothing was asked and nothing is stored.
LEMMA PipelineInvInit == Init => PipelineInv
  <1> SUFFICES ASSUME Init PROVE PipelineInv
    OBVIOUS
  <1>1. /\ <<>> \in Seq(Entities) /\ <<>> \in Seq(Result) /\ <<>> \in Seq(Query)
        /\ Len(<<>>) = 0 /\ DOMAIN <<>> = {}
    OBVIOUS
  <1>2. AnalysisTypes
    <2>1. /\ asked \in [Analysts -> Seq(Entities)] /\ results \in [Analysts -> Seq(Result)]
          /\ queries \in Seq(Query)
      BY <1>1 DEF Init, AnalysisInit
    <2>2. /\ place \in [Analysts -> {"idle", "entity"} \cup Waiting]
          /\ qid \in [Analysts -> Nat] /\ waited \in [Analysts -> Nat]
          /\ run \in [Analysts -> Nat]
      BY DEF Init, AnalysisInit
    <2> QED
      BY <2>1, <2>2 DEF AnalysisTypes
  <1>3. ASSUME NEW a \in Analysts PROVE AnalystOK(a)
    <2>1. place[a] = "idle" /\ asked[a] = <<>> /\ results[a] = <<>> /\ qid[a] = 0
      BY DEF Init, AnalysisInit
    <2>2. Len(results[a]) = 0 /\ Len(asked[a]) = 0 /\ DOMAIN results[a] = {}
      BY <1>1, <2>1
    <2> QED
      BY <2>1, <2>2 DEF AnalystOK, WaitsForOwn, Waiting
  <1>4. DOMAIN queries = {}
    BY <1>1 DEF Init, AnalysisInit
  <1>5. StoreInv
    <2>1. StoreTypes
      BY DEF Init, StoreTypes
    <2>2. SourceLeads /\ ConfirmedStored
      BY DEF Init, SourceLeads, ConfirmedStored
    <2>3. NotOvertaken
      BY DEF Init, NotOvertaken
    <2> QED
      BY <1>4, <2>1, <2>2, <2>3 DEF StoreInv, FloorsConfirmed, ReadFresh
  <1> QED
    BY <1>2, <1>3, <1>4, <1>5 DEF PipelineInv, AnalysisInv

\* Every step keeps the invariant, and reports no timeout that is none.
LEMMA PipelineStep ==
  PipelineInv /\ [Next]_vars => PipelineInv' /\ \A b \in Analysts : TimeoutReal(b)
  <1> SUFFICES ASSUME PipelineInv, [Next]_vars
               PROVE  PipelineInv' /\ \A b \in Analysts : TimeoutReal(b)
    OBVIOUS
  <1>0. /\ AnalysisInv /\ StoreInv /\ AnalysisTypes
        /\ confirmed \in Nat /\ object \in Nat
    BY DEF PipelineInv, AnalysisInv, StoreInv, StoreTypes
  <1>1. ASSUME NEW a \in Analysts,
               AnalystStep(a, confirmed) \/ Analyze(a) \/ Killed(a),
               UNCHANGED <<ingestVars, source>>
        PROVE  PipelineInv' /\ \A b \in Analysts : TimeoutReal(b)
    BY <1>0, <1>1, AnalystStepInv, AnalyzeInv, AnalystFresh DEF PipelineInv
  <1>2. ASSUME NEW q \in DOMAIN queries, AthenaActs(q, object), UNCHANGED <<ingestVars, source>>
        PROVE  PipelineInv' /\ \A b \in Analysts : TimeoutReal(b)
    BY <1>0, <1>2, AthenaActsInv, AthenaFresh DEF PipelineInv
  <1>3. CASE Tick /\ UNCHANGED <<ingestVars, source>>
    <2>1. /\ waited' \in [Analysts -> Nat]
          /\ UNCHANGED <<place, asked, results, qid, run, queries>>
      BY <1>0, <1>3 DEF Tick, AnalysisTypes
    <2>2. StoreInv'
      BY <1>0, <1>3, <2>1 DEF StoreInv, StoreTypes, SourceLeads, NotOvertaken,
                              ConfirmedStored, FloorsConfirmed, ReadFresh, ingestVars
    <2> QED
      BY <1>0, <2>1, <2>2, ClockInv DEF PipelineInv
  <1>4. ASSUME UNCHANGED analysisVars, StoreInv'
        PROVE  PipelineInv' /\ \A b \in Analysts : TimeoutReal(b)
    <2>1. /\ waited' \in [Analysts -> Nat]
          /\ UNCHANGED <<place, asked, results, qid, run, queries>>
      BY <1>0, <1>4 DEF analysisVars, AnalysisTypes
    <2> QED
      BY <1>0, <1>4, <2>1, ClockInv DEF PipelineInv
  <1>5. CASE Publish
    BY <1>0, <1>4, <1>5, FetchedFresh DEF Publish
  <1>6. ASSUME NEW i \in Ingesters, FetchRecords(i) \/ NothingFetched(i)
        PROVE  PipelineInv' /\ \A b \in Analysts : TimeoutReal(b)
    BY <1>0, <1>4, <1>6, FetchedFresh DEF FetchRecords, NothingFetched, Begins
  <1>7. ASSUME NEW i \in Ingesters, Put(i) \/ PutFails(i)
        PROVE  PipelineInv' /\ \A b \in Analysts : TimeoutReal(b)
    BY <1>0, <1>4, <1>7, PutFresh DEF Put, PutFails, Ends
  <1>8. CASE UNCHANGED vars
    <2>1. StoreInv'
      BY <1>0, <1>8 DEF vars, ingestVars, analysisVars, StoreInv, StoreTypes, SourceLeads,
                        NotOvertaken, ConfirmedStored, FloorsConfirmed, ReadFresh
    <2> QED
      BY <1>4, <1>8, <2>1 DEF vars
  <1> QED
    BY <1>1, <1>2, <1>3, <1>5, <1>6, <1>7, <1>8 DEF Next, Step

\* The invariant of the pipeline.
LEMMA PipelineInvariant == Spec => []PipelineInv
  <1>1. PipelineInv /\ [Next]_vars => PipelineInv'
    BY PipelineStep
  <1> QED
    BY <1>1, PipelineInvInit, PTL DEF Spec

-----------------------------------------------------------------------------
\* However many handlers share Athena, and whatever fails or is killed, the list
\* analyze returns is true: a result for each entity in the order asked, and a
\* completed one with the rows of its own query, which succeeded.
THEOREM ResultsAreTrue == Spec => []ResultsTrue
  <1>1. ASSUME PipelineInv, NEW a \in Analysts
        PROVE  AnalystOK(a)
    BY <1>1 DEF PipelineInv, AnalysisInv
  <1>2. ASSUME PipelineInv, NEW a \in Analysts, NEW n \in DOMAIN results[a]
        PROVE  ResultTrue(a, n)
    BY <1>1, <1>2 DEF AnalystOK
  <1>3. ASSUME PipelineInv, NEW a \in Analysts, place[a] = "idle"
        PROVE  Len(results[a]) = Len(asked[a])
    BY <1>1, <1>3 DEF AnalystOK
  <1>4. PipelineInv => ResultsTrue
    <2> SUFFICES ASSUME PipelineInv, NEW a \in Analysts, NEW n \in DOMAIN results[a]
                 PROVE  LET r == results[a][n] IN
                        /\ r.entity = asked[a][n]
                        /\ r.why = "none" =>
                             LET q == queries[r.qid] IN
                             /\ q.by = a /\ q.run = run[a] /\ q.entity = r.entity
                             /\ q.entity \in Allowlist
                             /\ q.state = "SUCCEEDED"
                             /\ r.rows < MaxResults - 1 => r.rows = q.size
      BY <1>3 DEF ResultsTrue
    <2>1. ResultTrue(a, n)
      BY <1>2
    <2> QED
      BY <2>1 DEF ResultTrue
  <1> QED
    BY <1>4, PipelineInvariant, PTL

\* A query left running is reported to the caller, unless the platform kills the
\* invocation.
THEOREM LeftoversAreReported == Spec => []LeftoversReported
  <1>1. PipelineInv => LeftoversReported
    BY DEF PipelineInv, AnalysisInv, QueryOK, Reported, LeftoversReported
  <1> QED
    BY <1>1, PipelineInvariant, PTL

\* A completed analysis has read what every ingestion answered before its query
\* had stored, unless a late write of older records came in between.
THEOREM AnalysesAreFresh == Spec => []FreshUnlessRaced
  <1>1. ASSUME PipelineInv, ~raced, NEW a \in Analysts, NEW r \in Completed(a)
        PROVE  queries[r.qid].data >= queries[r.qid].floor
    <2>1. PICK n \in DOMAIN results[a] : r = results[a][n] /\ r.why = "none"
      BY DEF Completed
    <2>2. r.qid \in DOMAIN queries /\ queries[r.qid].state = "SUCCEEDED"
      BY <1>1, <2>1 DEF PipelineInv, AnalysisInv, AnalystOK, ResultTrue
    <2> QED
      BY <1>1, <2>2 DEF PipelineInv, StoreInv, ReadFresh
  <1>2. PipelineInv => FreshUnlessRaced
    BY <1>1 DEF FreshUnlessRaced
  <1> QED
    BY <1>2, PipelineInvariant, PTL

\* A timeout is reported only of a query that the last poll, after the deadline,
\* still found running.
THEOREM TimeoutsAreNeverEarly == Spec => TimeoutsAreReal
  <1>1. PipelineInv /\ [Next]_vars => [\A a \in Analysts : TimeoutReal(a)]_vars
    BY PipelineStep
  <1>2. (\A a \in Analysts : TimeoutReal(a)) <=>
        (\A a \in Analysts :
           (/\ Len(results'[a]) > Len(results[a])
            /\ results'[a][Len(results'[a])].why = "timeout") =>
              waited[a] >= MaxWait /\ queries[qid[a]].state = "RUNNING")
    BY DEF TimeoutReal
  <1> QED
    BY <1>1, <1>2, PipelineInvariant, PTL DEF Spec, TimeoutsAreReal
=============================================================================
