----------------------------- MODULE ScopePipeline -----------------------------
(***************************************************************************)
(* The two halves of a scope-* pipeline (scope-core/README.md): ingestion  *)
(* handlers (BaseIngestionHandler, scope-core/src/scope_core/handlers.py)  *)
(* fetch records from an external source and write them to an S3 object,   *)
(* analysis handlers (AthenaAnalysis) query what is stored.                *)
(*                                                                         *)
(* Records are the version of the source they were fetched from.  Every    *)
(* ingestion writes the same key, default_key of the base class.           *)
(***************************************************************************)
EXTENDS AthenaAnalysis

CONSTANTS
  Ingesters,   \* concurrent invocations of the ingestion handler
  MaxIngests,  \* bound: ingestions by one ingester
  MaxVersion   \* bound: versions of the source

ASSUME PipelineAssumption == MaxIngests \in Nat /\ MaxVersion \in Nat

VARIABLES
  job,        \* job[i]: "idle", or "put" between fetch_records and put_object
  records,    \* records[i], the version in hand; 0 for none
  ingests,    \* ingests[i], how many ingestions i has begun
  source,     \* the version the source is at
  object,     \* the version stored; 0 for no object
  confirmed,  \* history: the newest version whose ingestion was answered with 200
  overtaken,  \* history: ingesters still to write what is older than the object
  raced       \* history: one of them has

ingestVars == <<job, records, ingests, object, confirmed, overtaken, raced>>
vars == <<analysisVars, ingestVars, source>>

Init ==
  /\ AnalysisInit
  /\ job = [i \in Ingesters |-> "idle"]
  /\ records = [i \in Ingesters |-> 0]
  /\ ingests = [i \in Ingesters |-> 0]
  /\ source = 0
  /\ object = 0
  /\ confirmed = 0
  /\ overtaken = {}
  /\ raced = FALSE

Publish ==
  /\ source < MaxVersion
  /\ source' = source + 1
  /\ UNCHANGED <<analysisVars, ingestVars>>

Begins(i) ==
  /\ job[i] = "idle"
  /\ ingests[i] < MaxIngests
  /\ ingests' = [ingests EXCEPT ![i] = @ + 1]
  /\ UNCHANGED <<object, confirmed, overtaken, raced, source, analysisVars>>

\* fetch_records returns something; ingest is about to write it.
FetchRecords(i) ==
  /\ Begins(i)
  /\ source > 0
  /\ records' = [records EXCEPT ![i] = source]
  /\ job' = [job EXCEPT ![i] = "put"]

\* Slip: no records are written like any others.
NothingFetched_Written(i) ==
  /\ Begins(i)
  /\ job' = [job EXCEPT ![i] = "put"]
  /\ UNCHANGED records

\* fetch_records returns an empty list or raises: nothing is written.
NothingFetched(i) ==
  /\ Begins(i)
  /\ UNCHANGED <<job, records>>

\* S3 replaces the object as a whole.
Replaced(i) ==
  /\ object' = records[i]
  /\ raced' = (raced \/ i \in overtaken)
  /\ overtaken' =
       (overtaken \cup {j \in Ingesters : job[j] = "put" /\ records[j] < records[i]}) \ {i}

Ends(i) ==
  /\ job[i] = "put"
  /\ job' = [job EXCEPT ![i] = "idle"]
  /\ records' = [records EXCEPT ![i] = 0]
  /\ UNCHANGED <<ingests, source, analysisVars>>

\* write_object_to_s3 returns, and handle answers with 200.
Put(i) ==
  /\ Ends(i)
  /\ Replaced(i)
  /\ confirmed' = IF records[i] > confirmed THEN records[i] ELSE confirmed

\* put_object raises, before or after the object was replaced, and handle answers
\* with 500; or the invocation is killed there.
PutFails(i) ==
  /\ Ends(i)
  /\ \/ Replaced(i)
     \/ overtaken' = overtaken \ {i} /\ UNCHANGED <<object, raced>>
  /\ UNCHANGED confirmed

Step(a) ==
  /\ AnalystStep(a, confirmed)
  /\ UNCHANGED <<ingestVars, source>>

Next ==
  \/ \E a \in Analysts : Step(a)
  \/ \E a \in Analysts : (Analyze(a) \/ Killed(a)) /\ UNCHANGED <<ingestVars, source>>
  \/ \E q \in DOMAIN queries : AthenaActs(q, object) /\ UNCHANGED <<ingestVars, source>>
  \/ Tick /\ UNCHANGED <<ingestVars, source>>
  \/ Publish
  \/ \E i \in Ingesters :
       FetchRecords(i) \/ NothingFetched(i) \/ Put(i) \/ PutFails(i)

Spec == Init /\ [][Next]_vars

\* Invocations run and sleeps end.  Athena owes nothing: the deadline bounds
\* every wait for it.
Fairness ==
  /\ \A a \in Analysts : WF_vars(Step(a))
  /\ WF_vars(Tick /\ UNCHANGED <<ingestVars, source>>)

FairSpec == Spec /\ Fairness

-----------------------------------------------------------------------------
(* Properties *)

Completed(a) == {r \in {results[a][n] : n \in DOMAIN results[a]} : r.why = "none"}

\* What analyze returns is true, whatever fails and whatever Athena still does:
\* one result per entity in the order asked, and a completed one carries the
\* rows of a query of this very analysis, for that entity, that succeeded: all
\* of them, unless they fill the page.
ResultsTrue ==
  \A a \in Analysts :
    /\ place[a] = "idle" => Len(results[a]) = Len(asked[a])
    /\ \A n \in DOMAIN results[a] :
         LET r == results[a][n] IN
         /\ r.entity = asked[a][n]
         /\ r.why = "none" =>
              LET q == queries[r.qid] IN
              /\ q.by = a /\ q.run = run[a] /\ q.entity = r.entity
              /\ q.entity \in Allowlist
              /\ q.state = "SUCCEEDED"
              /\ r.rows < MaxResults - 1 => r.rows = q.size

\* A query that still runs and that nobody waits for was reported: its entity
\* has an error in the list, for the caller not to take it as settled.  Only an
\* invocation that is killed leaves queries without a word.
LeftoversReported ==
  \A n \in DOMAIN queries :
    LET q == queries[n]
        a == q.by IN
    (q.state = "RUNNING" /\ q.run = run[a] /\ asked[a] # <<>>) =>
      \/ qid[a] = n
      \/ \E m \in DOMAIN results[a] :
           results[a][m].entity = q.entity /\ results[a][m].why \in {"call", "timeout"}

\* A timeout is reported only of a query that has not ended by its deadline.
TimeoutsAreReal ==
  [][\A a \in Analysts :
       (/\ Len(results'[a]) > Len(results[a])
        /\ results'[a][Len(results'[a])].why = "timeout") =>
          waited[a] >= MaxWait /\ queries[qid[a]].state = "RUNNING"]_vars

\* An analysis sees what every ingestion answered before its query was started
\* had stored, or something newer: fetches that fail or find nothing, writes
\* that fail and runs that are killed take nothing away.  What can is an
\* ingestion that writes, late, what it fetched before a newer one was stored.
FreshUnlessRaced ==
  ~raced =>
    \A a \in Analysts : \A r \in Completed(a) :
      queries[r.qid].data >= queries[r.qid].floor

\* Every analysis comes back, though Athena never ends a query.
AnalysesEnd == \A a \in Analysts : place[a] # "idle" ~> place[a] = "idle"

-----------------------------------------------------------------------------
(* What the code does not do. *)

\* scope-core/README.md, of execute: "then returns rows"
AllRowsReturned ==
  \A a \in Analysts : \A r \in Completed(a) : r.rows = queries[r.qid].size

\* What is stored never gets older.
StoredNewest == [][object' >= object]_vars
=============================================================================
