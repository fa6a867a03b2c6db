---------------------------- MODULE AthenaAnalysis ----------------------------
(***************************************************************************)
(* BaseAnalysisHandler.analyze (scope-core/src/scope_core/handlers.py) on  *)
(* SafeAthenaClient.execute (athena.py): for each entity the caller lists, *)
(* validate it, start a query, poll it to a terminal state or a deadline,  *)
(* fetch its rows; an entity that fails becomes an error in the list.      *)
(*                                                                         *)
(*   place[a] = "idle"    no analysis under way                            *)
(*              "entity"  at the top of the loop over the entities         *)
(*              "poll"    about to call get_query_execution                *)
(*              "sleep"   between two polls                                *)
(*              "fetch"   the query succeeded; about to fetch its rows     *)
(*                                                                         *)
(* Athena is external: it takes a query and brings it to a terminal state  *)
(* some time, or never; nobody cancels a query that was given up.  A call  *)
(* to it takes less than a tick: time passes in the sleeps.                *)
(***************************************************************************)
EXTENDS Naturals, Sequences

CONSTANTS
  Analysts,     \* concurrent invocations of the analysis handler
  Entities,     \* what callers ask about
  Allowlist,    \* the entities the handler accepts
  Requests,     \* the lists of entities callers send
  MaxWait,      \* poll_timeout, in ticks
  PollInterval, \* poll_interval, in ticks
  MaxResults,   \* max_results of fetch_rows, the header row included
  Sizes,        \* how many rows queries have
  MaxRuns       \* bound: analyses by one analyst

ASSUME AnalysisAssumption ==
  /\ Allowlist \subseteq Entities
  /\ Requests \subseteq Seq(Entities)
  /\ MaxWait \in Nat /\ PollInterval \in Nat \ {0}
  /\ MaxResults \in Nat \ {0} /\ Sizes \subseteq Nat
  /\ MaxRuns \in Nat

VARIABLES
  place,     \* as above
  asked,     \* asked[a], the list of the present or last analysis
  results,   \* results[a], what analyze has collected
  qid,       \* qid[a], the query waited for
  waited,    \* waited[a], ticks since the wait for it began
  nap,       \* nap[a], what is left of the sleep
  run,       \* run[a], how many analyses a has begun
  queries    \* Athena's queries; a query's index is its QueryExecutionId

analysisVars == <<place, asked, results, qid, waited, nap, run, queries>>

\* A query is RUNNING (or QUEUED), SUCCEEDED or FAILED (or CANCELLED).
Terminal == {"SUCCEEDED", "FAILED"}

\* Why an entity has no rows; "none" for one that has: its status is completed.
Why == {"none", "disallowed", "call", "failed", "timeout"}

AnalysisInit ==
  /\ place = [a \in Analysts |-> "idle"]
  /\ asked = [a \in Analysts |-> <<>>]
  /\ results = [a \in Analysts |-> <<>>]
  /\ qid = [a \in Analysts |-> 0]
  /\ waited = [a \in Analysts |-> 0]
  /\ nap = [a \in Analysts |-> 0]
  /\ run = [a \in Analysts |-> 0]
  /\ queries = <<>>

\* The entity a is at: each gets its result before the next is looked at.
Entity(a) == asked[a][Len(results[a]) + 1]

Goto(a, p) == place' = [place EXCEPT ![a] = p]

\* The exception of an entity is turned into its result.
Errs(a, why) ==
  /\ results' = [results EXCEPT ![a] =
       Append(@, [entity |-> Entity(a), why |-> why, qid |-> 0, rows |-> 0])]
  /\ qid' = [qid EXCEPT ![a] = 0]
  /\ Goto(a, "entity")

Submitted(a, floor) ==
  Append(queries, [entity |-> Entity(a), by |-> a, run |-> run[a], state |-> "RUNNING",
                   size |-> 0, data |-> 0, floor |-> floor])

-----------------------------------------------------------------------------
(* The handler. *)

Analyze(a) ==
  /\ place[a] = "idle"
  /\ run[a] < MaxRuns
  /\ \E list \in Requests : asked' = [asked EXCEPT ![a] = list]
  /\ results' = [results EXCEPT ![a] = <<>>]
  /\ run' = [run EXCEPT ![a] = @ + 1]
  /\ Goto(a, "entity")
  /\ UNCHANGED <<qid, waited, nap, queries>>

\* analyze returns its list.
Return(a) ==
  /\ place[a] = "entity"
  /\ Len(results[a]) = Len(asked[a])
  /\ Goto(a, "idle")
  /\ UNCHANGED <<asked, results, qid, waited, nap, run, queries>>

More(a) == place[a] = "entity" /\ Len(results[a]) < Len(asked[a])

\* validate_in_allowlist raises
Refuse(a) ==
  /\ More(a)
  /\ Entity(a) \notin Allowlist
  /\ Errs(a, "disallowed")
  /\ UNCHANGED <<asked, waited, nap, run, queries>>

\* start, and the beginning of wait.  The query may read whatever is stored from
\* now on; floor is what is known to be stored by now.
StartQuery(a, floor) ==
  /\ More(a)
  /\ Entity(a) \in Allowlist
  /\ queries' = Submitted(a, floor)
  /\ qid' = [qid EXCEPT ![a] = Len(queries) + 1]
  /\ waited' = [waited EXCEPT ![a] = 0]
  /\ Goto(a, "poll")
  /\ UNCHANGED <<asked, results, nap, run>>

\* Slip: a start that failed is tried again.
StartFails_Retries(a, floor) ==
  /\ More(a)
  /\ Entity(a) \in Allowlist
  /\ Len(queries) < 2 * MaxRuns
  /\ queries' = Submitted(a, floor)
  /\ UNCHANGED <<place, asked, results, qid, waited, nap, run>>

\* build_query or start_query_execution raises; Athena may have the query.
StartFails(a, floor) ==
  /\ More(a)
  /\ Entity(a) \in Allowlist
  /\ queries' \in {queries, Submitted(a, floor)}
  /\ Errs(a, "call")
  /\ UNCHANGED <<asked, waited, nap, run>>

\* Slip: any terminal state ends the wait well.
Poll_AnyTerminal(a) ==
  /\ place[a] = "poll"
  /\ IF queries[qid[a]].state \in Terminal
       THEN Goto(a, "fetch") /\ UNCHANGED <<results, qid, waited, nap>>
     ELSE IF waited[a] >= MaxWait
       THEN Errs(a, "timeout") /\ UNCHANGED <<waited, nap>>
       ELSE /\ nap' = [nap EXCEPT ![a] = PollInterval]
            /\ Goto(a, "sleep")
            /\ UNCHANGED <<results, qid, waited>>
  /\ UNCHANGED <<asked, run, queries>>

\* Slip: the deadline is computed inside the loop.
Poll_Rearms(a) ==
  /\ place[a] = "poll"
  /\ LET state == queries[qid[a]].state IN
     IF state = "SUCCEEDED"
       THEN Goto(a, "fetch") /\ UNCHANGED <<results, qid, waited, nap>>
     ELSE IF state \in Terminal
       THEN Errs(a, "failed") /\ UNCHANGED <<waited, nap>>
       ELSE /\ nap' = [nap EXCEPT ![a] = PollInterval]
            /\ waited' = [waited EXCEPT ![a] = 0]
            /\ Goto(a, "sleep")
            /\ UNCHANGED <<results, qid>>
  /\ UNCHANGED <<asked, run, queries>>

\* Slip: the clock is looked at before the answer.
Poll_ClockFirst(a) ==
  /\ place[a] = "poll"
  /\ LET state == queries[qid[a]].state IN
     IF waited[a] >= MaxWait
       THEN Errs(a, "timeout") /\ UNCHANGED <<waited, nap>>
     ELSE IF state = "SUCCEEDED"
       THEN Goto(a, "fetch") /\ UNCHANGED <<results, qid, waited, nap>>
     ELSE IF state \in Terminal
       THEN Errs(a, "failed") /\ UNCHANGED <<waited, nap>>
       ELSE /\ nap' = [nap EXCEPT ![a] = PollInterval]
            /\ Goto(a, "sleep")
            /\ UNCHANGED <<results, qid, waited>>
  /\ UNCHANGED <<asked, run, queries>>

\* One round of wait: the answer first, then the clock.
Poll(a) ==
  /\ place[a] = "poll"
  /\ LET state == queries[qid[a]].state IN
     IF state = "SUCCEEDED"
       THEN Goto(a, "fetch") /\ UNCHANGED <<results, qid, nap>>
     ELSE IF state \in Terminal
       THEN Errs(a, "failed") /\ UNCHANGED nap
     ELSE IF waited[a] >= MaxWait
       THEN Errs(a, "timeout") /\ UNCHANGED nap
       ELSE /\ nap' = [nap EXCEPT ![a] = PollInterval]
            /\ Goto(a, "sleep")
            /\ UNCHANGED <<results, qid>>
  /\ UNCHANGED <<asked, waited, run, queries>>

\* The sleep is over, and the loop goes round (poll_until_terminal is the same loop).
Wake(a) ==
  /\ place[a] = "sleep"
  /\ nap[a] = 0
  /\ Goto(a, "poll")
  /\ UNCHANGED <<asked, results, qid, waited, nap, run, queries>>

\* fetch_rows reads one page, whose first row is the header.
RowsOf(size) == IF size < MaxResults THEN size ELSE MaxResults - 1

Fetch(a) ==
  /\ place[a] = "fetch"
  /\ results' = [results EXCEPT ![a] =
       Append(@, [entity |-> Entity(a), why |-> "none", qid |-> qid[a],
                  rows |-> RowsOf(queries[qid[a]].size)])]
  /\ qid' = [qid EXCEPT ![a] = 0]
  /\ Goto(a, "entity")
  /\ UNCHANGED <<asked, waited, nap, run, queries>>

\* get_query_execution or get_query_results raises: the query is left alone.
CallFails(a) ==
  /\ place[a] \in {"poll", "fetch"}
  /\ Errs(a, "call")
  /\ UNCHANGED <<asked, waited, nap, run, queries>>

\* The platform kills the invocation; nothing of the list gets out.
Killed(a) ==
  /\ place[a] # "idle"
  /\ Goto(a, "idle")
  /\ asked' = [asked EXCEPT ![a] = <<>>]
  /\ results' = [results EXCEPT ![a] = <<>>]
  /\ qid' = [qid EXCEPT ![a] = 0]
  /\ UNCHANGED <<waited, nap, run, queries>>

AnalystStep(a, floor) ==
  \/ Refuse(a) \/ StartQuery(a, floor) \/ StartFails(a, floor)
  \/ Poll(a) \/ Wake(a) \/ Fetch(a) \/ CallFails(a) \/ Return(a)

-----------------------------------------------------------------------------
(* Athena, and time. *)

\* A query ends.  One that succeeds has read the data stored at that time.
AthenaActs(q, stored) ==
  /\ queries[q].state = "RUNNING"
  /\ \/ \E n \in Sizes :
          queries' = [queries EXCEPT ![q].state = "SUCCEEDED", ![q].size = n,
                                     ![q].data = stored]
     \/ queries' = [queries EXCEPT ![q].state = "FAILED"]
  /\ UNCHANGED <<place, asked, results, qid, waited, nap, run>>

Sleeping == {a \in Analysts : place[a] = "sleep"}

Tick ==
  /\ \A a \in Analysts : place[a] \in {"idle", "sleep"}
  /\ \E a \in Sleeping : nap[a] > 0
  /\ \A a \in Sleeping : nap[a] > 0
  /\ waited' = [a \in Analysts |-> IF a \in Sleeping THEN waited[a] + 1 ELSE waited[a]]
  /\ nap' = [a \in Analysts |-> IF a \in Sleeping THEN nap[a] - 1 ELSE nap[a]]
  /\ UNCHANGED <<place, asked, results, qid, run, queries>>
=============================================================================
