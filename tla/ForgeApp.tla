------------------------------ MODULE ForgeApp ------------------------------
(***************************************************************************)
(* A Forge app on forge-core: resolver invocations (module ForgeResolver)  *)
(* and a webtrigger built with createWebhookHandler (webhook.js), which    *)
(* stores what it is sent as a record of the storage the resolver uses as  *)
(* its cache (forge-core/README.md).                                       *)
(*                                                                         *)
(* A delivery is "idle", "verifying" (awaiting computeExpected) or         *)
(* "storing" (awaiting store).  The configured secret is read when a       *)
(* delivery arrives, and may be unset, set or rotated at any time.         *)
(***************************************************************************)
EXTENDS ForgeResolver

CONSTANTS
  Deliveries,   \* webhook requests that can be handled at the same time
  Secrets       \* secrets the app may be configured with

VARIABLES
  secret,   \* process.env.WEBHOOK_SECRET
  stage,    \* stage[d], as above
  used,     \* used[d], the secret d is verified with
  signed,   \* signed[d], the secret d's signature was made with
  status    \* status[d], how the last delivery was answered

hookVars == <<secret, stage, used, signed, status>>

vars == <<resolverVars, hookVars>>

\* A secret that is not set, or blank; a signature that is missing.  A
\* signature that none of the app's secrets made is Unset: it may have been
\* made with the empty key.
Unset == "unset"
Missing == "missing"

Init ==
  /\ ResolverInit
  /\ secret = Unset
  /\ stage = [d \in Deliveries |-> "idle"]
  /\ used = [d \in Deliveries |-> Unset]
  /\ signed = [d \in Deliveries |-> Missing]
  /\ status = [d \in Deliveries |-> 0]

-----------------------------------------------------------------------------
(* A delivery. *)

\* The handler returns, and its locals are gone.
Answer(d, code) ==
  /\ stage' = [stage EXCEPT ![d] = "idle"]
  /\ status' = [status EXCEPT ![d] = code]
  /\ used' = [used EXCEPT ![d] = Unset]
  /\ signed' = [signed EXCEPT ![d] = Missing]

\* Slip: a secret that is not set is taken for an empty one.
Verdict_Unset(key, signature) == IF signature = Missing THEN 401 ELSE 0

\* verifyWebhook up to its await: 0 is to go on.
Verdict(key, signature) ==
  IF key = Unset THEN 503 ELSE IF signature = Missing THEN 401 ELSE 0

\* A request arrives: it is no POST, or not JSON, or verified.
Receive(d) ==
  /\ stage[d] = "idle"
  /\ \/ \E code \in {405, 400} : Answer(d, code)
     \/ \E signature \in Secrets \cup {Missing, Unset} :
          LET code == Verdict(secret, signature)
          IN  IF code # 0
                THEN Answer(d, code)
                ELSE /\ stage' = [stage EXCEPT ![d] = "verifying"]
                     /\ status' = [status EXCEPT ![d] = 0]
                     /\ used' = [used EXCEPT ![d] = secret]
                     /\ signed' = [signed EXCEPT ![d] = signature]
  /\ UNCHANGED <<resolverVars, secret>>

\* computeExpected answers for the secret read on arrival; the signature is
\* compared with what it says.
Genuine(d) == signed[d] = used[d]

Verify(d) ==
  /\ stage[d] = "verifying"
  /\ IF ~Genuine(d)
       THEN Answer(d, 401)
       ELSE \/ Answer(d, 400)   \* validate refuses the payload
            \/ /\ stage' = [stage EXCEPT ![d] = "storing"]
               /\ UNCHANGED <<status, used, signed>>
  /\ UNCHANGED <<resolverVars, secret>>

Store(d) ==
  /\ stage[d] = "storing"
  /\ entry' = [data |-> [from |-> "webhook", age |-> 0], stamp |-> 0]
  /\ Answer(d, 200)
  /\ UNCHANGED <<pc, data, source, outcome, stamp, secret>>

\* computeExpected or store throws, and the handler rejects (500).
Throws(d) ==
  /\ stage[d] # "idle"
  /\ Answer(d, 500)
  /\ UNCHANGED <<resolverVars, secret>>

\* The app's configuration changes.
Rotate ==
  /\ secret' \in Secrets \cup {Unset}
  /\ UNCHANGED <<resolverVars, stage, used, signed, status>>

Handle(d) == Verify(d) \/ Store(d) \/ Throws(d)

ResolverWork(h) == Work(h) /\ UNCHANGED hookVars

Next ==
  \/ \E h \in Handlers : (Invoke(h) /\ UNCHANGED hookVars) \/ ResolverWork(h)
  \/ Tick /\ UNCHANGED hookVars
  \/ \E d \in Deliveries : Receive(d) \/ Handle(d)
  \/ Rotate

Spec == Init /\ [][Next]_vars

\* Every await comes to an end: fromProxy has a time limit, storage calls and
\* computeExpected answer or throw.
Fairness ==
  /\ \A h \in Handlers : WF_vars(ResolverWork(h))
  /\ \A d \in Deliveries : WF_vars(Handle(d))

FairSpec == Spec /\ Fairness

-----------------------------------------------------------------------------
(* Properties *)

TypeOK ==
  /\ ResolverTypeOK
  /\ secret \in Secrets \cup {Unset}
  /\ stage \in [Deliveries -> {"idle", "verifying", "storing"}]
  /\ used \in [Deliveries -> Secrets \cup {Unset}]
  /\ signed \in [Deliveries -> Secrets \cup {Missing, Unset}]
  /\ status \in [Deliveries -> {0, 200, 400, 401, 405, 500, 503}]

\* The storage changes on behalf of a webhook only for a delivery signed with
\* the secret that was configured when it arrived, whatever the configuration
\* was before and becomes meanwhile; and 200 is answered with the record in
\* the storage.
OnlySignedIsStored ==
  [][\A d \in Deliveries : stage[d] = "storing" /\ stage'[d] = "idle" =>
       /\ status'[d] = 200 => entry'.data = [from |-> "webhook", age |-> 0]
       /\ entry' # entry => signed[d] \in Secrets /\ signed[d] = used[d]]_vars

\* Once proxy and storage work again and invocations go on, the cache sheds
\* the mock that the outage left in it, whatever slow invocations of the
\* outage still write.
CacheRecovers ==
  (/\ <>[][~\E h \in Handlers :
             ProxyFails(h) \/ CacheThrows(h) \/ PersistThrows(h)]_vars
   /\ []<>(\E h \in Handlers : pc[h] = "proxy"))
  => <>[](entry.data.from \in {"proxy", "webhook"})
=============================================================================
