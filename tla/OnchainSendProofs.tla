-------------------------- MODULE OnchainSendProofs --------------------------
(***************************************************************************)
(* Proofs about the on-chain sender, in both languages, for any runs, jobs,*)
(* attempts, fees and breaker settings, over a node that delays, loses,    *)
(* refuses, replaces and mines as it likes.                                *)
(*                                                                         *)
(* How often a run can land is a count of nonces: what it ever sent and    *)
(* the nonce it holds are at most one nonce, and one more for each         *)
(* refresh, and the chain takes a nonce once.  Of two runs of a job that   *)
(* are past the guard or have a transaction somewhere, one passed the      *)
(* guard with the other unrecorded: when the later one did, the earlier    *)
(* was under way, or had ended with no sign_send returned, since one that  *)
(* returns records the key first.                                          *)
(*                                                                         *)
(* Fees.  A bump raises every field, so the run's fee covers all it sent   *)
(* at its nonce.  A refresh resets the fee; what saves the resend then is  *)
(* the nonce: the node answers nonce-too-low only when the old one is      *)
(* taken, for good, and fetch_state does not hand out a taken nonce,       *)
(* provided that it counts pending transactions.                           *)
(*                                                                         *)
(* Hashes.  Once the node has taken a transaction its nonce stays taken,   *)
(* by itself or by what outbid it; so none of the same fee comes after it, *)
(* and a receipt for its hash is its own.                                  *)
(***************************************************************************)
EXTENDS OnchainSend, FiniteSetTheorems, WellFoundedInduction, TLAPS

\* Where a run holds a nonce, and where it has sent nothing yet.
Pinning == {"send", "sent", "wait", "error", "refetch"}
Silent == {"new", "breaker", "fetch"}

\* The nonces of c's run.
Nonces(c) ==
  {t.nonce : t \in {u \in Everywhere : u.by = c}}
    \cup (IF pc[c] \in Pinning THEN {nonce[c]} ELSE {})

ClientTypes ==
  /\ pc \in [Clients -> PC]
  /\ refreshes \in [Clients -> Nat]
  /\ DOMAIN nonce = Clients
  /\ DOMAIN attempt = Clients
  /\ err \in [Clients -> Err]
  /\ DOMAIN result = Clients
  /\ DOMAIN excused = Clients

\* What is somewhere was sent, and so are the transactions of sign_send calls.
Senders ==
  /\ \A t \in Everywhere : t.by \in Clients /\ pc[t.by] \notin Silent
  /\ \A t \in signing \cup marking : t.by \in Clients

\* sign_send records the key before it returns.
Recorded == \A c \in returned : c \in Clients /\ job[c] \in seen

\* The guard let c pass, and c may broadcast or has.
Past(c) == pc[c] \in UnderWay \/ \E t \in Everywhere : t.by = c

PairsExplained ==
  \A c, d \in Clients :
    c # d /\ job[c] = job[d] /\ Past(c) /\ Past(d) => c \in excused[d] \/ d \in excused[c]

NonceBudget ==
  \A c \in Clients :
    IsFiniteSet(Nonces(c)) /\ Cardinality(Nonces(c)) <= 1 + refreshes[c]

MinedNonces ==
  /\ IsFiniteSet(mined)
  /\ \A m \in mined : m.tx.nonce \in Nat /\ m.tx.nonce < Cardinality(mined)
  /\ \A m, n \in mined : m.tx.nonce = n.tx.nonce => m = n

SendInv ==
  /\ ClientTypes
  /\ Senders
  /\ Recorded
  /\ PairsExplained
  /\ NonceBudget
  /\ MinedNonces

-----------------------------------------------------------------------------
(* Counting. *)

\* The size of a finite set is a number, and one more element adds one at most.
LEMMA OneMore ==
  ASSUME NEW S, IsFiniteSet(S), NEW x
  PROVE  /\ IsFiniteSet(S \cup {x})
         /\ Cardinality(S) \in Nat /\ Cardinality(S \cup {x}) \in Nat
         /\ Cardinality(S \cup {x}) <= Cardinality(S) + 1
         /\ x \notin S => Cardinality(S \cup {x}) = Cardinality(S) + 1
  <1>1. /\ IsFiniteSet(S \cup {x})
        /\ Cardinality(S \cup {x}) = IF x \in S THEN Cardinality(S) ELSE Cardinality(S) + 1
    BY FS_AddElement
  <1>2. Cardinality(S) \in Nat /\ Cardinality(S \cup {x}) \in Nat
    BY <1>1, FS_CardinalityType
  <1> QED
    BY <1>1, <1>2

\* A part of a finite set is finite and no larger.
LEMMA Fewer ==
  ASSUME NEW S, IsFiniteSet(S), NEW T, T \subseteq S
  PROVE  /\ IsFiniteSet(T) /\ Cardinality(T) <= Cardinality(S)
         /\ Cardinality(T) \in Nat /\ Cardinality(S) \in Nat
  BY FS_Subset, FS_CardinalityType

-----------------------------------------------------------------------------
(* The invariant is inductive. *)

\* Nothing was sent.
LEMMA InitInv == Init => SendInv
  <1> SUFFICES ASSUME Init PROVE SendInv
    OBVIOUS
  <1>1. ClientTypes
    BY DEF Init, ClientTypes, PC, Err
  <1>2. Everywhere = {} /\ mined = {}
    BY DEF Init, Everywhere
  <1>3. \A c \in Clients : Nonces(c) = {}
    BY <1>2 DEF Nonces, Init, Pinning
  <1>4. NonceBudget
    BY <1>3, FS_EmptySet DEF NonceBudget, Init
  <1>5. MinedNonces
    BY <1>2, FS_EmptySet DEF MinedNonces
  <1>6. Senders /\ Recorded
    BY <1>2 DEF Senders, Recorded, Init
  <1>7. PairsExplained
    BY <1>2 DEF PairsExplained, Past, UnderWay, Init
  <1> QED
    BY <1>1, <1>4, <1>5, <1>6, <1>7 DEF SendInv

\* Steps that send nothing, start nothing and fetch no nonce.
LEMMA QuietInv ==
  ASSUME SendInv, ClientTypes', MinedNonces', Recorded',
         Everywhere' \subseteq Everywhere,
         (signing \cup marking)' \subseteq signing \cup marking,
         UNCHANGED <<job, refreshes, excused>>,
         \A c \in Clients :
           /\ pc'[c] \in UnderWay => pc[c] \in UnderWay
           /\ pc'[c] \in Silent => pc[c] \in Silent
           /\ pc'[c] \in Pinning => pc[c] \in Pinning /\ nonce'[c] = nonce[c]
  PROVE  SendInv'
  <1> USE DEF SendInv
  <1>1. Senders'
    BY DEF Senders
  <1>2. PairsExplained'
    <2>1. \A c \in Clients : Past(c)' => Past(c)
      BY DEF Past
    <2> QED
      BY <2>1 DEF PairsExplained
  <1>3. NonceBudget'
    <2> SUFFICES ASSUME NEW c \in Clients
                 PROVE  (IsFiniteSet(Nonces(c)) /\ Cardinality(Nonces(c)) <= 1 + refreshes[c])'
      BY DEF NonceBudget
    <2>1. Nonces(c)' \subseteq Nonces(c)
      BY DEF Nonces
    <2>2. /\ IsFiniteSet(Nonces(c)) /\ Cardinality(Nonces(c)) <= 1 + refreshes[c]
          /\ refreshes[c] \in Nat
      BY DEF NonceBudget, ClientTypes
    <2> QED
      BY <2>1, <2>2, Fewer
  <1> QED
    BY <1>1, <1>2, <1>3

\* The steps of a run that keep its nonce, or end it.
LEMMA LocalInv ==
  ASSUME SendInv, NEW c \in Clients,
         \/ CheckBreaker(c) \/ FetchFails(c) \/ Interrupted(c) \/ Receipt(c) \/ TimesOut(c)
         \/ OnError(c) \/ (Refetch(c) /\ ~(attempt[c] < MaxAttempts))
  PROVE  SendInv'
  <1> USE DEF SendInv
  <1>1. /\ UNCHANGED <<job, refreshes, excused, seen, returned, inflight, pool, mined>>
        /\ (signing \cup marking)' \subseteq signing \cup marking
    BY DEF CheckBreaker, FetchFails, Interrupted, Receipt, TimesOut, OnError, Refetch, Failed,
           End, Again, appVars, chainVars
  <1>2. ClientTypes'
    BY <1>1 DEF ClientTypes, CheckBreaker, FetchFails, Interrupted, Receipt, TimesOut, OnError,
                Refetch, Failed, End, Again, PC, UnderWay, Err
  <1>3. \/ pc'[c] \in Pinning /\ pc[c] \in Pinning /\ nonce'[c] = nonce[c]
        \/ pc'[c] = "ended"
        \/ pc'[c] = "fetch" /\ pc[c] = "breaker"
    <2>1. CASE CheckBreaker(c)
      BY <2>1 DEF CheckBreaker, ClientTypes
    <2>2. CASE FetchFails(c) \/ Interrupted(c) \/ Receipt(c)
      BY <2>2 DEF FetchFails, Interrupted, Receipt, End, ClientTypes
    <2>3. CASE TimesOut(c) \/ OnError(c) \/ (Refetch(c) /\ ~(attempt[c] < MaxAttempts))
      <3>1. pc[c] \in Pinning
        BY <2>3 DEF TimesOut, OnError, Refetch, Pinning
      <3>2. \/ pc' = [pc EXCEPT ![c] = "refetch"] /\ UNCHANGED nonce
            \/ \E e \in Err : Failed(c, e)
        <4>1. "retryable" \in Err /\ err[c] \in Err
          BY DEF Err, ClientTypes
        <4> QED
          BY <2>3, <4>1 DEF TimesOut, OnError, Refetch
      <3>3. CASE pc' = [pc EXCEPT ![c] = "refetch"] /\ UNCHANGED nonce
        BY <3>1, <3>3 DEF Pinning, ClientTypes
      <3>4. ASSUME NEW e \in Err, Failed(c, e)
            PROVE  (pc'[c] = "send" /\ nonce'[c] = nonce[c]) \/ pc'[c] = "ended"
        BY <3>4 DEF Failed, End, Again, ClientTypes
      <3> QED
        BY <3>1, <3>2, <3>3, <3>4 DEF Pinning
    <2> QED
      BY <2>1, <2>2, <2>3
  <1>4. \A d \in Clients \ {c} : pc'[d] = pc[d] /\ nonce'[d] = nonce[d]
    BY DEF ClientTypes, CheckBreaker, FetchFails, Interrupted, Receipt, TimesOut, OnError,
           Refetch, Failed, End, Again
  <1>5. Everywhere' = Everywhere /\ MinedNonces' /\ Recorded'
    BY <1>1 DEF Everywhere, MinedNonces, Recorded
  <1>6. \A d \in Clients :
           /\ pc'[d] \in UnderWay => pc[d] \in UnderWay
           /\ pc'[d] \in Silent => pc[d] \in Silent
           /\ pc'[d] \in Pinning => pc[d] \in Pinning /\ nonce'[d] = nonce[d]
    BY <1>3, <1>4 DEF Pinning, Silent, UnderWay
  <1> QED
    BY <1>1, <1>2, <1>5, <1>6, QuietInv

\* The node takes or drops a request, or sign_send records one it took.
LEMMA NodeInv ==
  ASSUME SendInv, NEW t,
         \/ t \in inflight /\ (NodeAccepts(t) \/ NodeRefuses(t))
         \/ t \in marking /\ Mark(t)
  PROVE  SendInv'
  <1> USE DEF SendInv
  <1>1. /\ UNCHANGED <<job, refreshes, excused, mined, nonce, result, attempt>>
        /\ inflight' \subseteq inflight /\ pool' \subseteq pool \cup ({t} \cap inflight)
        /\ (signing \cup marking)' \subseteq signing \cup marking
    BY DEF NodeAccepts, NodeRefuses, Raise, Mark, clientVars, chainVars
  <1>2. \/ UNCHANGED <<pc, err>>
        \/ /\ pc[t.by] = "sent"
           /\ \E p \in {"wait", "error"} : pc' = [pc EXCEPT ![t.by] = p]
           /\ err' = err \/ \E e \in Err : err' = [err EXCEPT ![t.by] = e]
    BY DEF NodeAccepts, NodeRefuses, Raise, Mark, clientVars, Err
  <1>3. ClientTypes'
    BY <1>1, <1>2 DEF ClientTypes, PC, UnderWay, Err
  <1>4. Everywhere' \subseteq Everywhere /\ MinedNonces'
    BY <1>1 DEF Everywhere, MinedNonces
  <1>5. Recorded'
    <2>1. CASE UNCHANGED <<seen, returned>>
      BY <1>1, <2>1 DEF Recorded
    <2>2. CASE t \in marking /\ Mark(t)
      BY <1>1, <2>2 DEF Recorded, Mark, Senders
    <2> QED
      BY <2>1, <2>2 DEF NodeAccepts, NodeRefuses
  <1>6. \A c \in Clients :
           \/ pc'[c] = pc[c]
           \/ pc[c] = "sent" /\ pc'[c] \in {"wait", "error"}
    BY <1>2 DEF ClientTypes
  <1>7. \A c \in Clients :
           /\ pc'[c] \in UnderWay => pc[c] \in UnderWay
           /\ pc'[c] \in Silent => pc[c] \in Silent
           /\ pc'[c] \in Pinning => pc[c] \in Pinning
    BY <1>6 DEF Pinning, Silent, UnderWay
  <1> QED
    BY <1>1, <1>3, <1>4, <1>5, <1>7, QuietInv

\* A transaction is mined: its nonce is the next one.
LEMMA MineInv ==
  ASSUME SendInv, NEW t \in pool, Mine(t)
  PROVE  SendInv'
  <1> USE DEF SendInv
  <1>1. PICK ok \in BOOLEAN : mined' = mined \cup {[tx |-> t, ok |-> ok]}
    BY DEF Mine
  <1>2. /\ UNCHANGED <<job, pc, refreshes, excused, nonce, attempt, err, result, seen, signing,
                       marking, returned, inflight>>
        /\ pool' \subseteq pool /\ t.nonce = Cardinality(mined)
    BY DEF Mine, Latest, clientVars, appVars
  <1> DEFINE new == [tx |-> t, ok |-> ok]
  <1>3. MinedNonces'
    <2>1. IsFiniteSet(mined) /\ Cardinality(mined) \in Nat
      BY FS_CardinalityType DEF MinedNonces
    <2>2. new \notin mined
      BY <1>2, <2>1 DEF MinedNonces
    <2>3. IsFiniteSet(mined') /\ Cardinality(mined') = Cardinality(mined) + 1
      BY <1>1, <2>1, <2>2, OneMore
    <2>4. \A m \in mined' : m \in mined \/ (m.tx.nonce = Cardinality(mined) /\ m = new)
      BY <1>1, <1>2
    <2> QED
      BY <2>1, <2>3, <2>4 DEF MinedNonces
  <1>4. Everywhere' \subseteq Everywhere /\ Recorded'
    BY <1>1, <1>2 DEF Everywhere, Recorded
  <1>5. ClientTypes'
    BY <1>2 DEF ClientTypes
  <1> QED
    BY <1>2, <1>3, <1>4, <1>5, QuietInv

\* A crash ends every run under way; the rest is the breaker's.
LEMMA OthersInv ==
  ASSUME SendInv, Crash \/ Tick \/ UNCHANGED vars
  PROVE  SendInv'
  <1> USE DEF SendInv
  <1>1. /\ UNCHANGED <<job, refreshes, excused, seen, returned, inflight, pool, mined>>
        /\ (signing \cup marking)' \subseteq signing \cup marking
        /\ \/ UNCHANGED <<pc, nonce, result, attempt, err>>
           \/ /\ pc' = [c \in Clients |-> IF pc[c] \in UnderWay THEN "ended" ELSE pc[c]]
              /\ DOMAIN result' = Clients
              /\ DOMAIN nonce' = Clients /\ DOMAIN attempt' = Clients /\ err' \in [Clients -> Err]
    BY DEF Crash, Tick, vars, clientVars, appVars, chainVars, Err
  <1>2. ClientTypes'
    BY <1>1 DEF ClientTypes, PC, UnderWay, Err
  <1>3. Everywhere' = Everywhere /\ MinedNonces' /\ Recorded'
    BY <1>1 DEF Everywhere, MinedNonces, Recorded
  <1>4. \A c \in Clients :
           /\ pc'[c] \in UnderWay => pc[c] \in UnderWay
           /\ pc'[c] \in Silent => pc[c] \in Silent
           /\ pc'[c] \in Pinning => pc[c] \in Pinning /\ nonce'[c] = nonce[c]
    BY <1>1 DEF Pinning, Silent, UnderWay
  <1> QED
    BY <1>1, <1>2, <1>3, <1>4, QuietInv

\* A run is called: what broadcast before it is under way, or is not recorded,
\* or the guard turns the run away.
LEMMA StartInv ==
  ASSUME SendInv, NEW c \in Clients, Start(c)
  PROVE  SendInv'
  <1> USE DEF SendInv
  <1>1. /\ UNCHANGED <<job, refreshes, seen, signing, marking, returned, inflight, pool, mined,
                       nonce, attempt, err>>
        /\ pc[c] = "new" /\ excused' = [excused EXCEPT ![c] = Unrecorded(c)]
        /\ \/ pc' = [pc EXCEPT ![c] = "ended"]
           \/ job[c] \notin seen /\ pc' = [pc EXCEPT ![c] = "breaker"]
        /\ DOMAIN result' = Clients
    BY DEF Start, appVars, breakerVars, chainVars, ClientTypes
  <1>2. ClientTypes'
    BY <1>1 DEF ClientTypes, PC, UnderWay, Err
  <1>3. Everywhere' = Everywhere /\ MinedNonces' /\ Recorded'
    BY <1>1 DEF Everywhere, MinedNonces, Recorded
  <1>4. /\ \A d \in Clients : d # c => pc'[d] = pc[d] /\ excused'[d] = excused[d]
        /\ excused'[c] = Unrecorded(c) /\ pc'[c] \in {"ended", "breaker"}
        /\ pc'[c] = "breaker" => job[c] \notin seen
    BY <1>1 DEF ClientTypes
  <1>5. \A t \in Everywhere : t.by # c
    BY <1>1 DEF Senders, Silent
  <1>6. Senders'
    BY <1>1, <1>3, <1>4, <1>5 DEF Senders
  <1>7. PairsExplained'
    <2>1. \A d \in Clients : d # c => (Past(d)' <=> Past(d))
      BY <1>3, <1>4 DEF Past
    <2>2. Past(c)' => job[c] \notin seen
      BY <1>3, <1>4, <1>5 DEF Past, UnderWay
    <2>3. ASSUME NEW d \in Clients, d # c, job[d] = job[c], Past(d), job[c] \notin seen
          PROVE  d \in Unrecorded(c)
      <3>1. pc[d] \in PC /\ d \notin returned
        BY <2>3 DEF ClientTypes, Recorded
      <3>2. CASE pc[d] \in UnderWay
        BY <2>3, <3>2 DEF Unrecorded
      <3>3. CASE pc[d] \notin UnderWay
        <4>1. pc[d] \notin Silent
          BY <2>3, <3>3 DEF Past, Senders
        <4>2. pc[d] = "ended"
          BY <3>1, <3>3, <4>1 DEF PC, Silent
        <4> QED
          BY <2>3, <3>1, <4>2 DEF Unrecorded
      <3> QED
        BY <3>2, <3>3
    <2>4. ASSUME NEW d \in Clients, NEW e \in Clients, d # e, job[d] = job[e], Past(d)', Past(e)'
          PROVE  d \in excused'[e] \/ e \in excused'[d]
      <3>1. CASE d # c /\ e # c
        BY <1>4, <2>1, <2>4, <3>1 DEF PairsExplained
      <3>2. CASE d = c
        BY <1>4, <2>1, <2>2, <2>3, <2>4, <3>2
      <3>3. CASE e = c
        BY <1>4, <2>1, <2>2, <2>3, <2>4, <3>3
      <3> QED
        BY <3>1, <3>2, <3>3
    <2> QED
      BY <1>1, <2>4 DEF PairsExplained
  <1>8. NonceBudget'
    <2>1. \A d \in Clients : Nonces(d)' = Nonces(d)
      <3>1. pc[c] \notin Pinning /\ pc'[c] \notin Pinning
        BY <1>1, <1>4 DEF Pinning
      <3> QED
        BY <1>1, <1>3, <1>4, <3>1 DEF Nonces
    <2> QED
      BY <1>1, <2>1 DEF NonceBudget
  <1> QED
    BY <1>2, <1>3, <1>6, <1>7, <1>8

\* A run pins its first nonce, or a fresh one, which is counted.
LEMMA FetchInv ==
  ASSUME SendInv, NEW c \in Clients,
         Fetch(c) \/ (Refetch(c) /\ attempt[c] < MaxAttempts)
  PROVE  SendInv'
  <1> USE DEF SendInv
  <1>1. /\ UNCHANGED <<job, excused, seen, signing, marking, returned, inflight, pool, mined,
                       result>>
        /\ pc' = [pc EXCEPT ![c] = "send"] /\ pc[c] \in {"fetch", "refetch"}
        /\ nonce' = [nonce EXCEPT ![c] = FetchedNonce]
        /\ DOMAIN attempt' = Clients /\ err' \in [Clients -> Err]
        /\ \/ pc[c] = "fetch" /\ UNCHANGED refreshes
           \/ refreshes' = [refreshes EXCEPT ![c] = @ + 1]
    BY DEF Fetch, Refetch, Again, appVars, breakerVars, chainVars, ClientTypes, Err
  <1>2. ClientTypes'
    BY <1>1 DEF ClientTypes, PC, UnderWay, Err
  <1>3. Everywhere' = Everywhere /\ MinedNonces' /\ Recorded'
    BY <1>1 DEF Everywhere, MinedNonces, Recorded
  <1>4. /\ \A d \in Clients : d # c => pc'[d] = pc[d]
        /\ pc'[c] = "send"
    BY <1>1 DEF ClientTypes
  <1>5. Senders' /\ PairsExplained'
    <2>1. \A d \in Clients : Past(d)' => Past(d)
      BY <1>1, <1>3, <1>4 DEF Past, UnderWay
    <2>2. PairsExplained'
      BY <1>1, <2>1 DEF PairsExplained
    <2>3. Senders'
      BY <1>1, <1>3, <1>4 DEF Senders, Silent
    <2> QED
      BY <2>2, <2>3
  <1>6. NonceBudget'
    <2> SUFFICES ASSUME NEW d \in Clients
                 PROVE  (IsFiniteSet(Nonces(d)) /\ Cardinality(Nonces(d)) <= 1 + refreshes[d])'
      BY DEF NonceBudget
    <2>0. /\ IsFiniteSet(Nonces(d)) /\ Cardinality(Nonces(d)) <= 1 + refreshes[d]
          /\ Cardinality(Nonces(d)) \in Nat /\ refreshes[d] \in Nat
      BY FS_CardinalityType DEF NonceBudget, ClientTypes
    <2>1. CASE d # c
      <3>1. Nonces(d)' = Nonces(d) /\ refreshes'[d] = refreshes[d]
        BY <1>1, <1>3, <2>1 DEF Nonces, ClientTypes
      <3> QED
        BY <2>0, <3>1
    <2>2. CASE d = c /\ refreshes' = [refreshes EXCEPT ![c] = @ + 1]
      <3>1. Nonces(c)' \subseteq Nonces(c) \cup {FetchedNonce}
        BY <1>1, <1>3 DEF Nonces, ClientTypes
      <3>2. refreshes'[c] = refreshes[c] + 1
        BY <2>2 DEF ClientTypes
      <3>3. /\ IsFiniteSet(Nonces(c) \cup {FetchedNonce})
            /\ Cardinality(Nonces(c) \cup {FetchedNonce}) <= Cardinality(Nonces(c)) + 1
            /\ Cardinality(Nonces(c) \cup {FetchedNonce}) \in Nat
        BY <2>0, <2>2, OneMore
      <3>4. /\ IsFiniteSet(Nonces(c)')
            /\ Cardinality(Nonces(c)') <= Cardinality(Nonces(c) \cup {FetchedNonce})
            /\ Cardinality(Nonces(c)') \in Nat
        BY <3>1, <3>3, Fewer
      <3> QED
        BY <2>0, <2>2, <3>2, <3>3, <3>4
    <2>3. CASE d = c /\ pc[c] = "fetch" /\ UNCHANGED refreshes
      <3>1. \A t \in Everywhere : t.by # c
        BY <2>3 DEF Senders, Silent
      <3>2. Nonces(c)' = {FetchedNonce}
        BY <1>1, <1>3, <3>1 DEF Nonces, ClientTypes, Pinning
      <3>3. IsFiniteSet(Nonces(c)') /\ Cardinality(Nonces(c)') = 1
        BY <3>2, FS_Singleton
      <3> QED
        BY <2>0, <2>3, <3>3
    <2> QED
      BY <1>1, <2>1, <2>2, <2>3
  <1> QED
    BY <1>2, <1>3, <1>5, <1>6

\* A broadcast is of this run, which is past the guard, at the nonce it holds.
LEMMA BroadcastInv ==
  ASSUME SendInv, NEW c \in Clients, Send(c)
  PROVE  SendInv'
  <1> USE DEF SendInv
  <1>1. /\ UNCHANGED <<job, refreshes, excused, seen, marking, returned, pool, mined, nonce,
                       attempt, err, result>>
        /\ pc' = [pc EXCEPT ![c] = "sent"] /\ pc[c] = "send"
        /\ inflight' = inflight \cup {Current(c)} /\ signing' = signing \cup {Current(c)}
    BY DEF Send, breakerVars
  <1>2. ClientTypes'
    BY <1>1 DEF ClientTypes, PC, UnderWay, Err
  <1>3. Everywhere' = Everywhere \cup {Current(c)} /\ MinedNonces' /\ Recorded'
    BY <1>1 DEF Everywhere, MinedNonces, Recorded
  <1>4. Current(c).by = c /\ Current(c).nonce = nonce[c]
    BY DEF Current
  <1>5. \A t \in Everywhere' : t \in Everywhere \/ t = Current(c)
    BY <1>3
  <1>6. Senders'
    BY <1>1, <1>4, <1>5 DEF Senders, Silent, ClientTypes
  <1>7. PairsExplained'
    <2>1. pc[c] \in UnderWay /\ \A d \in Clients : pc'[d] \in UnderWay => pc[d] \in UnderWay
      BY <1>1 DEF UnderWay, ClientTypes
    <2>2. \A d \in Clients : Past(d)' => Past(d)
      BY <1>4, <1>5, <2>1 DEF Past
    <2> QED
      BY <1>1, <2>2 DEF PairsExplained
  <1>8. NonceBudget'
    <2> SUFFICES ASSUME NEW d \in Clients
                 PROVE  (IsFiniteSet(Nonces(d)) /\ Cardinality(Nonces(d)) <= 1 + refreshes[d])'
      BY DEF NonceBudget
    <2>1. Nonces(d)' \subseteq Nonces(d)
      <3>1. pc'[d] \in Pinning <=> pc[d] \in Pinning
        BY <1>1 DEF Pinning, ClientTypes
      <3>2. pc[c] \in Pinning
        BY <1>1 DEF Pinning
      <3> QED
        BY <1>1, <1>4, <1>5, <3>1, <3>2 DEF Nonces
    <2>2. /\ IsFiniteSet(Nonces(d)) /\ Cardinality(Nonces(d)) <= 1 + refreshes[d]
          /\ refreshes[d] \in Nat
      BY DEF NonceBudget, ClientTypes
    <2> QED
      BY <1>1, <2>1, <2>2, Fewer
  <1> QED
    BY <1>2, <1>3, <1>6, <1>7, <1>8

\* Every step keeps the invariant.
LEMMA SendInvStep == SendInv /\ [Next]_vars => SendInv'
  <1> SUFFICES ASSUME SendInv, [Next]_vars PROVE SendInv'
    OBVIOUS
  <1>1. ASSUME NEW c \in Clients, Start(c) \/ Advance(c) \/ Interrupted(c)
        PROVE  SendInv'
    <2>1. CASE Refetch(c)
      BY <2>1, FetchInv, LocalInv
    <2>2. CASE \/ CheckBreaker(c) \/ FetchFails(c) \/ Receipt(c) \/ TimesOut(c)
               \/ OnError(c) \/ Interrupted(c)
      BY <2>2, LocalInv
    <2>3. CASE Start(c) \/ Fetch(c) \/ Send(c)
      BY <2>3, StartInv, FetchInv, BroadcastInv
    <2> QED
      BY <1>1, <2>1, <2>2, <2>3 DEF Advance
  <1>2. ASSUME NEW t, \/ t \in inflight /\ (NodeAccepts(t) \/ NodeRefuses(t))
                      \/ t \in marking /\ Mark(t)
        PROVE  SendInv'
    BY <1>2, NodeInv
  <1>3. ASSUME NEW t \in pool, Mine(t) PROVE SendInv'
    BY <1>3, MineInv
  <1>4. CASE Crash \/ Tick \/ UNCHANGED vars
    BY <1>4, OthersInv
  <1> QED
    BY <1>1, <1>2, <1>3, <1>4 DEF Next

\* The invariant holds in every behaviour of the sender.
LEMMA SendInvariant == Spec => []SendInv
  BY InitInv, SendInvStep, PTL DEF Spec

-----------------------------------------------------------------------------
(* The properties. *)

\* However late abandoned attempts land, a run lands once for the nonce it
\* first pinned and once more for every refresh.
THEOREM LandingsAreBounded == Spec => []LandingsBoundedByRefreshes
  <1>1. ASSUME SendInv PROVE LandingsBoundedByRefreshes
    <2> SUFFICES ASSUME NEW c \in Clients
                 PROVE  Cardinality(Landed(c)) <= 1 + refreshes[c]
      BY DEF LandingsBoundedByRefreshes
    <2> DEFINE L == Landed(c)
               N == Nonces(c)
               f == [m \in L |-> m.tx.nonce]
    <2>1. \A m \in L : m.tx.nonce \in N
      BY DEF Landed, Nonces, Everywhere
    <2>2. f \in [L -> N] /\ \A m, n \in L : f[m] = f[n] => m = n
      BY <1>1, <2>1 DEF SendInv, MinedNonces, Landed
    <2>3. f \in Injection(L, N)
      BY <2>2 DEF Injection, IsInjective
    <2>4. IsFiniteSet(N) /\ Cardinality(N) <= 1 + refreshes[c] /\ refreshes[c] \in Nat
      BY <1>1 DEF SendInv, NonceBudget, ClientTypes
    <2>5. IsFiniteSet(L) /\ Cardinality(L) <= Cardinality(N)
      BY <2>3, <2>4, FS_Injection
    <2>6. Cardinality(L) \in Nat /\ Cardinality(N) \in Nat
      BY <2>4, <2>5, FS_CardinalityType
    <2> QED
      BY <2>4, <2>5, <2>6
  <1> QED
    BY <1>1, SendInvariant, PTL

\* Two runs of a job both broadcast only if one was let pass while the other was
\* under way, or after it ended with no sign_send returned.
THEOREM DuplicatesAreExplained == Spec => []DuplicatesExplained
  <1>1. SendInv => DuplicatesExplained
    BY DEF SendInv, Senders, PairsExplained, Past, DuplicatesExplained
  <1> QED
    BY <1>1, SendInvariant, PTL

-----------------------------------------------------------------------------
(* Fees: the invariant, relative to SendInv. *)

\* Transactions of c that may still land.
Own(c) == {t \in inflight \cup pool : t.by = c}

\* The account has a transaction with nonce n, landed or pending.
Taken(n) == n < Latest \/ \E u \in pool : u.nonce = n

Covers(f, g) == \A x \in FeeField : f[x] >= g[x]

FeeTypes ==
  /\ nonce \in [Clients -> Nat]
  /\ fee \in [Clients -> Fee]
  /\ \A t \in inflight \cup pool : t.nonce \in Nat /\ t.fee \in Fee
  /\ IsFiniteSet(pool)

\* Nonce-too-low is not an answer of the node's while the nonce is free.
TooLowIsTrue ==
  \A c \in Clients :
    \/ pc[c] = "refetch"
    \/ pc[c] = "error" /\ err[c] = "nonce"
    => Taken(nonce[c])

OthersTaken ==
  \A c \in Clients : pc[c] \in Pinning =>
    \A t \in Own(c) : t.nonce = nonce[c] \/ Taken(t.nonce)

FeeCovers ==
  \A c \in Clients : pc[c] \in Pinning /\ (refreshes[c] = 0 \/ FetchPending) =>
    \A t \in Own(c) : t.nonce = nonce[c] =>
      IF pc[c] = "send" THEN Outbids(fee[c], t.fee) ELSE Covers(fee[c], t.fee)

FeeInv == FeeTypes /\ TooLowIsTrue /\ OthersTaken /\ FeeCovers

-----------------------------------------------------------------------------
(* Fees. *)

\* Whole numbers: a product with the bump factor, divided back and raised by
\* one, is more than it was.
LEMMA BumpRaises ==
  ASSUME NEW f \in Nat
  PROVE  (f * BumpMilli) \div 1000 + 1 \in Nat /\ (f * BumpMilli) \div 1000 + 1 > f
  <1>1. BumpMilli \in Nat /\ BumpMilli >= 1000
    BY OnchainAssumption
  <1>2. f * BumpMilli >= f * 1000
    BY <1>1
  <1>3. PICK p \in Nat : p = f * BumpMilli
    BY <1>1
  <1>4. p \div 1000 >= f /\ p \div 1000 \in Nat
    BY <1>2, <1>3
  <1> QED
    BY <1>3, <1>4

\* A bumped fee outbids whatever the fee covered.
LEMMA BumpOutbids ==
  ASSUME NEW f \in Fee
  PROVE  /\ BumpFee(f) \in Fee
         /\ \A g \in Fee : Covers(f, g) => Outbids(BumpFee(f), g)
  <1>1. \A x \in FeeField : f[x] \in Nat
    BY DEF Fee
  <1>2. \A x \in FeeField : BumpFee(f)[x] \in Nat /\ BumpFee(f)[x] > f[x]
    BY <1>1, BumpRaises DEF BumpFee
  <1>3. BumpFee(f) \in Fee
    BY <1>2 DEF BumpFee, Fee
  <1>4. ASSUME NEW g \in Fee, Covers(f, g) PROVE Outbids(BumpFee(f), g)
    BY <1>1, <1>2, <1>4 DEF Covers, Outbids, Fee
  <1> QED
    BY <1>3, <1>4

\* Fees that a run starts or ends with.
LEMMA GivenFees == InitialFee \in Fee /\ NoFee \in Fee
  BY OnchainAssumption DEF InitialFee, NoFee, Fee

-----------------------------------------------------------------------------
(* The nonce that fetch_state reports. *)

\* A set of natural numbers has a least one.
LEMMA LeastOne ==
  ASSUME NEW T \in SUBSET Nat, T # {}
  PROVE  \E n \in T : \A m \in T : n <= m
  <1> DEFINE R == {p \in Nat \X Nat : p[1] < p[2]}
  <1>1. IsWellFoundedOn(R, Nat)
    <2>1. R = OpToRel(<, Nat)
      BY DEF OpToRel
    <2> QED
      BY <2>1, NatLessThanWellFounded
  <1>2. PICK n \in T : \A m \in T : ~(<<m, n>> \in R)
    <2> HIDE DEF R
    <2> QED
      BY <1>1, WFMin
  <1>3. ASSUME NEW m \in T PROVE n <= m
    <2>1. m \in Nat /\ n \in Nat /\ <<m, n>> \notin R
      BY <1>2
    <2>2. ~(<<m, n>>[1] < <<m, n>>[2])
      BY <2>1
    <2> QED
      BY <2>1, <2>2
  <1> QED
    BY <1>3

\* Among one more numbers than there are pending transactions one is free.
LEMMA SomeFree ==
  ASSUME NEW P, IsFiniteSet(P), NEW a \in Nat
  PROVE  \E n \in a .. a + Cardinality(P) : \A t \in P : t.nonce # n
  <1> DEFINE N == {t.nonce : t \in P}
             S == a .. a + Cardinality(P)
             f == [t \in P |-> t.nonce]
  <1>1. Cardinality(P) \in Nat
    BY FS_CardinalityType
  <1>2. f \in Surjection(P, N)
    BY DEF Surjection
  <1>3. IsFiniteSet(N) /\ Cardinality(N) <= Cardinality(P)
    <2> HIDE DEF N, f
    <2> QED
      BY <1>2, FS_Surjection
  <1>4. Cardinality(S) = Cardinality(P) + 1
    BY <1>1, FS_Interval
  <1>5. ~(S \subseteq N)
    <2> HIDE DEF N, S
    <2>1. ASSUME S \subseteq N PROVE FALSE
      <3>1. Cardinality(S) <= Cardinality(N) /\ Cardinality(N) \in Nat
        BY <1>3, <2>1, FS_Subset, FS_CardinalityType
      <3> QED
        BY <1>1, <1>3, <1>4, <3>1
    <2> QED
      BY <2>1
  <1> QED
    BY <1>5

\* fetch_state reports a natural number, and a free one if it counts pending
\* transactions.
LEMMA FetchedIsFree ==
  ASSUME IsFiniteSet(pool), Latest \in Nat
  PROVE  FetchedNonce \in Nat /\ (FetchPending => ~Taken(FetchedNonce))
  <1> DEFINE Free(n) == n >= Latest /\ \A t \in pool : t.nonce # n
             S == Latest .. Latest + Cardinality(pool)
             First(n) == Free(n) /\ \A m \in Latest .. n - 1 : ~Free(m)
  <1>0. Cardinality(pool) \in Nat
    BY FS_CardinalityType
  <1>1. CASE FetchPending
    <2>1. \E n \in S : Free(n)
      BY <1>0, SomeFree
    <2>2. {n \in S : Free(n)} \in SUBSET Nat
      BY <1>0
    <2>3. PICK n \in {m \in S : Free(m)} : \A m \in {k \in S : Free(k)} : n <= m
      <3> HIDE DEF Free, S
      <3> QED
        BY <2>1, <2>2, LeastOne
    <2>4. n \in S /\ First(n)
      <3>1. n \in S /\ n \in Nat /\ Free(n)
        BY <1>0, <2>3
      <3>2. ASSUME NEW m \in Latest .. n - 1 PROVE ~Free(m)
        <4>1. m \in S /\ ~(n <= m)
          BY <1>0, <3>1
        <4> HIDE DEF Free, S
        <4> QED
          BY <2>3, <4>1
      <3> QED
        BY <3>1, <3>2
    <2>5. FetchedNonce = CHOOSE i \in S : First(i)
      BY <1>1 DEF FetchedNonce
    <2>6. FetchedNonce \in S /\ First(FetchedNonce)
      <3> HIDE DEF First, S
      <3> QED
        BY <2>4, <2>5
    <2> QED
      BY <1>0, <2>6 DEF Taken
  <1>2. CASE ~FetchPending
    BY <1>2 DEF FetchedNonce
  <1> QED
    BY <1>1, <1>2

-----------------------------------------------------------------------------
(* It is inductive. *)

\* Nothing was sent.
LEMMA FeeInit == Init => FeeInv
  <1> SUFFICES ASSUME Init PROVE FeeInv
    OBVIOUS
  <1>1. FeeTypes
    BY GivenFees, FS_EmptySet DEF Init, FeeTypes
  <1>2. TooLowIsTrue /\ OthersTaken /\ FeeCovers
    BY DEF Init, TooLowIsTrue, OthersTaken, FeeCovers, Pinning
  <1> QED
    BY <1>1, <1>2 DEF FeeInv

\* Steps that send nothing and fetch no nonce.  A run keeps its nonce, and its
\* fee or bumps it.
LEMMA QuietFees ==
  ASSUME FeeInv, FeeTypes', TooLowIsTrue', UNCHANGED refreshes,
         (inflight \cup pool)' \subseteq inflight \cup pool,
         \A n \in Nat : Taken(n) => Taken(n)',
         \A c \in Clients : pc'[c] \in Pinning =>
           /\ pc[c] \in Pinning /\ nonce'[c] = nonce[c]
           /\ \/ fee'[c] = fee[c] /\ (pc'[c] = "send" <=> pc[c] = "send")
              \/ fee'[c] = BumpFee(fee[c]) /\ pc[c] # "send"
  PROVE  FeeInv'
  <1> USE DEF FeeInv
  <1>1. \A c \in Clients : Own(c)' \subseteq Own(c)
    BY DEF Own
  <1>2. \A c \in Clients : \A t \in Own(c) : t.nonce \in Nat /\ t.fee \in Fee
    BY DEF Own, FeeTypes
  <1>3. OthersTaken'
    BY <1>1, <1>2 DEF OthersTaken
  <1>4. FeeCovers'
    <2> SUFFICES ASSUME NEW c \in Clients, pc'[c] \in Pinning,
                        refreshes[c] = 0 \/ FetchPending,
                        NEW t \in Own(c), t.nonce = nonce[c]
                 PROVE  IF pc'[c] = "send" THEN Outbids(fee'[c], t.fee)
                                           ELSE Covers(fee'[c], t.fee)
      BY <1>1 DEF FeeCovers
    <2>1. /\ IF pc[c] = "send" THEN Outbids(fee[c], t.fee) ELSE Covers(fee[c], t.fee)
          /\ fee[c] \in Fee /\ t.fee \in Fee
      BY <1>2 DEF FeeCovers, FeeTypes
    <2>2. CASE fee'[c] = fee[c] /\ (pc'[c] = "send" <=> pc[c] = "send")
      BY <2>1, <2>2
    <2>3. CASE fee'[c] = BumpFee(fee[c]) /\ pc[c] # "send"
      <3>1. Outbids(fee'[c], t.fee) /\ fee'[c] \in Fee
        BY <2>1, <2>3, BumpOutbids
      <3>2. Covers(fee'[c], t.fee)
        BY <2>1, <3>1 DEF Covers, Outbids, Fee
      <3> QED
        BY <3>1, <3>2
    <2> QED
      BY <2>2, <2>3
  <1> QED
    BY <1>3, <1>4

\* The chain is as it was: so is what is taken.
LEMMA SameTaken ==
  ASSUME UNCHANGED <<pool, mined>>
  PROVE  \A n : Taken(n)' = Taken(n)
  BY DEF Taken, Latest

\* The steps of a run that keep its nonce, or end it.
LEMMA LocalFees ==
  ASSUME FeeInv, SendInv, NEW c \in Clients,
         \/ CheckBreaker(c) \/ FetchFails(c) \/ Interrupted(c) \/ Receipt(c) \/ TimesOut(c)
         \/ OnError(c) \/ (Refetch(c) /\ ~(attempt[c] < MaxAttempts))
  PROVE  FeeInv'
  <1> USE DEF FeeInv
  <1>1. UNCHANGED <<refreshes, inflight, pool, mined>>
    BY DEF CheckBreaker, FetchFails, Interrupted, Receipt, TimesOut, OnError, Refetch, Failed,
           End, Again, chainVars
  <1>2. \/ \E res \in Result : End(c, res)
        \/ \E p \in {"fetch", "ended"} : /\ pc' = [pc EXCEPT ![c] = p]
                                        /\ UNCHANGED <<nonce, fee, err>>
        \/ Again(c, nonce[c], BumpFee(fee[c])) /\ pc[c] \in {"sent", "wait", "error", "refetch"}
        \/ /\ pc' = [pc EXCEPT ![c] = "refetch"] /\ err' = [err EXCEPT ![c] = "none"]
           /\ pc[c] = "error" /\ err[c] = "nonce" /\ UNCHANGED <<nonce, fee>>
    <2>0. CASE CheckBreaker(c)
      BY <2>0 DEF CheckBreaker
    <2>1. CASE FetchFails(c) \/ Interrupted(c) \/ Receipt(c)
      BY <2>1 DEF FetchFails, Interrupted, Receipt, Result
    <2>2. ASSUME NEW e, Failed(c, e) PROVE \/ \E res \in Result : End(c, res)
                                           \/ Again(c, nonce[c], BumpFee(fee[c]))
      BY <2>2 DEF Failed, Result
    <2>3. CASE TimesOut(c) \/ OnError(c) \/ (Refetch(c) /\ ~(attempt[c] < MaxAttempts))
      BY <2>2, <2>3 DEF TimesOut, OnError, Refetch
    <2> QED
      BY <2>0, <2>1, <2>3
  <1> DEFINE Keeps(d) ==
        pc'[d] \in Pinning =>
           /\ pc[d] \in Pinning /\ nonce'[d] = nonce[d]
           /\ \/ fee'[d] = fee[d] /\ (pc'[d] = "send" <=> pc[d] = "send")
              \/ fee'[d] = BumpFee(fee[d]) /\ pc[d] # "send"
  <1>3. FeeTypes' /\ TooLowIsTrue' /\ \A d \in Clients : Keeps(d)
    <2>0. /\ \A n : Taken(n)' = Taken(n)
          /\ pc \in [Clients -> PC] /\ err \in [Clients -> Err]
          /\ nonce \in [Clients -> Nat] /\ fee \in [Clients -> Fee]
      BY <1>1, SameTaken DEF SendInv, ClientTypes, FeeTypes
    <2>1. CASE \E res \in Result : End(c, res)
      <3>1. /\ pc' = [pc EXCEPT ![c] = "ended"] /\ nonce' = [nonce EXCEPT ![c] = 0]
            /\ fee' = [fee EXCEPT ![c] = NoFee] /\ err' = [err EXCEPT ![c] = "none"]
        BY <2>1 DEF End
      <3>2. FeeTypes'
        BY <1>1, <2>0, <3>1, GivenFees DEF FeeTypes
      <3>3. TooLowIsTrue' /\ \A d \in Clients : Keeps(d)
        BY <2>0, <3>1 DEF TooLowIsTrue, Pinning
      <3> QED
        BY <3>2, <3>3
    <2>2. CASE Again(c, nonce[c], BumpFee(fee[c])) /\ pc[c] \in {"sent", "wait", "error", "refetch"}
      <3>1. /\ pc' = [pc EXCEPT ![c] = "send"] /\ nonce' = [nonce EXCEPT ![c] = nonce[c]]
            /\ fee' = [fee EXCEPT ![c] = BumpFee(fee[c])] /\ err' = [err EXCEPT ![c] = "none"]
        BY <2>2 DEF Again
      <3>2. FeeTypes'
        BY <1>1, <2>0, <3>1, BumpOutbids DEF FeeTypes
      <3>3. TooLowIsTrue' /\ \A d \in Clients : Keeps(d)
        BY <2>0, <2>2, <3>1 DEF TooLowIsTrue, Pinning
      <3> QED
        BY <3>2, <3>3
    <2>3. CASE /\ pc' = [pc EXCEPT ![c] = "refetch"] /\ err' = [err EXCEPT ![c] = "none"]
               /\ pc[c] = "error" /\ err[c] = "nonce" /\ UNCHANGED <<nonce, fee>>
      <3>1. FeeTypes'
        BY <1>1, <2>3 DEF FeeTypes
      <3>2. TooLowIsTrue' /\ \A d \in Clients : Keeps(d)
        BY <2>0, <2>3 DEF TooLowIsTrue, Pinning
      <3> QED
        BY <3>1, <3>2
    <2>4. CASE \E p \in {"fetch", "ended"} : /\ pc' = [pc EXCEPT ![c] = p]
                                             /\ UNCHANGED <<nonce, fee, err>>
      <3>1. FeeTypes'
        BY <1>1, <2>4 DEF FeeTypes
      <3>2. TooLowIsTrue' /\ \A d \in Clients : Keeps(d)
        BY <2>0, <2>4 DEF TooLowIsTrue, Pinning
      <3> QED
        BY <3>1, <3>2
    <2> QED
      BY <1>2, <2>1, <2>2, <2>3, <2>4
  <1>4. \A n \in Nat : Taken(n) => Taken(n)'
    BY <1>1, SameTaken
  <1> QED
    BY <1>1, <1>3, <1>4, QuietFees

\* Whatever the node takes is in the pool from then on, and it says nonce-too-low
\* of a nonce that is taken.
LEMMA NodeFees ==
  ASSUME FeeInv, SendInv, NEW t,
         \/ t \in inflight /\ (NodeAccepts(t) \/ NodeRefuses(t))
         \/ t \in marking /\ Mark(t)
  PROVE  FeeInv'
  <1> USE DEF FeeInv
  <1>1. /\ UNCHANGED <<refreshes, mined, nonce, fee, attempt>>
        /\ inflight' \subseteq inflight
        /\ pool' = pool \/ (pool' = (pool \ Rivals(t)) \cup {t} /\ t \in inflight)
    BY DEF NodeAccepts, NodeRefuses, Mark, clientVars, chainVars
  <1>2. \A n : Taken(n) => Taken(n)'
    BY <1>1 DEF Taken, Latest, Rivals
  <1>3. FeeTypes'
    <2>1. IsFiniteSet(pool \cup {t}) /\ pool' \subseteq pool \cup {t}
      BY <1>1, OneMore DEF FeeTypes
    <2>2. IsFiniteSet(pool')
      BY <2>1, Fewer
    <2> QED
      BY <1>1, <2>1, <2>2 DEF FeeTypes
  <1>4. \/ UNCHANGED <<pc, err>>
        \/ /\ pc[t.by] = "sent" /\ t = Current(t.by)
           /\ \/ pc' = [pc EXCEPT ![t.by] = "wait"] /\ UNCHANGED err
              \/ \E e \in {"retryable", "fatal", "nonce"} :
                   /\ pc' = [pc EXCEPT ![t.by] = "error"]
                   /\ err' = [err EXCEPT ![t.by] = e]
                   /\ e = "nonce" => t.nonce < Latest \/ \E u \in Rivals(t) : SameHash(t, u)
    BY DEF NodeAccepts, NodeRefuses, Raise, Mark, clientVars
  <1>5. TooLowIsTrue'
    <2> SUFFICES ASSUME NEW c \in Clients,
                        pc'[c] = "refetch" \/ (pc'[c] = "error" /\ err'[c] = "nonce")
                 PROVE  Taken(nonce[c])'
      BY <1>1 DEF TooLowIsTrue
    <2>1. CASE pc'[c] = pc[c] /\ err'[c] = err[c]
      BY <1>1, <1>2, <2>1 DEF TooLowIsTrue, Taken, Latest
    <2>2. CASE ~(pc'[c] = pc[c] /\ err'[c] = err[c])
      <3>1. c = t.by /\ t = Current(t.by)
        BY <1>4, <2>2 DEF SendInv, ClientTypes
      <3>2. t.nonce < Latest \/ \E u \in Rivals(t) : SameHash(t, u)
        BY <1>4, <2>2, <3>1 DEF SendInv, ClientTypes
      <3>3. t.nonce = nonce[c]
        BY <3>1 DEF Current
      <3>4. Taken(nonce[c])
        BY <3>2, <3>3 DEF Taken, Rivals
      <3> QED
        BY <1>1, <1>2, <3>4 DEF Taken, Latest
    <2> QED
      BY <2>1, <2>2
  <1>6. (inflight \cup pool)' \subseteq inflight \cup pool
    BY <1>1
  <1>7. \A c \in Clients : pc'[c] \in Pinning =>
           /\ pc[c] \in Pinning /\ nonce'[c] = nonce[c]
           /\ fee'[c] = fee[c] /\ (pc'[c] = "send" <=> pc[c] = "send")
    BY <1>1, <1>4 DEF Pinning, SendInv, ClientTypes
  <1> QED
    BY <1>1, <1>2, <1>3, <1>5, <1>6, <1>7, QuietFees

\* What is mined stays taken.
LEMMA MineFees ==
  ASSUME FeeInv, SendInv, NEW t \in pool, Mine(t)
  PROVE  FeeInv'
  <1> USE DEF FeeInv
  <1>1. PICK ok \in BOOLEAN : mined' = mined \cup {[tx |-> t, ok |-> ok]}
    BY DEF Mine
  <1>2. /\ UNCHANGED <<pc, refreshes, nonce, fee, err, inflight>>
        /\ pool' = pool \ {t} /\ t.nonce = Latest
    BY DEF Mine, clientVars
  <1>3. Latest \in Nat /\ Latest' = Latest + 1
    <2>1. IsFiniteSet(mined) /\ Cardinality(mined) \in Nat
      BY FS_CardinalityType DEF SendInv, MinedNonces
    <2>2. [tx |-> t, ok |-> ok] \notin mined
      BY <1>2, <2>1 DEF SendInv, MinedNonces, Latest
    <2> QED
      BY <1>1, <2>1, <2>2, OneMore DEF Latest
  <1>4. \A n \in Nat : Taken(n) => Taken(n)'
    BY <1>2, <1>3 DEF Taken
  <1>5. FeeTypes'
    <2>1. IsFiniteSet(pool')
      BY <1>2, Fewer DEF FeeTypes
    <2> QED
      BY <1>2, <2>1 DEF FeeTypes
  <1>6. TooLowIsTrue'
    BY <1>2, <1>4 DEF TooLowIsTrue, FeeTypes
  <1>7. (inflight \cup pool)' \subseteq inflight \cup pool
    BY <1>2
  <1> QED
    BY <1>2, <1>4, <1>5, <1>6, <1>7, QuietFees

\* A crash ends every run under way; the rest is the breaker's.
LEMMA OthersFees ==
  ASSUME FeeInv, SendInv, Crash \/ Tick \/ UNCHANGED vars
  PROVE  FeeInv'
  <1> USE DEF FeeInv
  <1>1. /\ UNCHANGED <<refreshes, inflight, pool, mined>>
        /\ \/ UNCHANGED <<pc, nonce, fee, err>>
           \/ /\ \A c \in Clients : pc'[c] \notin UnderWay
              /\ nonce' = [c \in Clients |-> 0] /\ fee' = [c \in Clients |-> NoFee]
    BY DEF Crash, UnderWay, Tick, vars, clientVars, chainVars
  <1>2. \A n : Taken(n)' = Taken(n)
    BY <1>1, SameTaken
  <1>3. FeeTypes'
    BY <1>1, GivenFees DEF FeeTypes
  <1>4. TooLowIsTrue'
    BY <1>1, <1>2 DEF TooLowIsTrue, UnderWay
  <1>5. \A c \in Clients : pc'[c] \in Pinning =>
           /\ pc[c] \in Pinning /\ nonce'[c] = nonce[c]
           /\ fee'[c] = fee[c] /\ (pc'[c] = "send" <=> pc[c] = "send")
    BY <1>1 DEF Pinning, UnderWay
  <1> QED
    BY <1>1, <1>2, <1>3, <1>4, <1>5, QuietFees

\* A run that starts holds no nonce.
LEMMA StartFees ==
  ASSUME FeeInv, SendInv, NEW c \in Clients, Start(c)
  PROVE  FeeInv'
  <1> USE DEF FeeInv
  <1>1. /\ UNCHANGED <<inflight, pool, mined, nonce, fee, err, refreshes>>
        /\ \E p \in {"ended", "breaker"} : pc' = [pc EXCEPT ![c] = p]
    BY DEF Start, chainVars
  <1>2. \A n : Taken(n)' = Taken(n)
    BY <1>1, SameTaken
  <1>3. FeeTypes'
    BY <1>1 DEF FeeTypes
  <1>4. \A d \in Clients : pc'[d] = pc[d] \/ pc'[d] \in {"ended", "breaker"}
    BY <1>1 DEF SendInv, ClientTypes
  <1>5. TooLowIsTrue'
    BY <1>1, <1>2, <1>4 DEF TooLowIsTrue
  <1>6. \A d \in Clients : pc'[d] \in Pinning => pc'[d] = pc[d] /\ pc[d] \in Pinning
    BY <1>4 DEF Pinning
  <1> QED
    BY <1>1, <1>2, <1>3, <1>5, <1>6, QuietFees

\* The first nonce of a run has nothing of its own at it, and neither has a
\* fresh one if fetch_state counts pending transactions.
LEMMA FetchFees ==
  ASSUME FeeInv, SendInv, NEW c \in Clients,
         Fetch(c) \/ (Refetch(c) /\ attempt[c] < MaxAttempts)
  PROVE  FeeInv'
  <1> USE DEF FeeInv
  <1>1. /\ UNCHANGED <<inflight, pool, mined>>
        /\ pc' = [pc EXCEPT ![c] = "send"]
        /\ nonce' = [nonce EXCEPT ![c] = FetchedNonce]
        /\ fee' = [fee EXCEPT ![c] = InitialFee]
        /\ \/ pc[c] = "fetch" /\ UNCHANGED <<err, refreshes>>
           \/ /\ pc[c] = "refetch" /\ err' = [err EXCEPT ![c] = "none"]
              /\ refreshes' = [refreshes EXCEPT ![c] = @ + 1]
    BY DEF Fetch, Refetch, Again, breakerVars, chainVars
  <1>2. FetchedNonce \in Nat /\ (FetchPending => ~Taken(FetchedNonce))
    <2>1. IsFiniteSet(pool) /\ Latest \in Nat
      BY FS_CardinalityType DEF FeeTypes, SendInv, MinedNonces, Latest
    <2> QED
      BY <2>1, FetchedIsFree
  <1>3. \A n : Taken(n)' = Taken(n)
    BY <1>1, SameTaken
  <1>4. FeeTypes'
    BY <1>1, <1>2, GivenFees DEF FeeTypes
  <1>5. /\ pc'[c] = "send" /\ nonce'[c] = FetchedNonce
        /\ \A d \in Clients : Own(d)' = Own(d)
        /\ \A d \in Clients \ {c} : /\ pc'[d] = pc[d] /\ nonce'[d] = nonce[d]
                                    /\ fee'[d] = fee[d] /\ err'[d] = err[d]
                                    /\ refreshes'[d] = refreshes[d]
    BY <1>1 DEF Own, SendInv, ClientTypes, FeeTypes
  <1>6. TooLowIsTrue'
    BY <1>3, <1>5 DEF TooLowIsTrue
  <1>7. CASE pc[c] = "fetch"
    <2>1. Own(c) = {}
      BY <1>7 DEF Own, SendInv, Senders, Silent, Everywhere
    <2> QED
      BY <1>3, <1>4, <1>5, <1>6, <2>1 DEF OthersTaken, FeeCovers
  <1>8. CASE /\ pc[c] = "refetch"
             /\ refreshes' = [refreshes EXCEPT ![c] = @ + 1]
    <2>1. \A t \in Own(c) : Taken(t.nonce)
      BY <1>8 DEF TooLowIsTrue, OthersTaken, Pinning
    <2>2. OthersTaken'
      BY <1>3, <1>5, <2>1 DEF OthersTaken
    <2>3. refreshes'[c] # 0
      BY <1>8 DEF SendInv, ClientTypes
    <2>4. FeeCovers'
      BY <1>2, <1>5, <2>1, <2>3 DEF FeeCovers
    <2> QED
      BY <1>4, <1>6, <2>2, <2>4
  <1> QED
    BY <1>1, <1>7, <1>8

\* A broadcast bears the fee and the nonce of its run.
LEMMA BroadcastFees ==
  ASSUME FeeInv, SendInv, NEW c \in Clients, Send(c)
  PROVE  FeeInv'
  <1> USE DEF FeeInv
  <1>1. /\ UNCHANGED <<refreshes, pool, mined, nonce, fee, err>>
        /\ pc' = [pc EXCEPT ![c] = "sent"] /\ pc[c] = "send"
        /\ inflight' = inflight \cup {Current(c)}
    BY DEF Send, breakerVars
  <1>2. /\ Current(c).by = c /\ Current(c).nonce = nonce[c] /\ Current(c).fee = fee[c]
        /\ nonce[c] \in Nat /\ fee[c] \in Fee
    BY DEF Current, FeeTypes
  <1>3. FeeTypes'
    BY <1>1, <1>2 DEF FeeTypes
  <1>4. \A n : Taken(n)' = Taken(n)
    BY <1>1, SameTaken
  <1>5. pc'[c] = "sent" /\ \A d \in Clients \ {c} : pc'[d] = pc[d]
    BY <1>1 DEF SendInv, ClientTypes
  <1>6. TooLowIsTrue'
    BY <1>1, <1>4, <1>5 DEF TooLowIsTrue
  <1>7. /\ \A d \in Clients \ {c} : Own(d)' = Own(d)
        /\ \A t \in Own(c)' : t \in Own(c) \/ t = Current(c)
    BY <1>1, <1>2 DEF Own
  <1>8. OthersTaken'
    BY <1>1, <1>2, <1>4, <1>5, <1>7 DEF OthersTaken, Pinning
  <1>9. FeeCovers'
    <2> SUFFICES ASSUME NEW d \in Clients, pc'[d] \in Pinning,
                        refreshes[d] = 0 \/ FetchPending,
                        NEW t \in Own(d)', t.nonce = nonce[d]
                 PROVE  IF pc'[d] = "send" THEN Outbids(fee[d], t.fee)
                                           ELSE Covers(fee[d], t.fee)
      BY <1>1 DEF FeeCovers
    <2>1. CASE d # c
      BY <1>5, <1>7, <2>1 DEF FeeCovers
    <2>2. CASE d = c /\ t \in Own(c)
      <3>1. Outbids(fee[c], t.fee) /\ t.fee \in Fee
        BY <1>1, <2>2 DEF FeeCovers, Pinning, Own, FeeTypes
      <3>2. Covers(fee[c], t.fee)
        BY <1>2, <3>1 DEF Covers, Outbids, Fee
      <3> QED
        BY <1>5, <2>2, <3>2
    <2>3. CASE d = c /\ t = Current(c)
      BY <1>2, <1>5, <2>3 DEF Covers, Fee
    <2> QED
      BY <1>7, <2>1, <2>2, <2>3
  <1> QED
    BY <1>3, <1>6, <1>8, <1>9

\* Every step keeps the invariant.
LEMMA FeeInvStep == FeeInv /\ SendInv /\ [Next]_vars => FeeInv'
  <1> SUFFICES ASSUME FeeInv, SendInv, [Next]_vars PROVE FeeInv'
    OBVIOUS
  <1>1. ASSUME NEW c \in Clients, Start(c) \/ Advance(c) \/ Interrupted(c)
        PROVE  FeeInv'
    <2>1. CASE Refetch(c)
      BY <2>1, FetchFees, LocalFees
    <2>2. CASE \/ CheckBreaker(c) \/ FetchFails(c) \/ Receipt(c) \/ TimesOut(c)
               \/ OnError(c) \/ Interrupted(c)
      BY <2>2, LocalFees
    <2>3. CASE Start(c) \/ Fetch(c) \/ Send(c)
      BY <2>3, StartFees, FetchFees, BroadcastFees
    <2> QED
      BY <1>1, <2>1, <2>2, <2>3 DEF Advance
  <1>2. ASSUME NEW t, \/ t \in inflight /\ (NodeAccepts(t) \/ NodeRefuses(t))
                      \/ t \in marking /\ Mark(t)
        PROVE  FeeInv'
    BY <1>2, NodeFees
  <1>3. ASSUME NEW t \in pool, Mine(t) PROVE FeeInv'
    BY <1>3, MineFees
  <1>4. CASE Crash \/ Tick \/ UNCHANGED vars
    BY <1>4, OthersFees
  <1> QED
    BY <1>1, <1>2, <1>3, <1>4 DEF Next

\* The invariant holds in every behaviour of the sender.
LEMMA FeeInvariant == Spec => []FeeInv
  BY FeeInit, FeeInvStep, SendInvariant, PTL DEF Spec

\* A resend outbids every earlier transaction of its run at the same nonce, so
\* that the node replaces it rather than refuse the resend.
THEOREM ResendsOutbid == Spec => []ResendOutbids
  <1>1. FeeInv => ResendOutbids
    BY DEF FeeInv, FeeCovers, ResendOutbids, Own, Pinning
  <1> QED
    BY <1>1, FeeInvariant, PTL

-----------------------------------------------------------------------------
(* Hashes: the invariant, relative to SendInv and FeeInv. *)

\* Transactions of which the client knows that the node took them.
Answered == marking \cup {Current(c) : c \in {d \in Clients : pc[d] = "wait"}}

Held == pool \cup {m.tx : m \in mined}

\* The nonce of t is taken, by t or by what outbids it.
IsHeld(t) ==
  /\ Taken(t.nonce)
  /\ \A v \in Held : v.nonce = t.nonce => v = t \/ Outbids(v.fee, t.fee)

HashInv ==
  /\ \A t \in signing \cup marking : t.nonce \in Nat /\ t.fee \in Fee
  /\ \A t \in Answered : IsHeld(t)
  /\ SuccessLanded

\* Nothing was sent.
LEMMA HashInit == Init => HashInv
  BY DEF Init, HashInv, Answered, SuccessLanded

\* Steps after which no other transaction is answered, and none is held that was
\* not.
LEMMA QuietHash ==
  ASSUME HashInv, FeeInv,
         (signing \cup marking)' \subseteq signing \cup marking,
         \A c \in Clients : pc'[c] = "wait" =>
           \/ pc[c] = "wait" /\ Current(c)' = Current(c)
           \/ Current(c)' \in marking,
         marking' \subseteq marking,
         Held' \subseteq Held, \A n \in Nat : Taken(n) => Taken(n)', SuccessLanded'
  PROVE  HashInv'
  <1>1. Answered' \subseteq Answered
    BY DEF Answered
  <1>2. \A t \in Answered : t.nonce \in Nat
    <2>1. \A c \in Clients : Current(c).nonce \in Nat
      BY DEF Current, FeeInv, FeeTypes
    <2> QED
      BY <2>1 DEF Answered, HashInv
  <1>3. \A t \in Answered : IsHeld(t)'
    BY <1>2 DEF HashInv, IsHeld
  <1> QED
    BY <1>1, <1>3 DEF HashInv

\* Reports of success stay true, if there is no new one.
LEMMA SameSuccess ==
  ASSUME SuccessLanded, mined \subseteq mined',
         \A c \in Clients : result'[c] = "success" => result[c] = "success"
  PROVE  SuccessLanded'
  BY DEF SuccessLanded, Landed

\* The steps of a run.  A receipt is that of the run's own transaction, since
\* nothing else with its nonce has its fee.
LEMMA RunHash ==
  ASSUME HashInv, SendInv, FeeInv, NEW c \in Clients,
         \/ Start(c) \/ CheckBreaker(c) \/ Fetch(c) \/ FetchFails(c) \/ Interrupted(c)
         \/ Receipt(c) \/ TimesOut(c) \/ OnError(c) \/ Refetch(c)
  PROVE  HashInv'
  <1>0. /\ pc \in [Clients -> PC] /\ DOMAIN nonce = Clients /\ DOMAIN fee = Clients
        /\ DOMAIN attempt = Clients /\ DOMAIN result = Clients
    BY DEF SendInv, ClientTypes, FeeInv, FeeTypes
  <1>1. /\ UNCHANGED <<pool, mined>>
        /\ (signing \cup marking)' \subseteq signing \cup marking /\ marking' \subseteq marking
    BY DEF Start, CheckBreaker, Fetch, FetchFails, Interrupted, Receipt, TimesOut, OnError,
           Refetch, Failed, End, Again, appVars, chainVars
  <1>2. \A d \in Clients : pc'[d] = "wait" => pc[d] = "wait" /\ Current(d)' = Current(d)
    <2>1. pc'[c] # "wait"
      BY <1>0 DEF Start, CheckBreaker, Fetch, FetchFails, Interrupted, Receipt, TimesOut, OnError,
                  Refetch, Failed, End, Again
    <2>2. ASSUME NEW d \in Clients, d # c PROVE pc'[d] = pc[d] /\ Current(d)' = Current(d)
      BY <1>0, <2>2 DEF Start, CheckBreaker, Fetch, FetchFails, Interrupted, Receipt, TimesOut,
                        OnError, Refetch, Failed, End, Again, Current
    <2> QED
      BY <2>1, <2>2
  <1>3. SuccessLanded'
    <2>1. CASE Receipt(c)
      <3>1. PICK m \in mined : /\ SameHash(m.tx, Current(c))
                               /\ IF m.ok THEN End(c, "success") ELSE End(c, "TX_FAILED")
        BY <2>1 DEF Receipt
      <3>2. m.tx = Current(c)
        <4>1. Current(c) \in Answered /\ m.tx \in Held
          BY <2>1 DEF Receipt, Answered, Held
        <4>2. m.tx.nonce = Current(c).nonce /\ m.tx.fee = fee[c] /\ Current(c).fee = fee[c]
          BY <3>1 DEF SameHash, Current
        <4>3. ~Outbids(fee[c], fee[c])
          <5>1. \E x \in FeeField : TRUE
            BY DEF FeeField
          <5>2. \A x \in FeeField : fee[c][x] \in Nat
            BY DEF FeeInv, FeeTypes, Fee
          <5> QED
            BY <5>1, <5>2 DEF Outbids
        <4> QED
          BY <4>1, <4>2, <4>3 DEF HashInv, IsHeld
      <3>3. m.tx.by = c
        BY <3>2 DEF Current
      <3>4. /\ \A d \in Clients \ {c} : result'[d] = result[d]
            /\ result'[c] = "success" => m.ok
        BY <1>0, <3>1 DEF End
      <3> QED
        BY <1>1, <3>3, <3>4 DEF HashInv, SuccessLanded, Landed
    <2>2. CASE ~Receipt(c)
      <3>1. \A d \in Clients : result'[d] = "success" => result[d] = "success"
        BY <1>0, <2>2 DEF Start, CheckBreaker, Fetch, FetchFails, Interrupted, TimesOut, OnError,
                          Refetch, Failed, End, Again
      <3> QED
        BY <1>1, <3>1, SameSuccess DEF HashInv
    <2> QED
      BY <2>1, <2>2
  <1>4. Held' = Held /\ \A n : Taken(n)' = Taken(n)
    BY <1>1, SameTaken DEF Held
  <1> QED
    BY <1>1, <1>2, <1>3, <1>4, QuietHash

\* A broadcast is not answered yet.
LEMMA BroadcastHash ==
  ASSUME HashInv, SendInv, FeeInv, NEW c \in Clients, Send(c)
  PROVE  HashInv'
  <1>1. /\ UNCHANGED <<pool, mined, nonce, fee, attempt, result, marking>>
        /\ pc' = [pc EXCEPT ![c] = "sent"] /\ signing' = signing \cup {Current(c)}
    BY DEF Send
  <1>2. Current(c).nonce \in Nat /\ Current(c).fee \in Fee
    BY DEF Current, FeeInv, FeeTypes
  <1>3. Answered' \subseteq Answered
    BY <1>1 DEF Answered, Current, SendInv, ClientTypes
  <1>4. Held' = Held /\ \A n : Taken(n)' = Taken(n)
    BY <1>1, SameTaken DEF Held
  <1>5. \A t : IsHeld(t) => IsHeld(t)'
    BY <1>4 DEF IsHeld
  <1>6. SuccessLanded'
    BY <1>1, SameSuccess DEF HashInv
  <1> QED
    BY <1>1, <1>2, <1>3, <1>5, <1>6 DEF HashInv

\* The node takes a transaction of a taken nonce only for more than it holds,
\* which is what was answered or outbids that.
LEMMA AcceptHash ==
  ASSUME HashInv, SendInv, FeeInv, NEW t \in inflight, NodeAccepts(t)
  PROVE  HashInv'
  <1>1. /\ UNCHANGED <<mined, pc, nonce, fee, attempt, result>>
        /\ pool' = (pool \ Rivals(t)) \cup {t} /\ t.nonce >= Latest
        /\ \A u \in Rivals(t) : Outbids(t.fee, u.fee)
        /\ (signing \cup marking)' \subseteq signing \cup marking
        /\ marking' \subseteq marking \cup {t}
    BY DEF NodeAccepts, clientVars
  <1>2. /\ t.nonce \in Nat /\ t.fee \in Fee /\ Latest \in Nat
        /\ \A u \in pool : u.nonce \in Nat /\ u.fee \in Fee
        /\ \A m \in mined : m.tx.nonce \in Nat /\ m.tx.nonce < Latest
    BY FS_CardinalityType DEF FeeInv, FeeTypes, SendInv, MinedNonces, Latest
  <1>3. Answered' \subseteq Answered \cup {t}
    BY <1>1 DEF Answered, Current
  <1>4. \A n : Taken(n) => Taken(n)'
    BY <1>1 DEF Taken, Latest, Rivals
  <1>5. IsHeld(t)'
    <2>1. Taken(t.nonce)'
      BY <1>1 DEF Taken
    <2>2. ASSUME NEW v \in Held', v.nonce = t.nonce PROVE v = t
      BY <1>1, <1>2, <2>2 DEF Held, Rivals
    <2> QED
      BY <2>1, <2>2 DEF IsHeld
  <1>6. ASSUME NEW a \in Answered PROVE IsHeld(a)'
    <2>1. IsHeld(a) /\ a.fee \in Fee
      BY DEF HashInv, Answered, FeeInv, FeeTypes, Current
    <2>2. ASSUME NEW v \in Held', v.nonce = a.nonce, v # a PROVE Outbids(v.fee, a.fee)
      <3>1. CASE v \in Held
        BY <2>1, <2>2, <3>1 DEF IsHeld
      <3>2. CASE v \notin Held
        <4>1. v = t
          BY <1>1, <3>2 DEF Held
        <4>2. PICK u \in pool : u.nonce = t.nonce
          BY <1>1, <1>2, <2>1, <2>2, <4>1 DEF IsHeld, Taken
        <4>3. Outbids(t.fee, u.fee) /\ u.fee \in Fee
          BY <1>1, <1>2, <4>2 DEF Rivals
        <4>4. u = a \/ Outbids(u.fee, a.fee)
          BY <2>1, <2>2, <4>1, <4>2 DEF IsHeld, Held
        <4>5. Outbids(u.fee, a.fee) => Outbids(t.fee, a.fee)
          BY <1>2, <2>1, <4>3 DEF Outbids, Fee
        <4> QED
          BY <4>1, <4>3, <4>4, <4>5
      <3> QED
        BY <3>1, <3>2
    <2> QED
      BY <1>4, <2>1, <2>2 DEF IsHeld
  <1>7. SuccessLanded'
    BY <1>1, SameSuccess DEF HashInv
  <1> QED
    BY <1>1, <1>3, <1>5, <1>6, <1>7 DEF HashInv

\* The other steps of the node and of sign_send, and the crash.
LEMMA OthersHash ==
  ASSUME HashInv, SendInv, FeeInv,
         \/ \E t \in inflight : NodeRefuses(t)
         \/ \E t \in marking : Mark(t)
         \/ \E t \in pool : Mine(t)
         \/ Crash \/ Tick \/ UNCHANGED vars
  PROVE  HashInv'
  <1>1. CASE \E t \in pool : Mine(t)
    <2>1. PICK t \in pool : Mine(t)
      BY <1>1
    <2>2. PICK ok \in BOOLEAN : mined' = mined \cup {[tx |-> t, ok |-> ok]}
      BY <2>1 DEF Mine
    <2>3. /\ UNCHANGED <<pc, nonce, fee, attempt, result, signing, marking>>
          /\ pool' = pool \ {t} /\ t.nonce = Latest
      BY <2>1 DEF Mine, clientVars, appVars
    <2>4. Latest \in Nat /\ Latest' = Latest + 1
      <3>1. IsFiniteSet(mined) /\ Cardinality(mined) \in Nat
        BY FS_CardinalityType DEF SendInv, MinedNonces
      <3>2. [tx |-> t, ok |-> ok] \notin mined
        BY <2>3, <3>1 DEF SendInv, MinedNonces, Latest
      <3> QED
        BY <2>2, <3>1, <3>2, OneMore DEF Latest
    <2>5. \A n \in Nat : Taken(n) => Taken(n)'
      BY <2>3, <2>4 DEF Taken
    <2>6. Held' \subseteq Held
      BY <2>2, <2>3 DEF Held
    <2>7. SuccessLanded'
      BY <2>2, <2>3, SameSuccess DEF HashInv
    <2>8. \A c : Current(c)' = Current(c)
      BY <2>3 DEF Current
    <2> QED
      BY <2>3, <2>5, <2>6, <2>7, <2>8, QuietHash
  <1>2. CASE ~\E t \in pool : Mine(t)
    <2>1. /\ UNCHANGED <<pool, mined>>
          /\ (signing \cup marking)' \subseteq signing \cup marking /\ marking' \subseteq marking
      BY <1>2 DEF NodeRefuses, Raise, Mark, Crash, Tick, vars, appVars, chainVars
    <2>2. \A c \in Clients : pc'[c] = "wait" =>
            \/ pc[c] = "wait" /\ Current(c)' = Current(c)
            \/ Current(c)' \in marking
      <3>0. pc \in [Clients -> PC]
        BY DEF SendInv, ClientTypes
      <3>1. CASE \E t \in inflight : NodeRefuses(t)
        BY <3>0, <3>1 DEF NodeRefuses, Raise, Current
      <3>2. CASE \E t \in marking : Mark(t)
        BY <3>0, <3>2 DEF Mark, Current
      <3>3. CASE Crash
        BY <3>0, <3>3 DEF Crash, UnderWay
      <3>4. CASE Tick \/ UNCHANGED vars
        BY <3>4 DEF Tick, clientVars, vars, Current
      <3> QED
        BY <1>2, <3>1, <3>2, <3>3, <3>4
    <2>3. \A c \in Clients : result'[c] = "success" => result[c] = "success"
      BY <1>2 DEF NodeRefuses, Mark, Crash, Tick, vars, clientVars
    <2>4. SuccessLanded'
      BY <2>1, <2>3, SameSuccess DEF HashInv
    <2>5. Held' = Held /\ \A n : Taken(n)' = Taken(n)
      BY <2>1, SameTaken DEF Held
    <2> QED
      BY <2>1, <2>2, <2>4, <2>5, QuietHash
  <1> QED
    BY <1>1, <1>2

\* Every step keeps the invariant.
LEMMA HashInvStep == HashInv /\ SendInv /\ FeeInv /\ [Next]_vars => HashInv'
  <1> SUFFICES ASSUME HashInv, SendInv, FeeInv, [Next]_vars PROVE HashInv'
    OBVIOUS
  <1>1. ASSUME NEW c \in Clients, Start(c) \/ Advance(c) \/ Interrupted(c)
        PROVE  HashInv'
    BY <1>1, RunHash, BroadcastHash DEF Advance
  <1>2. ASSUME NEW t \in inflight, NodeAccepts(t) PROVE HashInv'
    BY <1>2, AcceptHash
  <1>3. CASE \/ \E t \in inflight : NodeRefuses(t)
             \/ \E t \in marking : Mark(t)
             \/ \E t \in pool : Mine(t)
             \/ Crash \/ Tick \/ UNCHANGED vars
    BY <1>3, OthersHash
  <1> QED
    BY <1>1, <1>2, <1>3 DEF Next

\* A run that reports success has a transaction of its own on chain that did not
\* revert, whatever was replaced and whatever other runs of its job sent.
THEOREM SuccessMeansLanded == Spec => []SuccessLanded
  <1>1. Spec => []HashInv
    BY HashInit, HashInvStep, SendInvariant, FeeInvariant, PTL DEF Spec
  <1>2. HashInv => SuccessLanded
    BY DEF HashInv
  <1> QED
    BY <1>1, <1>2, PTL
=============================================================================
