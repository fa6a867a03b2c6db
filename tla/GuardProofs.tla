---------------------------- MODULE GuardProofs ----------------------------
(***************************************************************************)
(* Proofs about what stands between a program and those who call it: the   *)
(* rate limiter behind the route guards, for any clients, limit, window    *)
(* and order of requests, the verification gate, for any violations, and   *)
(* the Forge webhook, for any deliveries, secrets and changes of           *)
(* configuration.                                                          *)
(*                                                                         *)
(* The limiter.  Its list of timestamps and the requests that were really  *)
(* admitted are cleaned up at different moments; what agrees is their      *)
(* recent part.  It is in order of age, so that the first is the next to   *)
(* expire, and what a refused client is told of is the time this takes.    *)
(*                                                                         *)
(* The webhook.  The secret is read once: a delivery that is being handled *)
(* has one of the app's secrets, never an unset one, and reaches the       *)
(* storage only after its signature agreed with that.                      *)
(***************************************************************************)
EXTENDS RouteGuard, VerificationGate, ForgeApp,
        SequenceTheorems, WellFoundedInduction, TLAPS

-----------------------------------------------------------------------------
(* Filtering. *)

\* Induction, of a set of numbers.
LEMMA SetInduction ==
  ASSUME NEW S, 0 \in S, \A n \in Nat : n \in S => n + 1 \in S
  PROVE  Nat \subseteq S
  <1> DEFINE less == OpToRel(<, Nat)
             rest == Nat \ S
  <1>1. IsWellFoundedOn(less, Nat)
    BY NatLessThanWellFounded
  <1>2. \A m, n \in Nat : n < m => <<n, m>> \in less
    BY DEF OpToRel
  <1> HIDE DEF less
  <1>3. SUFFICES ASSUME rest # {} PROVE FALSE
    OBVIOUS
  <1>4. PICK m \in rest : \A n \in rest : ~(<<n, m>> \in less)
    BY <1>1, <1>3, WFMin
  <1>5. m \in Nat /\ m # 0 /\ m - 1 \in Nat /\ m - 1 < m
    BY <1>4
  <1>6. m - 1 \notin rest
    BY <1>2, <1>4, <1>5
  <1> QED
    BY <1>4, <1>5, <1>6

\* f[i] is what is kept of the first i elements of s.
KeepsUpTo(f, n, s, S) ==
  f = [i \in 0 .. n |->
         IF i = 0 THEN <<>>
         ELSE IF s[i] \in S THEN Append(f[i - 1], s[i]) ELSE f[i - 1]]

\* Its values.
LEMMA KeepsValue ==
  ASSUME NEW f, NEW n, NEW s, NEW S, KeepsUpTo(f, n, s, S), NEW i \in 0 .. n
  PROVE  f[i] = IF i = 0 THEN <<>>
                ELSE IF s[i] \in S THEN Append(f[i - 1], s[i]) ELSE f[i - 1]
  <1> DEFINE F == [j \in 0 .. n |->
                     IF j = 0 THEN <<>>
                     ELSE IF s[j] \in S THEN Append(f[j - 1], s[j]) ELSE f[j - 1]]
  <1>1. f[i] = F[i]
    BY Zenon DEF KeepsUpTo
  <1> QED
    BY <1>1, Zenon

\* There is such an f.
LEMMA KeepsExists ==
  ASSUME NEW s, NEW S
  PROVE  \A n \in Nat : \E f : KeepsUpTo(f, n, s, S)
  <1> DEFINE N == {n \in Nat : \E f : KeepsUpTo(f, n, s, S)}
  <1>1. 0 \in N
    <2> DEFINE f == [i \in 0 .. 0 |-> <<>>]
    <2>1. KeepsUpTo(f, 0, s, S)
      BY DEF KeepsUpTo
    <2> QED
      BY <2>1
  <1>2. ASSUME NEW n \in Nat, n \in N PROVE n + 1 \in N
    <2>1. PICK g : KeepsUpTo(g, n, s, S)
      BY <1>2
    <2> DEFINE f == [i \in 0 .. n + 1 |->
                       IF i <= n THEN g[i]
                       ELSE IF s[i] \in S THEN Append(g[i - 1], s[i]) ELSE g[i - 1]]
    <2>2. \A i \in 0 .. n + 1 :
            f[i] = IF i = 0 THEN <<>>
                   ELSE IF s[i] \in S THEN Append(f[i - 1], s[i]) ELSE f[i - 1]
      <3> TAKE i \in 0 .. n + 1
      <3>1. CASE i <= n
        <4>1. g[i] = IF i = 0 THEN <<>>
                     ELSE IF s[i] \in S THEN Append(g[i - 1], s[i]) ELSE g[i - 1]
          BY <2>1, <3>1, KeepsValue
        <4>2. f[i] = g[i] /\ (i # 0 => f[i - 1] = g[i - 1])
          BY <3>1
        <4> QED
          BY <4>1, <4>2
      <3>2. CASE i = n + 1
        <4>1. i # 0 /\ ~(i <= n) /\ i - 1 \in 0 .. n + 1 /\ i - 1 <= n
          BY <3>2
        <4>2. f[i - 1] = g[i - 1]
          BY <4>1
        <4> QED
          BY <4>1, <4>2
      <3> QED
        BY <3>1, <3>2
    <2>3. f = [i \in 0 .. n + 1 |-> f[i]]
      OBVIOUS
    <2> HIDE DEF f
    <2>4. KeepsUpTo(f, n + 1, s, S)
      BY <2>2, <2>3, Zenon DEF KeepsUpTo
    <2> QED
      BY <2>4
  <1> HIDE DEF N
  <1>3. Nat \subseteq N
    BY <1>1, <1>2, SetInduction
  <1> QED
    BY <1>3 DEF N

\* What is kept of the first elements depends on these alone.
LEMMA KeepsAgree ==
  ASSUME NEW s, NEW t, NEW S, NEW n \in Nat, \A i \in 1 .. n : s[i] = t[i],
         NEW f, KeepsUpTo(f, n, s, S), NEW g, KeepsUpTo(g, n + 1, t, S)
  PROVE  f[n] = g[n]
  <1> DEFINE N == {i \in Nat : i <= n => f[i] = g[i]}
  <1>1. 0 \in N
    BY DEF KeepsUpTo
  <1>2. ASSUME NEW i \in Nat, i \in N PROVE i + 1 \in N
    <2> SUFFICES ASSUME i + 1 <= n PROVE f[i + 1] = g[i + 1]
      OBVIOUS
    <2>0. i + 1 \in 0 .. n /\ i + 1 \in 0 .. n + 1 /\ i + 1 # 0
      OBVIOUS
    <2>1. f[i] = g[i] /\ s[i + 1] = t[i + 1] /\ (i + 1) - 1 = i
      BY <1>2
    <2>2. /\ f[i + 1] = IF s[i + 1] \in S THEN Append(f[i], s[i + 1]) ELSE f[i]
          /\ g[i + 1] = IF t[i + 1] \in S THEN Append(g[i], t[i + 1]) ELSE g[i]
      BY <2>0, <2>1, KeepsValue
    <2> QED
      BY <2>1, <2>2
  <1> HIDE DEF N
  <1>3. Nat \subseteq N
    BY <1>1, <1>2, SetInduction
  <1> QED
    BY <1>3 DEF N

\* Kept is that f at the end.
LEMMA KeptIs ==
  ASSUME NEW s, NEW S, Len(s) \in Nat
  PROVE  \E f : KeepsUpTo(f, Len(s), s, S) /\ Kept(s, S) = f[Len(s)]
  <1>1. \E f : KeepsUpTo(f, Len(s), s, S)
    BY KeepsExists
  <1> QED
    BY <1>1 DEF Kept, KeepsUpTo

\* What is kept of nothing.
LEMMA KeptNone == ASSUME NEW S PROVE Kept(<<>>, S) = <<>>
  <1>1. Len(<<>>) = 0
    OBVIOUS
  <1>2. PICK f : KeepsUpTo(f, 0, <<>>, S) /\ Kept(<<>>, S) = f[0]
    BY <1>1, KeptIs
  <1> QED
    BY <1>2 DEF KeepsUpTo

\* What is kept of one element more.
LEMMA KeptAppend ==
  ASSUME NEW S, NEW T, NEW s \in Seq(T), NEW x \in T
  PROVE  Kept(Append(s, x), S) = IF x \in S THEN Append(Kept(s, S), x) ELSE Kept(s, S)
  <1> DEFINE t == Append(s, x)
             n == Len(s)
  <1>1. /\ n \in Nat /\ Len(t) = n + 1 /\ t[n + 1] = x
        /\ \A i \in 1 .. n : s[i] = t[i]
    OBVIOUS
  <1>2. PICK f : KeepsUpTo(f, n, s, S) /\ Kept(s, S) = f[n]
    BY <1>1, KeptIs
  <1> HIDE DEF t, n
  <1>3. PICK g : KeepsUpTo(g, n + 1, t, S) /\ Kept(t, S) = g[n + 1]
    BY <1>1, KeptIs
  <1>4. f[n] = g[n]
    BY <1>1, <1>2, <1>3, KeepsAgree
  <1>5. (n + 1) - 1 = n /\ n + 1 # 0 /\ n + 1 \in 0 .. n + 1
    BY <1>1
  <1>6. g[n + 1] = IF t[n + 1] \in S THEN Append(g[n], t[n + 1]) ELSE g[n]
    BY <1>3, <1>5, KeepsValue
  <1> QED
    BY <1>1, <1>2, <1>3, <1>4, <1>6 DEF t

\* Induction, of a set of sequences.
LEMMA SeqSetInduction ==
  ASSUME NEW T, NEW P, <<>> \in P, \A s \in Seq(T) : s \in P => \A x \in T : Append(s, x) \in P
  PROVE  Seq(T) \subseteq P
  <1> DEFINE N == {n \in Nat : \A s \in Seq(T) : Len(s) = n => s \in P}
  <1>1. 0 \in N
    OBVIOUS
  <1>2. ASSUME NEW n \in Nat, n \in N PROVE n + 1 \in N
    <2> SUFFICES ASSUME NEW s \in Seq(T), Len(s) = n + 1 PROVE s \in P
      OBVIOUS
    <2>1. s # <<>>
      BY <1>2
    <2>2. PICK t \in Seq(T), x \in T : s = Append(t, x)
      BY <2>1, SequenceEmptyOrAppend
    <2>3. Len(t) \in Nat /\ Len(s) = Len(t) + 1
      BY <2>2
    <2>4. Len(t) = n
      BY <1>2, <2>3
    <2> QED
      BY <1>2, <2>2, <2>4
  <1> HIDE DEF N
  <1>3. Nat \subseteq N
    BY <1>1, <1>2, SetInduction
  <1> QED
    BY <1>3 DEF N

\* What is kept is part of both, and is all if there is nothing to drop.
LEMMA KeptMembers ==
  ASSUME NEW S, NEW T, NEW s \in Seq(T)
  PROVE  /\ Kept(s, S) \in Seq(S \cap T)
         /\ Len(Kept(s, S)) <= Len(s)
         /\ (\A i \in 1 .. Len(s) : s[i] \in S) => Kept(s, S) = s
  <1> DEFINE Fits(t) == /\ Kept(t, S) \in Seq(S \cap T)
                        /\ Len(Kept(t, S)) <= Len(t)
                        /\ (\A i \in 1 .. Len(t) : t[i] \in S) => Kept(t, S) = t
             P == {t \in Seq(T) : Fits(t)}
  <1>1. <<>> \in P
    <2>1. Kept(<<>>, S) = <<>>
      BY KeptNone
    <2>2. <<>> \in Seq(T) /\ <<>> \in Seq(S \cap T) /\ Len(<<>>) = 0
      OBVIOUS
    <2>3. Len(Kept(<<>>, S)) <= Len(<<>>)
      BY <2>1, <2>2
    <2>4. Fits(<<>>)
      BY <2>1, <2>2, <2>3, Zenon
    <2> QED
      BY <2>2, <2>4, Zenon
  <1>2. ASSUME NEW t \in Seq(T), t \in P, NEW x \in T PROVE Append(t, x) \in P
    <2> DEFINE u == Append(t, x)
    <2>1. /\ u \in Seq(T) /\ Len(u) = Len(t) + 1 /\ u[Len(t) + 1] = x /\ Len(t) \in Nat
          /\ \A i \in 1 .. Len(t) : u[i] = t[i]
      OBVIOUS
    <2>2. Kept(u, S) = IF x \in S THEN Append(Kept(t, S), x) ELSE Kept(t, S)
      BY KeptAppend
    <2>3. Fits(t)
      BY <1>2
    <2>4. (\A i \in 1 .. Len(u) : u[i] \in S) => x \in S /\ \A i \in 1 .. Len(t) : t[i] \in S
      BY <2>1
    <2>5. CASE x \in S
      <3>1. /\ Append(Kept(t, S), x) \in Seq(S \cap T)
            /\ Len(Append(Kept(t, S), x)) = Len(Kept(t, S)) + 1
        BY <2>3, <2>5
      <3>2. Len(Kept(t, S)) \in Nat
        BY <2>3
      <3>3. Len(Kept(u, S)) <= Len(u)
        BY <2>1, <2>2, <2>3, <2>5, <3>1, <3>2
      <3> QED
        BY <2>1, <2>2, <2>3, <2>4, <2>5, <3>1, <3>3
    <2>6. CASE x \notin S
      <3>1. Len(Kept(t, S)) \in Nat
        BY <2>3
      <3>2. Kept(u, S) = Kept(t, S) /\ Len(Kept(u, S)) <= Len(u)
        BY <2>1, <2>2, <2>3, <2>6, <3>1
      <3>3. ~\A i \in 1 .. Len(u) : u[i] \in S
        BY <2>4, <2>6
      <3> HIDE DEF u
      <3>4. Fits(u)
        BY <2>3, <3>2, <3>3, Zenon
      <3> QED
        BY <2>1, <3>4, Zenon DEF u
    <2> QED
      BY <2>5, <2>6
  <1> HIDE DEF P
  <1>3. Seq(T) \subseteq P
    BY <1>1, <1>2, SeqSetInduction
  <1> QED
    BY <1>3 DEF P

-----------------------------------------------------------------------------
(* The recent part of a list of ages, as the clock moves. *)

Ages == 0 .. Window

OldestFirst(s) == \A j \in 1 .. Len(s) : \A i \in 1 .. j : s[j] <= s[i]

\* What the limiter keeps is recent, and once kept stays kept.
LEMMA RecentIs ==
  ASSUME NEW s \in Seq(Ages)
  PROVE  /\ Recent(s) \in Seq(0 .. Window - 1) /\ Recent(s) \in Seq(Ages)
         /\ Len(Recent(s)) \in Nat /\ Len(Recent(s)) <= Len(s)
         /\ Recent(Recent(s)) = Recent(s)
  <1> DEFINE S == 0 .. Window - 1
  <1>0. Window \in Nat
    BY GuardAssumption
  <1>1. Recent(s) \in Seq(S \cap Ages) /\ Len(Recent(s)) <= Len(s)
    BY KeptMembers DEF Recent
  <1>2. S \cap Ages = S
    BY <1>0 DEF Ages
  <1>3. Recent(s) \in Seq(S)
    BY <1>1, <1>2
  <1>4. \A i \in 1 .. Len(Recent(s)) : Recent(s)[i] \in S /\ Recent(s)[i] \in Ages
    BY <1>0, <1>3 DEF Ages
  <1>5. Recent(s) \in Seq(Ages)
    BY <1>3, <1>4
  <1>6. Kept(Recent(s), S) = Recent(s)
    BY <1>3, <1>4, KeptMembers
  <1> QED
    BY <1>1, <1>3, <1>5, <1>6 DEF Recent

\* One more age.
LEMMA RecentAppend ==
  ASSUME NEW s \in Seq(Ages), NEW x \in Ages
  PROVE  Recent(Append(s, x)) = IF x < Window THEN Append(Recent(s), x) ELSE Recent(s)
  <1>1. x \in 0 .. Window - 1 <=> x < Window
    BY GuardAssumption DEF Ages
  <1> QED
    BY <1>1, KeptAppend DEF Recent

\* An age after a tick.
OneOlder(x) == IF x < Window THEN x + 1 ELSE Window

\* A tick keeps the length of a list and makes each of its ages older.
LEMMA OlderIs ==
  ASSUME NEW s \in Seq(Ages)
  PROVE  /\ Older(s) \in Seq(Ages) /\ Len(Older(s)) = Len(s)
         /\ \A i \in 1 .. Len(s) : s[i] \in Ages /\ Older(s)[i] = OneOlder(s[i])
  <1>0. Window \in Nat
    BY GuardAssumption
  <1>1. DOMAIN s = 1 .. Len(s) /\ Len(s) \in Nat /\ \A i \in 1 .. Len(s) : s[i] \in Ages
    OBVIOUS
  <1>2. Older(s) = [i \in 1 .. Len(s) |-> OneOlder(s[i])]
    BY <1>1 DEF Older, OneOlder
  <1>3. \A x \in Ages : OneOlder(x) \in Ages
    BY <1>0 DEF OneOlder, Ages
  <1> QED
    BY <1>1, <1>2, <1>3

\* A tick of one more age.
LEMMA OlderAppend ==
  ASSUME NEW s \in Seq(Ages), NEW x \in Ages
  PROVE  Older(Append(s, x)) = Append(Older(s), OneOlder(x))
  <1> DEFINE t == Append(s, x)
             u == Append(Older(s), OneOlder(x))
             n == Len(s)
  <1>0. OneOlder(x) \in Ages
    BY GuardAssumption DEF OneOlder, Ages
  <1>1. /\ t \in Seq(Ages) /\ Len(t) = n + 1 /\ t[n + 1] = x /\ n \in Nat
        /\ \A i \in 1 .. n : t[i] = s[i]
    OBVIOUS
  <1>2. /\ Older(s) \in Seq(Ages) /\ Len(Older(s)) = n
        /\ \A i \in 1 .. n : Older(s)[i] = OneOlder(s[i])
    BY OlderIs
  <1>3. /\ Older(t) \in Seq(Ages) /\ Len(Older(t)) = n + 1
        /\ \A i \in 1 .. n + 1 : Older(t)[i] = OneOlder(t[i])
    <2> HIDE DEF t
    <2> QED
      BY <1>1, OlderIs
  <1>4. /\ u \in Seq(Ages) /\ Len(u) = n + 1 /\ u[n + 1] = OneOlder(x)
        /\ \A i \in 1 .. n : u[i] = Older(s)[i]
    BY <1>0, <1>2
  <1> HIDE DEF t, u
  <1>5. \A i \in 1 .. n + 1 : i \in 1 .. n \/ i = n + 1
    BY <1>1
  <1>6. \A i \in 1 .. n + 1 : Older(t)[i] = u[i]
    BY <1>1, <1>2, <1>3, <1>4, <1>5
  <1>7. Older(t) = u
    BY <1>3, <1>4, <1>6, SeqEqual
  <1> QED
    BY <1>7 DEF t, u

\* What is recent after a tick is so of what was recent before it.
LEMMA RecentOlder ==
  ASSUME NEW s \in Seq(Ages)
  PROVE  Recent(Older(s)) = Recent(Older(Recent(s)))
  <1> DEFINE P == {t \in Seq(Ages) : Recent(Older(t)) = Recent(Older(Recent(t)))}
  <1>1. <<>> \in P
    <2>1. Recent(<<>>) = <<>> /\ <<>> \in Seq(Ages)
      BY KeptNone DEF Recent
    <2> QED
      BY <2>1
  <1>2. ASSUME NEW t \in Seq(Ages), t \in P, NEW x \in Ages PROVE Append(t, x) \in P
    <2>0. /\ Recent(t) \in Seq(Ages) /\ Older(t) \in Seq(Ages)
          /\ Older(Recent(t)) \in Seq(Ages)
      BY RecentIs, OlderIs
    <2>1. OneOlder(x) \in Ages /\ (~(x < Window) => OneOlder(x) = Window)
      BY GuardAssumption DEF OneOlder, Ages
    <2>2. Recent(Older(Append(t, x))) =
            IF OneOlder(x) < Window THEN Append(Recent(Older(t)), OneOlder(x))
                                    ELSE Recent(Older(t))
      BY <2>0, <2>1, OlderAppend, RecentAppend
    <2>3. Recent(Older(t)) = Recent(Older(Recent(t)))
      BY <1>2
    <2>4. CASE x < Window
      <3>1. Recent(Append(t, x)) = Append(Recent(t), x)
        BY <2>4, RecentAppend
      <3>2. Recent(Older(Recent(Append(t, x)))) =
              IF OneOlder(x) < Window THEN Append(Recent(Older(Recent(t))), OneOlder(x))
                                      ELSE Recent(Older(Recent(t)))
        <4>1. Older(Append(Recent(t), x)) = Append(Older(Recent(t)), OneOlder(x))
          BY <2>0, OlderAppend
        <4>2. Recent(Append(Older(Recent(t)), OneOlder(x))) =
                IF OneOlder(x) < Window THEN Append(Recent(Older(Recent(t))), OneOlder(x))
                                        ELSE Recent(Older(Recent(t)))
          BY <2>0, <2>1, RecentAppend
        <4> QED
          BY <3>1, <4>1, <4>2
      <3> QED
        BY <2>2, <2>3, <3>2
    <2>5. CASE ~(x < Window)
      <3>1. Recent(Append(t, x)) = Recent(t)
        BY <2>5, RecentAppend
      <3>2. ~(OneOlder(x) < Window)
        BY <2>1, <2>5, GuardAssumption
      <3> QED
        BY <2>2, <2>3, <3>1, <3>2
    <2> QED
      BY <2>4, <2>5
  <1> HIDE DEF P
  <1>3. Seq(Ages) \subseteq P
    BY <1>1, <1>2, SeqSetInduction
  <1> QED
    BY <1>3 DEF P

\* A list stays in order when some of it is dropped.
LEMMA RecentOrdered ==
  ASSUME NEW s \in Seq(Ages), OldestFirst(s)
  PROVE  OldestFirst(Recent(s))
  <1> DEFINE P == {t \in Seq(Ages) : OldestFirst(t) => OldestFirst(Recent(t))}
  <1>1. <<>> \in P
    <2>1. Recent(<<>>) = <<>> /\ <<>> \in Seq(Ages)
      BY KeptNone DEF Recent
    <2> QED
      BY <2>1
  <1>2. ASSUME NEW t \in Seq(Ages), t \in P, NEW x \in Ages PROVE Append(t, x) \in P
    <2> DEFINE u == Append(t, x)
               r == Recent(t)
    <2> SUFFICES ASSUME OldestFirst(u) PROVE OldestFirst(Recent(u))
      OBVIOUS
    <2>1. /\ Len(t) \in Nat /\ Len(u) = Len(t) + 1 /\ u[Len(t) + 1] = x
          /\ \A i \in 1 .. Len(t) : u[i] = t[i] /\ i \in 1 .. Len(u)
      OBVIOUS
    <2>2. OldestFirst(t)
      BY <2>1 DEF OldestFirst
    <2>3. OldestFirst(r)
      BY <1>2, <2>2
    <2>4. \A i \in 1 .. Len(t) : t[i] \in {a \in Ages : x <= a}
      BY <2>1 DEF OldestFirst
    <2>5. t \in Seq({a \in Ages : x <= a})
      BY <2>4
    <2>6. r \in Seq((0 .. Window - 1) \cap {a \in Ages : x <= a})
      BY <2>5, KeptMembers DEF Recent
    <2>7. Recent(u) = IF x < Window THEN Append(r, x) ELSE r
      BY RecentAppend
    <2>8. CASE x < Window
      <3>1. /\ Len(r) \in Nat /\ Len(Append(r, x)) = Len(r) + 1 /\ Append(r, x)[Len(r) + 1] = x
            /\ \A i \in 1 .. Len(r) : Append(r, x)[i] = r[i] /\ x <= r[i]
        BY <2>6
      <3>2. x <= x
        BY GuardAssumption DEF Ages
      <3> HIDE DEF r
      <3>3. OldestFirst(Append(r, x))
        BY <2>3, <3>1, <3>2 DEF OldestFirst
      <3> QED
        BY <2>7, <2>8, <3>3
    <2> QED
      BY <2>3, <2>7, <2>8
  <1> HIDE DEF P
  <1>3. Seq(Ages) \subseteq P
    BY <1>1, <1>2, SeqSetInduction
  <1> QED
    BY <1>3 DEF P

\* A list that starts with an expired age gets shorter.
LEMMA RecentShrinks ==
  ASSUME NEW s \in Seq(Ages), s # <<>>, s[1] = Window
  PROVE  Len(Recent(s)) < Len(s)
  <1> DEFINE P == {t \in Seq(Ages) : t # <<>> /\ t[1] = Window => Len(Recent(t)) < Len(t)}
  <1>1. <<>> \in P
    OBVIOUS
  <1>2. ASSUME NEW t \in Seq(Ages), t \in P, NEW x \in Ages PROVE Append(t, x) \in P
    <2> DEFINE u == Append(t, x)
    <2>0. u \in Seq(Ages)
      OBVIOUS
    <2> HIDE DEF u
    <2> SUFFICES ASSUME u[1] = Window PROVE Len(Recent(u)) < Len(u)
      BY <2>0 DEF u
    <2> USE DEF u
    <2>1. /\ Len(t) \in Nat /\ Len(u) = Len(t) + 1 /\ u[Len(t) + 1] = x
          /\ \A i \in 1 .. Len(t) : u[i] = t[i]
      OBVIOUS
    <2>2. /\ Recent(t) \in Seq(Ages) /\ Len(Recent(t)) \in Nat /\ Len(Recent(t)) <= Len(t)
          /\ Len(Append(Recent(t), x)) = Len(Recent(t)) + 1
      BY RecentIs
    <2>3. Recent(u) = IF x < Window THEN Append(Recent(t), x) ELSE Recent(t)
      BY RecentAppend
    <2>4. CASE t = <<>>
      <3>1. x = Window
        BY <2>1, <2>4
      <3> QED
        BY <2>1, <2>2, <2>3, <3>1, GuardAssumption
    <2>5. CASE t # <<>>
      <3>1. t[1] = Window
        BY <2>1, <2>5
      <3>2. Len(Recent(t)) < Len(t)
        BY <1>2, <2>5, <3>1
      <3> QED
        BY <2>1, <2>2, <2>3, <3>2
    <2> QED
      BY <2>4, <2>5
  <1> HIDE DEF P
  <1>3. Seq(Ages) \subseteq P
    BY <1>1, <1>2, SeqSetInduction
  <1> QED
    BY <1>3 DEF P

-----------------------------------------------------------------------------
(* The limiter. *)

\* Of the timestamps h the limiter has and those a of what it admitted: the
\* recent ones are the same, in order, and no more than the limit.
Sees(h, a) ==
  /\ Recent(h) = Recent(a)
  /\ Len(Recent(h)) <= Limit
  /\ OldestFirst(Recent(h))

\* A wait is over when there is room, and until then it is what is left to the
\* oldest recent timestamp.
Honest(h, wait) ==
  /\ wait = 0 => Len(Recent(h)) < Limit
  /\ wait > 0 => Len(Recent(h)) = Limit /\ Recent(h)[1] + wait = Window

Waits == NoPromise .. Window

GuardTypes ==
  /\ hits \in [Keys -> Seq(Ages)]
  /\ admitted \in [Clients -> Seq(Ages)]
  /\ promised \in [Clients -> Waits]
  /\ denied = NoDenial \/ denied \in [client : Clients, wait : 0 .. Window]

GuardInv ==
  /\ GuardTypes
  /\ \A c \in Clients :
       /\ Sees(hits[c], admitted[c])
       /\ Honest(hits[c], promised[c])
       /\ denied # NoDenial /\ denied.client = c => Honest(hits[c], denied.wait)

\* Each client has a key of its own, and the limiter is there for the next
\* request: all proxies are trusted and there are some, or the options object
\* of requireAuth is not built for each request and has a keyFor.
OwnLimiter ==
  IF Guard = "requireAuth" THEN ~Inline /\ KeyFor
                           ELSE Proxies >= 1 /\ TrustedProxyCount = Proxies

\* Whatever the header starts with, the hop that counts is the client.
LEMMA KeyIsClient ==
  ASSUME OwnLimiter, NEW c \in Clients, NEW before \in Seq(Elsewhere)
  PROVE  KeyOf(c, before) = c
  <1>1. CASE Guard = "requireAuth"
    BY <1>1 DEF KeyOf, OwnLimiter
  <1>2. CASE Guard # "requireAuth"
    <2> DEFINE Hop == Elsewhere \cup {c} \cup {"proxy"}
               rest == [i \in 1 .. Proxies - 1 |-> "proxy"]
               n == Len(before)
    <2>1. /\ TrustedProxyCount = Proxies /\ Proxies \in Nat /\ Proxies # 0
          /\ Proxies - 1 \in Nat /\ n \in Nat
      BY <1>2, GuardAssumption DEF OwnLimiter
    <2>2. before \in Seq(Hop) /\ <<c>> \in Seq(Hop) /\ Len(<<c>>) = 1
      OBVIOUS
    <2>3. rest \in Seq(Hop) /\ Len(rest) = Proxies - 1
      BY <2>1
    <2> HIDE DEF Hop, rest
    <2>4. /\ before \o <<c>> \in Seq(Hop) /\ Len(before \o <<c>>) = n + 1
          /\ (before \o <<c>>)[n + 1] = c
      BY <2>1, <2>2
    <2>5. /\ Hops(c, before) \in Seq(Hop) /\ Len(Hops(c, before)) = n + Proxies
          /\ Hops(c, before)[n + 1] = c
      BY <2>1, <2>3, <2>4 DEF Hops, rest
    <2>6. /\ Len(Hops(c, before)) - TrustedProxyCount + 1 = n + 1
          /\ n + 1 \in DOMAIN Hops(c, before)
      BY <2>1, <2>5
    <2> QED
      BY <1>2, <2>1, <2>5, <2>6, GuardAssumption DEF KeyOf, ClientIp
  <1> QED
    BY <1>1, <1>2

\* An admitted request.
LEMMA SeesAdmit ==
  ASSUME NEW h \in Seq(Ages), NEW a \in Seq(Ages), Sees(h, a), ~Full(Recent(h))
  PROVE  /\ Append(Recent(h), 0) \in Seq(Ages) /\ Append(Recent(a), 0) \in Seq(Ages)
         /\ Sees(Append(Recent(h), 0), Append(Recent(a), 0))
  <1> DEFINE r == Recent(h)
  <1>0. 0 \in Ages /\ 0 < Window /\ Limit \in Nat
    BY GuardAssumption DEF Ages
  <1>1. /\ r \in Seq(Ages) /\ Recent(a) = r /\ Len(r) \in Nat /\ Len(r) < Limit
        /\ Recent(r) = r /\ OldestFirst(r)
    BY <1>0, RecentIs DEF Sees, Full
  <1> HIDE DEF r
  <1>2. /\ Append(r, 0) \in Seq(Ages) /\ Len(Append(r, 0)) = Len(r) + 1
        /\ Append(r, 0)[Len(r) + 1] = 0
        /\ \A i \in 1 .. Len(r) : Append(r, 0)[i] = r[i] /\ r[i] \in Ages
    BY <1>0, <1>1
  <1>3. Recent(Append(r, 0)) = Append(r, 0)
    BY <1>0, <1>1, RecentAppend
  <1>4. OldestFirst(Append(r, 0))
    BY <1>1, <1>2, GuardAssumption DEF OldestFirst, Ages
  <1>5. Len(Append(r, 0)) <= Limit
    BY <1>0, <1>1, <1>2
  <1> QED
    BY <1>1, <1>2, <1>3, <1>4, <1>5 DEF Sees, r

\* Dropping what expired changes nothing.
LEMMA SeesClean ==
  ASSUME NEW h \in Seq(Ages), NEW a \in Seq(Ages), Sees(h, a)
  PROVE  Sees(Recent(h), a) /\ \A w : Honest(h, w) => Honest(Recent(h), w)
  <1>1. Recent(Recent(h)) = Recent(h)
    BY RecentIs
  <1> QED
    BY <1>1 DEF Sees, Honest

\* The wait a refusal computes.
LEMMA HonestDeny ==
  ASSUME NEW h \in Seq(Ages), NEW a \in Seq(Ages), Sees(h, a), Full(Recent(h))
  PROVE  /\ Window - Recent(h)[1] \in 1 .. Window
         /\ Honest(Recent(h), Window - Recent(h)[1])
  <1> DEFINE r == Recent(h)
  <1>0. Window \in Nat /\ Limit \in Nat /\ Limit >= 1
    BY GuardAssumption
  <1>1. /\ r \in Seq(0 .. Window - 1) /\ Len(r) \in Nat /\ Recent(r) = r
        /\ Len(r) = Limit
    BY <1>0, RecentIs DEF Sees, Full
  <1> HIDE DEF r
  <1>2. r[1] \in 0 .. Window - 1
    BY <1>0, <1>1
  <1>3. Window - r[1] \in 1 .. Window /\ r[1] + (Window - r[1]) = Window
    BY <1>0, <1>2
  <1>4. Honest(r, Window - r[1])
    BY <1>1, <1>3 DEF Honest
  <1> QED
    BY <1>3, <1>4 DEF r

\* A tick.
LEMMA SeesOlder ==
  ASSUME NEW h \in Seq(Ages), NEW a \in Seq(Ages), Sees(h, a)
  PROVE  /\ Older(h) \in Seq(Ages) /\ Older(a) \in Seq(Ages)
         /\ Sees(Older(h), Older(a))
         /\ Len(Recent(Older(h))) <= Len(Recent(h))
  <1> DEFINE r == Recent(h)
             o == Older(r)
  <1>0. Limit \in Nat /\ Window \in Nat
    BY GuardAssumption
  <1>1. /\ r \in Seq(Ages) /\ Recent(a) = r /\ Len(r) \in Nat /\ Len(r) <= Limit
        /\ OldestFirst(r) /\ Older(h) \in Seq(Ages) /\ Older(a) \in Seq(Ages)
    BY RecentIs, OlderIs DEF Sees
  <1>2. Recent(Older(h)) = Recent(o) /\ Recent(Older(a)) = Recent(o)
    BY <1>1, RecentOlder
  <1> HIDE DEF r
  <1>3. /\ o \in Seq(Ages) /\ Len(o) = Len(r)
        /\ \A i \in 1 .. Len(r) : r[i] \in Ages /\ o[i] = OneOlder(r[i])
    BY <1>1, OlderIs
  <1> HIDE DEF o
  <1>4. OldestFirst(o)
    <2> SUFFICES ASSUME NEW j \in 1 .. Len(r), NEW i \in 1 .. j PROVE o[j] <= o[i]
      BY <1>3 DEF OldestFirst
    <2>1. i \in 1 .. Len(r) /\ r[j] <= r[i]
      BY <1>1 DEF OldestFirst
    <2>2. \A x, y \in Ages : x <= y => OneOlder(x) <= OneOlder(y)
      BY <1>0 DEF OneOlder, Ages
    <2> QED
      BY <1>3, <2>1, <2>2
  <1>5. OldestFirst(Recent(o)) /\ Len(Recent(o)) <= Len(r) /\ Len(Recent(o)) \in Nat
    BY <1>3, <1>4, RecentOrdered, RecentIs
  <1>6. Len(Recent(o)) <= Limit
    BY <1>0, <1>1, <1>5
  <1> QED
    BY <1>1, <1>2, <1>5, <1>6 DEF Sees, r

\* A wait gets shorter by the tick, and is over when the oldest expires.
LEMMA HonestOlder ==
  ASSUME NEW h \in Seq(Ages), NEW a \in Seq(Ages), Sees(h, a),
         NEW w \in Waits, Honest(h, w)
  PROVE  Less(w) \in Waits /\ (w >= 0 => Less(w) \in 0 .. Window) /\ Honest(Older(h), Less(w))
  <1> DEFINE r == Recent(h)
             o == Older(r)
  <1>0. Limit \in Nat /\ Limit >= 1 /\ Window \in Nat
    BY GuardAssumption
  <1>1. Less(w) \in Waits /\ (w >= 0 => Less(w) \in 0 .. Window)
    BY <1>0 DEF Less, Waits, NoPromise
  <1>2. /\ r \in Seq(Ages) /\ Len(r) \in Nat /\ OldestFirst(r)
        /\ Recent(Older(h)) = Recent(o) /\ Len(Recent(Older(h))) <= Len(r)
        /\ Len(Recent(o)) \in Nat
    BY RecentIs, RecentOlder, OlderIs, SeesOlder DEF Sees
  <1>3. /\ o \in Seq(Ages) /\ Len(o) = Len(r)
        /\ \A i \in 1 .. Len(r) : r[i] \in Ages /\ o[i] = OneOlder(r[i])
    BY <1>2, OlderIs
  <1>4. CASE w <= 0
    <2>1. Less(w) = w /\ (w = 0 => Len(r) < Limit)
      BY <1>0, <1>4 DEF Less, Waits, NoPromise, Honest
    <2> QED
      BY <1>0, <1>1, <1>2, <1>4, <2>1 DEF Honest, Waits, NoPromise
  <1>5. CASE w > 0
    <2>1. /\ Len(r) = Limit /\ r[1] + w = Window /\ Less(w) = w - 1
          /\ 1 \in 1 .. Len(r) /\ r[1] \in Ages
      BY <1>0, <1>3, <1>5 DEF Honest, Less, Waits, NoPromise
    <2> HIDE DEF r, o
    <2>2. r[1] < Window /\ o[1] = r[1] + 1
      BY <1>0, <1>3, <1>5, <2>1 DEF OneOlder, Ages, Waits, NoPromise
    <2>3. CASE w = 1
      <3>1. o # <<>> /\ o[1] = Window
        BY <1>0, <1>3, <2>1, <2>2, <2>3
      <3>2. Len(Recent(o)) < Len(r)
        BY <1>3, <3>1, RecentShrinks
      <3> QED
        BY <1>1, <1>2, <2>1, <2>3, <3>2 DEF Honest
    <2>4. CASE w # 1
      <3>1. \A i \in 1 .. Len(o) : o[i] \in 0 .. Window - 1
        <4> SUFFICES ASSUME NEW i \in 1 .. Len(r) PROVE o[i] \in 0 .. Window - 1
          BY <1>3
        <4>1. r[i] <= r[1] /\ r[i] \in Ages
          BY <1>2, <1>3, <2>1 DEF OldestFirst
        <4>2. r[1] + 1 < Window
          BY <1>0, <1>5, <2>1, <2>4 DEF Ages, Waits, NoPromise
        <4> QED
          BY <1>0, <1>3, <2>1, <4>1, <4>2 DEF OneOlder, Ages
      <3>2. Recent(o) = o
        BY <1>3, <3>1, KeptMembers DEF Recent
      <3>3. Less(w) # 0 /\ o[1] + Less(w) = Window
        BY <1>0, <1>5, <2>1, <2>2, <2>4 DEF Ages, Waits, NoPromise
      <3>4. Recent(Older(h)) = o /\ Len(o) = Limit
        BY <1>2, <1>3, <2>1, <3>2
      <3> QED
        BY <1>1, <3>3, <3>4 DEF Honest
    <2> QED
      BY <1>1, <2>3, <2>4
  <1>6. w <= 0 \/ w > 0
    BY <1>0 DEF Waits, NoPromise
  <1> QED
    BY <1>1, <1>4, <1>5, <1>6

\* A step changes what it changes of one client, and the denial is his.
LEMMA GuardInvUpdate ==
  ASSUME GuardInv, NEW c \in Clients, GuardTypes',
         \A d \in Clients \ {c} :
           hits'[d] = hits[d] /\ admitted'[d] = admitted[d] /\ promised'[d] = promised[d],
         denied' # NoDenial => denied'.client = c,
         Sees(hits'[c], admitted'[c]), Honest(hits'[c], promised'[c]),
         denied' # NoDenial => Honest(hits'[c], denied'.wait)
  PROVE  GuardInv'
  <1>1. ASSUME NEW d \in Clients
        PROVE  /\ Sees(hits'[d], admitted'[d])
               /\ Honest(hits'[d], promised'[d])
               /\ denied' # NoDenial /\ denied'.client = d => Honest(hits'[d], denied'.wait)
    <2>1. CASE d = c
      BY <2>1
    <2>2. CASE d # c
      <3>1. Sees(hits[d], admitted[d]) /\ Honest(hits[d], promised[d])
        BY DEF GuardInv
      <3> QED
        BY <2>2, <3>1
    <2> QED
      BY <2>1, <2>2
  <1> QED
    BY <1>1 DEF GuardInv, Sees, Honest, Recent, OldestFirst

\* Nothing was admitted.
LEMMA GuardInvInit == GuardInit => GuardInv
  <1> SUFFICES ASSUME GuardInit PROVE GuardInv
    OBVIOUS
  <1>1. <<>> \in Seq(Ages) /\ Recent(<<>>) = <<>> /\ Len(<<>>) = 0
    BY KeptNone DEF Recent
  <1>2. \A c \in Clients : c \in Keys
    BY DEF Keys
  <1>3. NoPromise \in Waits /\ Limit \in Nat
    BY GuardAssumption DEF NoPromise, Waits
  <1>4. GuardTypes
    BY <1>1, <1>3 DEF GuardInit, GuardTypes
  <1>5. \A c \in Clients :
          hits[c] = <<>> /\ admitted[c] = <<>> /\ promised[c] = NoPromise /\ denied = NoDenial
    BY <1>2 DEF GuardInit
  <1>6. Sees(<<>>, <<>>) /\ Honest(<<>>, NoPromise)
    BY <1>1, <1>3 DEF Sees, Honest, OldestFirst, NoPromise
  <1> QED
    BY <1>4, <1>5, <1>6 DEF GuardInv

\* The facts about one client that a request of his starts from.
LEMMA ClientFacts ==
  ASSUME GuardInv, OwnLimiter, NEW c \in Clients
  PROVE  /\ c \in Keys /\ SharedLimiter
         /\ hits[c] \in Seq(Ages) /\ admitted[c] \in Seq(Ages) /\ promised[c] \in Waits
         /\ Sees(hits[c], admitted[c]) /\ Honest(hits[c], promised[c])
  BY GuardAssumption DEF GuardInv, GuardTypes, Keys, SharedLimiter, OwnLimiter

\* check() admits.
LEMMA AdmitInv ==
  ASSUME GuardInv, OwnLimiter, NEW c \in Clients, NEW before \in Seq(Elsewhere),
         Admit(c, before)
  PROVE  GuardInv'
  <1> DEFINE h == Append(Recent(hits[c]), 0)
             a == Append(Recent(admitted[c]), 0)
  <1>0. /\ c \in Keys /\ SharedLimiter
        /\ hits[c] \in Seq(Ages) /\ admitted[c] \in Seq(Ages) /\ promised[c] \in Waits
        /\ Sees(hits[c], admitted[c]) /\ Honest(hits[c], promised[c])
    BY ClientFacts
  <1>1. KeyOf(c, before) = c
    BY KeyIsClient
  <1>2. /\ denied = NoDenial /\ denied' = NoDenial /\ ~Full(Recent(hits[c]))
        /\ hits' = [hits EXCEPT ![c] = h]
        /\ admitted' = [admitted EXCEPT ![c] = a]
        /\ promised' = [promised EXCEPT ![c] = NoPromise]
    BY <1>0, <1>1 DEF Admit, Used, SetHits
  <1>3. h \in Seq(Ages) /\ a \in Seq(Ages) /\ Sees(h, a)
    BY <1>0, <1>2, SeesAdmit
  <1> HIDE DEF h, a
  <1>4. NoPromise \in Waits
    BY GuardAssumption DEF NoPromise, Waits
  <1>5. GuardTypes'
    BY <1>0, <1>2, <1>3, <1>4 DEF GuardInv, GuardTypes
  <1>6. /\ hits'[c] = h /\ admitted'[c] = a /\ promised'[c] = NoPromise
        /\ \A d \in Clients \ {c} :
             hits'[d] = hits[d] /\ admitted'[d] = admitted[d] /\ promised'[d] = promised[d]
    BY <1>0, <1>2 DEF GuardInv, GuardTypes, Keys
  <1>7. Honest(h, NoPromise)
    BY DEF Honest, NoPromise
  <1> QED
    BY <1>2, <1>3, <1>5, <1>6, <1>7, GuardInvUpdate

\* check() refuses.
LEMMA DenyInv ==
  ASSUME GuardInv, OwnLimiter, NEW c \in Clients, NEW before \in Seq(Elsewhere),
         Deny(c, before)
  PROVE  GuardInv'
  <1> DEFINE h == Recent(hits[c])
             w == Window - h[1]
  <1>0. /\ c \in Keys /\ SharedLimiter
        /\ hits[c] \in Seq(Ages) /\ admitted[c] \in Seq(Ages) /\ promised[c] \in Waits
        /\ Sees(hits[c], admitted[c]) /\ Honest(hits[c], promised[c])
    BY ClientFacts
  <1>1. KeyOf(c, before) = c
    BY KeyIsClient
  <1>2. /\ Full(h)
        /\ hits' = [hits EXCEPT ![c] = h]
        /\ denied' = [client |-> c, wait |-> w]
        /\ UNCHANGED <<admitted, promised>>
    BY <1>0, <1>1 DEF Deny, Used, SetHits
  <1>3. w \in 1 .. Window /\ Honest(h, w)
    BY <1>0, <1>2, HonestDeny
  <1>4. h \in Seq(Ages) /\ Sees(h, admitted[c]) /\ Honest(h, promised[c])
    BY <1>0, RecentIs, SeesClean
  <1> HIDE DEF h, w
  <1>5. w \in 0 .. Window
    BY <1>3, GuardAssumption
  <1>6. GuardTypes'
    BY <1>0, <1>2, <1>4, <1>5 DEF GuardInv, GuardTypes
  <1>7. /\ hits'[c] = h /\ admitted'[c] = admitted[c] /\ promised'[c] = promised[c]
        /\ denied'.client = c /\ denied'.wait = w
        /\ \A d \in Clients \ {c} :
             hits'[d] = hits[d] /\ admitted'[d] = admitted[d] /\ promised'[d] = promised[d]
    BY <1>0, <1>2 DEF GuardInv, GuardTypes, Keys
  <1> QED
    BY <1>3, <1>4, <1>6, <1>7, GuardInvUpdate

\* The answer to a refusal.
LEMMA AnswerInv ==
  ASSUME GuardInv, OwnLimiter, Answer429
  PROVE  GuardInv'
  <1>1. denied # NoDenial /\ denied \in [client : Clients, wait : 0 .. Window]
    BY DEF Answer429, GuardInv, GuardTypes
  <1>2. PICK c \in Clients, w \in 0 .. Window : denied.client = c /\ denied.wait = w
    BY <1>1
  <1>3. /\ promised' = [promised EXCEPT ![c] = w] /\ denied' = NoDenial
        /\ UNCHANGED <<hits, admitted>>
    BY <1>2 DEF Answer429
  <1>4. w \in Waits
    BY GuardAssumption DEF Waits, NoPromise
  <1>5. Honest(hits[c], w) /\ Sees(hits[c], admitted[c])
    BY <1>1, <1>2 DEF GuardInv
  <1>6. GuardTypes'
    BY <1>3, <1>4 DEF GuardInv, GuardTypes
  <1>7. /\ promised'[c] = w
        /\ \A d \in Clients \ {c} :
             hits'[d] = hits[d] /\ admitted'[d] = admitted[d] /\ promised'[d] = promised[d]
    BY <1>3 DEF GuardInv, GuardTypes
  <1> QED
    BY <1>3, <1>5, <1>6, <1>7, GuardInvUpdate

\* reset(key)
LEMMA ForgiveInv ==
  ASSUME GuardInv, OwnLimiter, NEW c \in Clients, Forgive(c)
  PROVE  GuardInv'
  <1>0. c \in Keys /\ <<>> \in Seq(Elsewhere)
    BY DEF Keys
  <1>1. KeyOf(c, <<>>) = c
    BY <1>0, KeyIsClient
  <1>2. /\ denied = NoDenial /\ denied' = NoDenial
        /\ hits' = [hits EXCEPT ![c] = <<>>]
        /\ admitted' = [admitted EXCEPT ![c] = <<>>]
        /\ promised' = [promised EXCEPT ![c] = NoPromise]
    BY <1>1 DEF Forgive
  <1>3. <<>> \in Seq(Ages) /\ Recent(<<>>) = <<>> /\ Len(<<>>) = 0
    BY KeptNone DEF Recent
  <1>4. NoPromise \in Waits /\ Limit \in Nat
    BY GuardAssumption DEF NoPromise, Waits
  <1>5. Sees(<<>>, <<>>) /\ Honest(<<>>, NoPromise)
    BY <1>3, <1>4 DEF Sees, Honest, OldestFirst, NoPromise
  <1>6. GuardTypes'
    BY <1>0, <1>2, <1>3, <1>4 DEF GuardInv, GuardTypes
  <1>7. /\ hits'[c] = <<>> /\ admitted'[c] = <<>> /\ promised'[c] = NoPromise
        /\ \A d \in Clients \ {c} :
             hits'[d] = hits[d] /\ admitted'[d] = admitted[d] /\ promised'[d] = promised[d]
    BY <1>0, <1>2 DEF GuardInv, GuardTypes, Keys
  <1> QED
    BY <1>2, <1>5, <1>6, <1>7, GuardInvUpdate

\* sweep()
LEMMA SweepInv ==
  ASSUME GuardInv, Sweep
  PROVE  GuardInv'
  <1>1. /\ hits' = [k \in Keys |-> Recent(hits[k])] /\ denied = NoDenial
        /\ UNCHANGED <<denied, admitted, promised>>
    BY DEF Sweep
  <1>2. \A k \in Keys : Recent(hits[k]) \in Seq(Ages)
    BY RecentIs DEF GuardInv, GuardTypes
  <1>3. GuardTypes'
    BY <1>1, <1>2 DEF GuardInv, GuardTypes
  <1>4. ASSUME NEW c \in Clients
        PROVE  Sees(hits'[c], admitted'[c]) /\ Honest(hits'[c], promised'[c])
    <2>1. c \in Keys /\ hits'[c] = Recent(hits[c])
      BY <1>1 DEF Keys
    <2>2. /\ hits[c] \in Seq(Ages) /\ admitted[c] \in Seq(Ages)
          /\ Sees(hits[c], admitted[c]) /\ Honest(hits[c], promised[c])
      BY <2>1 DEF GuardInv, GuardTypes
    <2>3. Sees(Recent(hits[c]), admitted[c]) /\ Honest(Recent(hits[c]), promised[c])
      BY <2>2, SeesClean
    <2> QED
      BY <1>1, <2>1, <2>3
  <1> QED
    BY <1>1, <1>3, <1>4 DEF GuardInv, Sees, Honest, Recent, OldestFirst

\* The clock moves.
LEMMA ElapseInv ==
  ASSUME GuardInv, Elapse
  PROVE  GuardInv'
  <1>1. /\ hits' = [k \in Keys |-> Older(hits[k])]
        /\ admitted' = [c \in Clients |-> Older(admitted[c])]
        /\ denied' = [denied EXCEPT !.wait = Less(@)]
        /\ promised' = [c \in Clients |-> Less(promised[c])]
    BY DEF Elapse
  <1>2. ASSUME NEW c \in Clients
        PROVE  /\ c \in Keys /\ hits[c] \in Seq(Ages) /\ admitted[c] \in Seq(Ages)
               /\ promised[c] \in Waits
               /\ Sees(hits[c], admitted[c]) /\ Honest(hits[c], promised[c])
    BY DEF GuardInv, GuardTypes, Keys
  <1>3. /\ \A k \in Keys : Older(hits[k]) \in Seq(Ages)
        /\ \A c \in Clients : Older(admitted[c]) \in Seq(Ages)
    BY OlderIs DEF GuardInv, GuardTypes
  <1>4. \A c \in Clients : /\ Sees(Older(hits[c]), Older(admitted[c]))
                           /\ Less(promised[c]) \in Waits
                           /\ Honest(Older(hits[c]), Less(promised[c]))
    BY <1>2, SeesOlder, HonestOlder
  <1>5. CASE denied = NoDenial
    <2>1. denied' = NoDenial
      BY <1>1, <1>5 DEF NoDenial, Less
    <2>2. GuardTypes'
      BY <1>1, <1>3, <1>4, <2>1 DEF GuardTypes
    <2>3. \A c \in Clients : /\ Sees(hits'[c], admitted'[c])
                             /\ Honest(hits'[c], promised'[c])
      BY <1>1, <1>2, <1>4
    <2> QED
      BY <2>1, <2>2, <2>3 DEF GuardInv, Sees, Honest, Recent, OldestFirst
  <1>6. CASE denied # NoDenial
    <2>1. denied \in [client : Clients, wait : 0 .. Window]
      BY <1>6 DEF GuardInv, GuardTypes
    <2>2. PICK d \in Clients, w \in 0 .. Window : denied = [client |-> d, wait |-> w]
      BY <2>1
    <2>3. denied' = [client |-> d, wait |-> Less(w)]
      BY <1>1, <2>2
    <2>4. w \in Waits /\ w >= 0
      BY GuardAssumption DEF Waits, NoPromise
    <2>5. Honest(hits[d], w)
      BY <1>6, <2>2 DEF GuardInv
    <2>6. Less(w) \in 0 .. Window /\ Honest(Older(hits[d]), Less(w))
      BY <1>2, <2>4, <2>5, HonestOlder
    <2>7. GuardTypes'
      <3>1. denied' \in [client : Clients, wait : 0 .. Window]
        BY <2>3, <2>6
      <3>2. /\ hits' \in [Keys -> Seq(Ages)] /\ admitted' \in [Clients -> Seq(Ages)]
            /\ promised' \in [Clients -> Waits]
        BY <1>1, <1>3, <1>4
      <3> QED
        BY <3>1, <3>2 DEF GuardTypes, Ages, Waits
    <2>8. \A c \in Clients : /\ Sees(hits'[c], admitted'[c])
                             /\ Honest(hits'[c], promised'[c])
                             /\ denied'.client = c => Honest(hits'[c], denied'.wait)
      BY <1>1, <1>2, <1>4, <2>3, <2>6
    <2> QED
      BY <2>7, <2>8 DEF GuardInv, Sees, Honest, Recent, OldestFirst
  <1> QED
    BY <1>5, <1>6

\* Every step keeps the limiter in step with what it admitted.
LEMMA GuardInvStep == ASSUME OwnLimiter PROVE GuardInv /\ [GuardNext]_guardVars => GuardInv'
  <1> SUFFICES ASSUME GuardInv, [GuardNext]_guardVars PROVE GuardInv'
    OBVIOUS
  <1>0. Headers \subseteq Seq(Elsewhere)
    BY GuardAssumption DEF Headers
  <1>1. ASSUME NEW c \in Clients, NEW before \in Headers, Admit(c, before) \/ Deny(c, before)
        PROVE  GuardInv'
    BY <1>0, <1>1, AdmitInv, DenyInv
  <1>2. ASSUME NEW c \in Clients, Forgive(c) PROVE GuardInv'
    BY <1>2, ForgiveInv
  <1>3. ASSUME Answer429 \/ Sweep \/ Elapse PROVE GuardInv'
    BY <1>3, AnswerInv, SweepInv, ElapseInv
  <1>4. CASE Refuse \/ UNCHANGED guardVars
    <2>1. UNCHANGED <<hits, denied, admitted, promised>>
      BY <1>4 DEF Refuse, guardVars
    <2> QED
      BY <2>1 DEF GuardInv, GuardTypes, Sees, Honest, Recent, OldestFirst
  <1> QED
    BY <1>1, <1>2, <1>3, <1>4 DEF GuardNext

\* The invariant says what both properties need.
LEMMA GuardInvImplies == GuardInv => WindowBounded /\ RetryAfterHonest
  <1> SUFFICES ASSUME GuardInv, NEW c \in Clients
               PROVE  /\ InWindow(c) <= Limit
                      /\ promised[c] # NoPromise => (promised[c] = 0 <=> InWindow(c) < Limit)
    BY DEF WindowBounded, RetryAfterHonest
  <1>1. /\ Sees(hits[c], admitted[c]) /\ Honest(hits[c], promised[c])
        /\ promised[c] \in Waits /\ admitted[c] \in Seq(Ages)
    BY DEF GuardInv, GuardTypes
  <1>2. Len(Recent(hits[c])) = InWindow(c) /\ InWindow(c) \in Nat /\ Limit \in Nat
    BY <1>1, RecentIs, GuardAssumption DEF Sees, InWindow
  <1>3. InWindow(c) <= Limit
    BY <1>1, <1>2 DEF Sees
  <1>4. promised[c] # NoPromise => promised[c] = 0 \/ promised[c] > 0
    BY <1>1, GuardAssumption DEF Waits, NoPromise
  <1>5. promised[c] > 0 => promised[c] # 0 /\ InWindow(c) = Limit
    BY <1>1, <1>2 DEF Honest
  <1>6. promised[c] = 0 => InWindow(c) < Limit
    BY <1>1, <1>2 DEF Honest
  <1> QED
    BY <1>2, <1>3, <1>4, <1>5, <1>6

\* For any clients, limit and window, and whatever a forwarded header starts
\* with: no window sees more than limit requests of one client admitted, where
\* each client has a limiter of its own that lasts.
THEOREM RateIsBounded ==
  ASSUME OwnLimiter
  PROVE  GuardSpec => []WindowBounded
  <1>1. GuardInv /\ [GuardNext]_guardVars => GuardInv'
    BY GuardInvStep
  <1>2. GuardInv => WindowBounded
    BY GuardInvImplies
  <1> QED
    BY <1>1, <1>2, GuardInvInit, PTL DEF GuardSpec

\* In the same circumstances the wait a refused client is told of is right to
\* the tick: the window is full until it is over, and has room then.
THEOREM WaitsAreHonest ==
  ASSUME OwnLimiter
  PROVE  GuardSpec => []RetryAfterHonest
  <1>1. GuardInv /\ [GuardNext]_guardVars => GuardInv'
    BY GuardInvStep
  <1>2. GuardInv => RetryAfterHonest
    BY GuardInvImplies
  <1> QED
    BY <1>1, <1>2, GuardInvInit, PTL DEF GuardSpec

-----------------------------------------------------------------------------
(* The gate. *)

GateTypes ==
  /\ found \in Seq({"gap", "blank"})
  /\ gate = NoGate \/ gate \in Gate
  /\ dict.violations \in Seq({"gap", "blank"})

\* What a gate says agrees with itself.
SelfConsistent(g) ==
  /\ g \in Gate
  /\ g.confidence >= CONFIDENCE_FLOOR
  /\ (g.status = "CLEAR") = (g.violations = <<>>)
  /\ (g.status = "CLEAR") = (g.confidence = 100)

GateInv == GateTypes /\ GateConsistent

\* build_gate, of any list and hint.
LEMMA BuildGateConsistent ==
  ASSUME NEW vs \in Seq({"gap", "blank"}), NEW h \in Hint
  PROVE  SelfConsistent(BuildGate(vs, h))
  <1> DEFINE c == Cleaned(vs)
             n == Len(c)
  <1>1. c \in Seq({"gap"})
    <2>1. c \in Seq({"gap"} \cap {"gap", "blank"})
      BY KeptMembers DEF Cleaned
    <2>2. {"gap"} \cap {"gap", "blank"} = {"gap"}
      OBVIOUS
    <2> QED
      BY <2>1, <2>2
  <1>2. n \in Nat /\ (c = <<>> <=> n = 0)
    BY <1>1
  <1> HIDE DEF c
  <1>3. CASE c = <<>>
    BY <1>3 DEF BuildGate, SelfConsistent, Gate, CONFIDENCE_FLOOR, c
  <1>4. CASE c # <<>>
    <2>0. n >= 1
      BY <1>2, <1>4
    <2> HIDE DEF n
    <2>1. Confidence(n, h) \in 50 .. 99
      BY <2>0, <1>2, <1>4 DEF Confidence, CONFIDENCE_FLOOR, PENALTY_PER_VIOLATION
    <2>2. BuildGate(vs, h) = [status |-> "REQUIRES_HUMAN_VERIFICATION",
                              confidence |-> Confidence(n, h), violations |-> c]
      BY <1>4 DEF BuildGate, c, n
    <2>3. ASSUME NEW k \in 50 .. 99
          PROVE  SelfConsistent([status |-> "REQUIRES_HUMAN_VERIFICATION",
                                 confidence |-> k, violations |-> c])
      BY <1>1, <1>4 DEF SelfConsistent, Gate, CONFIDENCE_FLOOR
    <2> QED
      BY <2>1, <2>2, <2>3
  <1> QED
    BY <1>3, <1>4

\* No gate was built.
LEMMA GateInvInit == GateInit => GateInv
  BY DEF GateInit, GateInv, GateTypes, GateConsistent, NoGate

\* Every step keeps the gates consistent.
LEMMA GateInvStep == GateInv /\ [GateNext]_gateVars => GateInv'
  <1> SUFFICES ASSUME GateInv, [GateNext]_gateVars PROVE GateInv'
    OBVIOUS
  <1>0. /\ GateTypes
        /\ \A g \in {gate, received} \ {NoGate} : SelfConsistent(g)
    BY DEF GateInv, GateConsistent, SelfConsistent
  <1>1. SUFFICES /\ GateTypes'
                 /\ \A g \in {gate', received'} \ {NoGate} : SelfConsistent(g)
    BY DEF GateInv, GateConsistent, SelfConsistent
  <1>2. ASSUME NEW v \in {"gap", "blank"}, Report(v)
        PROVE  GateTypes' /\ UNCHANGED <<gate, received>>
    BY <1>0, <1>2 DEF Report, GateTypes
  <1>3. ASSUME NEW v \in {"gap", "blank"}, ReceiverAdds(v)
        PROVE  GateTypes' /\ UNCHANGED <<gate, received>>
    <2>1. dict'.violations = Append(dict.violations, v)
      BY <1>3 DEF ReceiverAdds, Gate, NoGate
    <2> QED
      BY <1>0, <1>3, <2>1 DEF ReceiverAdds, GateTypes
  <1>4. ASSUME NEW h \in Hint, Build(h)
        PROVE  GateTypes' /\ SelfConsistent(gate') /\ UNCHANGED received
    <2>1. SelfConsistent(gate')
      BY <1>0, <1>4, BuildGateConsistent DEF Build, GateTypes
    <2> QED
      BY <1>0, <1>4, <2>1 DEF Build, GateTypes, SelfConsistent
  <1>5. ASSUME ToDict PROVE GateTypes' /\ UNCHANGED <<gate, received>>
    <2>1. gate \in Gate /\ dict' = gate
      BY <1>0, <1>5 DEF ToDict, GateTypes
    <2>2. dict'.violations \in Seq({"gap"})
      BY <2>1 DEF Gate
    <2>3. Seq({"gap"}) \subseteq Seq({"gap", "blank"})
      OBVIOUS
    <2> QED
      BY <1>0, <1>5, <2>2, <2>3 DEF ToDict, GateTypes
  <1>6. ASSUME ReceiverBuilds PROVE GateTypes' /\ SelfConsistent(received') /\ UNCHANGED gate
    BY <1>0, <1>6, BuildGateConsistent DEF ReceiverBuilds, GateTypes, Hint
  <1>7. CASE UNCHANGED gateVars
    BY <1>0, <1>7 DEF gateVars, GateTypes
  <1> QED
    BY <1>0, <1>2, <1>3, <1>4, <1>5, <1>6, <1>7 DEF GateNext

\* Whatever violations a report gathers, whatever hint it is given and whatever
\* a receiver adds before building a gate of its own: status, confidence and
\* violations of a gate agree.
THEOREM GatesAgree == GateSpec => []GateConsistent
  <1>1. GateInv => GateConsistent
    BY DEF GateInv
  <1> QED
    BY <1>1, GateInvInit, GateInvStep, PTL DEF GateSpec

-----------------------------------------------------------------------------
(* The webhook. *)

HookTypes ==
  /\ secret \in Secrets \cup {Unset}
  /\ stage \in [Deliveries -> {"idle", "verifying", "storing"}]
  /\ DOMAIN used = Deliveries
  /\ DOMAIN signed = Deliveries
  /\ DOMAIN status = Deliveries

HandledIsConfigured ==
  \A d \in Deliveries :
    /\ stage[d] # "idle" => used[d] \in Secrets
    /\ stage[d] = "storing" => signed[d] = used[d]

HookInv == HookTypes /\ HandledIsConfigured

\* What OnlySignedIsStored says of a step.
StoresSigned ==
  \A d \in Deliveries : stage[d] = "storing" /\ stage'[d] = "idle" =>
    /\ status'[d] = 200 => entry'.data = [from |-> "webhook", age |-> 0]
    /\ entry' # entry => signed[d] \in Secrets /\ signed[d] = used[d]

-----------------------------------------------------------------------------
\* Nothing was received.
LEMMA InitInv == Init => HookInv
  BY DEF Init, HookInv, HookTypes, HandledIsConfigured

\* An arrival goes on only with a secret that is set.
LEMMA ReceiveInv ==
  ASSUME HookInv, NEW d \in Deliveries, Receive(d)
  PROVE  HookInv' /\ StoresSigned
  <1> USE DEF HookInv, HookTypes, HandledIsConfigured
  <1>1. stage[d] = "idle" /\ UNCHANGED <<secret, entry>>
    BY DEF Receive, resolverVars
  <1>2. \/ \E code \in {400, 401, 405, 503} : Answer(d, code)
        \/ \E signature :
             /\ secret # Unset
             /\ stage' = [stage EXCEPT ![d] = "verifying"]
             /\ status' = [status EXCEPT ![d] = 0]
             /\ used' = [used EXCEPT ![d] = secret]
             /\ signed' = [signed EXCEPT ![d] = signature]
    BY DEF Receive, Verdict
  <1>3. CASE \E code \in {400, 401, 405, 503} : Answer(d, code)
    BY <1>1, <1>3 DEF Answer, StoresSigned
  <1>4. CASE \E signature :
               /\ secret # Unset
               /\ stage' = [stage EXCEPT ![d] = "verifying"]
               /\ status' = [status EXCEPT ![d] = 0]
               /\ used' = [used EXCEPT ![d] = secret]
               /\ signed' = [signed EXCEPT ![d] = signature]
    BY <1>1, <1>4 DEF StoresSigned
  <1> QED
    BY <1>2, <1>3, <1>4

\* Only a genuine delivery goes on to the storage; only it changes the entry.
LEMMA HandleInv ==
  ASSUME HookInv, NEW d \in Deliveries, Handle(d)
  PROVE  HookInv' /\ StoresSigned
  <1> USE DEF HookInv, HookTypes, HandledIsConfigured
  <1>1. CASE Verify(d)
    <2>1. stage[d] = "verifying" /\ UNCHANGED <<secret, entry>>
      BY <1>1 DEF Verify, resolverVars
    <2>2. \/ \E code \in {400, 401} : Answer(d, code)
          \/ /\ signed[d] = used[d]
             /\ stage' = [stage EXCEPT ![d] = "storing"]
             /\ UNCHANGED <<status, used, signed>>
      BY <1>1 DEF Verify, Genuine
    <2>3. CASE \E code \in {400, 401} : Answer(d, code)
      BY <2>1, <2>3 DEF Answer, StoresSigned
    <2>4. CASE /\ signed[d] = used[d]
               /\ stage' = [stage EXCEPT ![d] = "storing"]
               /\ UNCHANGED <<status, used, signed>>
      BY <2>1, <2>4 DEF StoresSigned
    <2> QED
      BY <2>2, <2>3, <2>4
  <1>2. CASE Store(d)
    BY <1>2 DEF Store, Answer, StoresSigned
  <1>3. CASE Throws(d)
    BY <1>3 DEF Throws, Answer, StoresSigned, resolverVars
  <1> QED
    BY <1>1, <1>2, <1>3 DEF Handle

\* The resolver, the clock and the configuration leave deliveries alone.
LEMMA OthersInv ==
  ASSUME HookInv,
         \/ UNCHANGED hookVars
         \/ Rotate
  PROVE  HookInv' /\ StoresSigned
  BY DEF HookInv, HookTypes, HandledIsConfigured, StoresSigned, hookVars, Rotate

\* Every step keeps the invariant and stores what is signed.
LEMMA HookStep == HookInv /\ [Next]_vars => HookInv' /\ [StoresSigned]_vars
  <1> SUFFICES ASSUME HookInv, [Next]_vars PROVE HookInv' /\ StoresSigned
    OBVIOUS
  <1>1. ASSUME NEW d \in Deliveries, Receive(d) \/ Handle(d)
        PROVE  HookInv' /\ StoresSigned
    BY <1>1, ReceiveInv, HandleInv
  <1>2. CASE UNCHANGED hookVars \/ Rotate
    BY <1>2, OthersInv
  <1>3. UNCHANGED vars => UNCHANGED hookVars
    BY DEF vars
  <1> QED
    BY <1>1, <1>2, <1>3 DEF Next, ResolverWork

-----------------------------------------------------------------------------
\* The storage changes on behalf of a webhook only for a delivery signed with
\* the secret that was configured when it arrived, and 200 means stored.
THEOREM OnlyGenuineStored == Spec => OnlySignedIsStored
  <1>1. Spec => [][StoresSigned]_vars
    BY InitInv, HookStep, PTL DEF Spec
  <1> QED
    BY <1>1 DEF OnlySignedIsStored, StoresSigned
=============================================================================
