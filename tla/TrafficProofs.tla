--------------------------- MODULE TrafficProofs ----------------------------
(***************************************************************************)
(* Proofs about what is let through: the load balancer, the sliding        *)
(* windows of the rate limiter and the limit on failed logins, for any     *)
(* backends, endpoints, limits, windows, accounts and attempts.            *)
(*                                                                         *)
(* All three filter lists, so the first part proves what OnlyIn does. The  *)
(* second is about the balancer: its counts need every listed entry to     *)
(* have one, and its rounds need the entries that had a turn to be those   *)
(* just before the index. The third is about the shared list of the rate   *)
(* limiter: WindowRespected needs the list to be complete within the       *)
(* narrowest window, and WaitingIsEnough needs to know, while the client   *)
(* waits, what will be left of the list when it comes back. The fourth is  *)
(* about logins: attempts that wait for the database were let in below the *)
(* limit, and there are at most as many as calls.                          *)
(***************************************************************************)
EXTENDS LoadBalancer, RateLimiter, Logins, FiniteSetTheorems, SequenceTheorems,
        WellFoundedInduction, TLAPS

-----------------------------------------------------------------------------
(***************************************************************************)
(* Filtering. The library's induction theorems take a predicate as a       *)
(* parameter, which the provers cannot instantiate; inductions are over    *)
(* the set of the sequences, or numbers, that are good.                    *)
(***************************************************************************)
LEMMA LeastNumber ==
  ASSUME NEW N \in SUBSET Nat, N # {}
  PROVE  \E n \in N : \A m \in N : n <= m
<1>1. PICK n \in N : \A m \in N : <<m, n>> \notin OpToRel(<, Nat)
  BY NatLessThanWellFounded, WFMin
<1>2. ASSUME NEW m \in N PROVE n <= m
  <2>1. m \in Nat /\ n \in Nat /\ ~ (m < n)
    BY <1>1 DEF OpToRel
  <2> QED
    BY <2>1
<1> QED
  BY <1>2

(***************************************************************************)
(* Induction over sequences, for a set of them instead of a predicate.     *)
(***************************************************************************)
LEMMA SequenceInduction ==
  ASSUME NEW X, NEW G \in SUBSET Seq(X), <<>> \in G,
         \A s \in G : \A x \in X : Append(s, x) \in G
  PROVE  G = Seq(X)
<1> DEFINE Bad == {n \in Nat : \E s \in Seq(X) : Len(s) = n /\ s \notin G}
<1>1. SUFFICES ASSUME Bad # {} PROVE FALSE
  <2>1. ASSUME NEW s \in Seq(X), s \notin G PROVE FALSE
    <3>1. Len(s) \in Nat
      BY LenProperties
    <3> QED
      BY <1>1, <2>1, <3>1
  <2> QED
    BY <2>1
<1>2. PICK n \in Bad : \A m \in Bad : n <= m
  <2>1. Bad \in SUBSET Nat
    OBVIOUS
  <2> HIDE DEF Bad
  <2> QED
    BY <1>1, <2>1, LeastNumber
<1>3. PICK s \in Seq(X) : Len(s) = n /\ s \notin G
  BY <1>2
<1>4. PICK t \in Seq(X), x \in X : s = Append(t, x)
  BY <1>3, SequenceEmptyOrAppend
<1>5. Len(t) \in Nat /\ Len(s) = Len(t) + 1
  BY <1>4, LenProperties, AppendProperties
<1>6. t \notin G
  BY <1>3, <1>4
<1>7. Len(t) \in Bad
  BY <1>5, <1>6
<1> HIDE DEF Bad
<1> QED
  BY <1>2, <1>3, <1>5, <1>7

(***************************************************************************)
(* f keeps what is in S of every beginning of s: the defining equations.   *)
(***************************************************************************)
Keeps(f, s, S, X) ==
  /\ f \in [0..Len(s) -> Seq(X)]
  /\ f[0] = <<>>
  /\ \A n \in 1..Len(s) : f[n] = IF s[n] \in S THEN Append(f[n - 1], s[n]) ELSE f[n - 1]

\* What is kept of a list extends to the list with one more member.
LEMMA KeeperExtends ==
  ASSUME NEW X, NEW S, NEW s \in Seq(X), NEW x \in X, NEW f, Keeps(f, s, S, X)
  PROVE  Keeps([n \in 0..(Len(s) + 1) |->
                  IF n <= Len(s) THEN f[n] ELSE IF x \in S THEN Append(f[Len(s)], x) ELSE f[Len(s)]],
               Append(s, x), S, X)
<1> DEFINE last == IF x \in S THEN Append(f[Len(s)], x) ELSE f[Len(s)]
           g == [n \in 0..(Len(s) + 1) |-> IF n <= Len(s) THEN f[n] ELSE last]
<1>1. /\ Len(s) \in Nat /\ Len(Append(s, x)) = Len(s) + 1
      /\ \A n \in 1..Len(s) : Append(s, x)[n] = s[n]
      /\ Append(s, x)[Len(s) + 1] = x
  BY LenProperties, AppendProperties
<1>2. /\ \A n \in 0..Len(s) : f[n] \in Seq(X)
      /\ f[0] = <<>>
      /\ \A n \in 1..Len(s) : f[n] = IF s[n] \in S THEN Append(f[n - 1], s[n]) ELSE f[n - 1]
  BY DEF Keeps
<1>3. f[Len(s)] \in Seq(X)
  BY <1>1, <1>2
<1>4. last \in Seq(X)
  BY <1>3, AppendProperties
<1>5. /\ \A n \in 0..Len(s) : g[n] = f[n]
      /\ g[Len(s) + 1] = last
  BY <1>1
<1>6. g \in [0..(Len(s) + 1) -> Seq(X)]
  BY <1>1, <1>2, <1>4
<1>7. ASSUME NEW n \in 1..(Len(s) + 1)
      PROVE  g[n] = IF Append(s, x)[n] \in S THEN Append(g[n - 1], Append(s, x)[n]) ELSE g[n - 1]
  <2>1. CASE n \in 1..Len(s)
    <3>1. n - 1 \in 0..Len(s) /\ n \in 0..Len(s)
      BY <1>1, <2>1
    <3>2. g[n] = f[n] /\ g[n - 1] = f[n - 1] /\ Append(s, x)[n] = s[n]
      BY <1>1, <1>5, <2>1, <3>1
    <3> QED
      BY <1>2, <2>1, <3>2
  <2>2. CASE n = Len(s) + 1
    <3>1. n - 1 = Len(s) /\ Len(s) \in 0..Len(s)
      BY <1>1, <2>2
    <3>2. g[n] = last /\ g[n - 1] = f[Len(s)] /\ Append(s, x)[n] = x
      BY <1>1, <1>5, <2>2, <3>1
    <3> HIDE DEF g
    <3> QED
      BY <3>2
  <2> QED
    BY <1>1, <2>1, <2>2
<1>8. g[0] = <<>>
  BY <1>1, <1>2, <1>5
<1> HIDE DEF g
<1>9. Keeps(g, Append(s, x), S, X)
  BY <1>1, <1>6, <1>7, <1>8 DEF Keeps
<1> QED
  BY <1>9 DEF g

\* There is a function that gives what is kept of every prefix.
LEMMA KeeperExists ==
  ASSUME NEW X, NEW S, NEW s \in Seq(X)
  PROVE  \E f : Keeps(f, s, S, X)
<1> DEFINE G == {t \in Seq(X) : \E f : Keeps(f, t, S, X)}
<1>1. <<>> \in G
  <2>1. <<>> \in Seq(X) /\ Len(<<>>) = 0
    BY EmptySeq
  <2> DEFINE f == [n \in 0..0 |-> <<>>]
  <2>2. f \in [0..0 -> Seq(X)] /\ f[0] = <<>> /\ 1..0 = {}
    BY <2>1
  <2>3. Keeps(f, <<>>, S, X)
    BY <2>1, <2>2 DEF Keeps
  <2> QED
    BY <2>1, <2>3
<1>2. ASSUME NEW t \in G, NEW x \in X PROVE Append(t, x) \in G
  <2>1. PICK f : Keeps(f, t, S, X)
    BY <1>2
  <2>2. t \in Seq(X)
    BY <1>2
  <2>3. \E g : Keeps(g, Append(t, x), S, X)
    BY <2>1, <2>2, KeeperExtends
  <2>4. Append(t, x) \in Seq(X)
    BY <2>2, AppendProperties
  <2> QED
    BY <2>3, <2>4
<1>3. G = Seq(X)
  <2>1. G \in SUBSET Seq(X)
    OBVIOUS
  <2> HIDE DEF G
  <2> QED
    BY <1>1, <1>2, <2>1, SequenceInduction
<1> QED
  BY <1>3

\* The recursive function of SequenceFilter satisfies its equations.
LEMMA KeptUpToKeeps ==
  ASSUME NEW X, NEW S, NEW s \in Seq(X)
  PROVE  Keeps(KeptUpTo(s, S), s, S, X)
<1> DEFINE Body(h, n) == IF n = 0 THEN <<>>
                         ELSE IF s[n] \in S THEN Append(h[n - 1], s[n]) ELSE h[n - 1]
           F(h) == [n \in 0..Len(s) |-> Body(h, n)]
           g == KeptUpTo(s, S)
<1>1. PICK f : Keeps(f, s, S, X)
  BY KeeperExists
<1>2. Len(s) \in Nat
  BY LenProperties
<1>3. f = F(f)
  <2>1. ASSUME NEW n \in 0..Len(s) PROVE f[n] = Body(f, n)
    <3>1. CASE n = 0
      BY <1>1, <3>1 DEF Keeps
    <3>2. CASE n # 0
      <4>1. n \in 1..Len(s)
        BY <1>2, <3>2
      <4> QED
        BY <1>1, <3>2, <4>1 DEF Keeps
    <3> QED
      BY <3>1, <3>2
  <2>2. f = [n \in 0..Len(s) |-> f[n]]
    BY <1>1 DEF Keeps
  <2> HIDE DEF Body
  <2> QED
    BY <2>1, <2>2
<1>4. g = CHOOSE h : h = F(h)
  BY Zenon DEF KeptUpTo
<1>5. g = F(g)
  <2> HIDE DEF g, F
  <2> QED
    BY <1>3, <1>4
<1> HIDE DEF g
<1>6. /\ DOMAIN g = 0..Len(s) /\ g[0] = <<>>
      /\ \A n \in 1..Len(s) : g[n] = IF s[n] \in S THEN Append(g[n - 1], s[n]) ELSE g[n - 1]
  <2>1. DOMAIN g = 0..Len(s) /\ \A n \in 0..Len(s) : g[n] = Body(g, n)
    <3> HIDE DEF Body
    <3> QED
      BY <1>5
  <2>2. 0 \in 0..Len(s) /\ \A n \in 1..Len(s) : n \in 0..Len(s) /\ n # 0
    BY <1>2
  <2> QED
    BY <2>1, <2>2
<1>7. \A n \in 0..Len(s) : g[n] = f[n]
  <2> DEFINE Bad == {n \in 0..Len(s) : g[n] # f[n]}
  <2>1. SUFFICES ASSUME Bad # {} PROVE FALSE
    OBVIOUS
  <2>2. PICK n \in Bad : \A m \in Bad : n <= m
    <3>1. Bad \in SUBSET Nat
      BY <1>2
    <3> HIDE DEF Bad
    <3> QED
      BY <2>1, <3>1, LeastNumber
  <2>3. n \in 0..Len(s) /\ n # 0
    BY <1>1, <1>6, <2>2 DEF Keeps
  <2>4. n \in 1..Len(s) /\ n - 1 \in 0..Len(s) /\ ~ (n <= n - 1)
    BY <1>2, <2>3
  <2>5. g[n - 1] = f[n - 1]
    BY <2>2, <2>4
  <2>6. g[n] = f[n]
    BY <1>1, <1>6, <2>4, <2>5 DEF Keeps
  <2> QED
    BY <2>2, <2>6
<1>8. g = f
  <2>1. DOMAIN f = 0..Len(s) /\ f = [n \in 0..Len(s) |-> f[n]]
    BY <1>1 DEF Keeps
  <2>2. g = [n \in 0..Len(s) |-> g[n]]
    <3>1. g = [n \in 0..Len(s) |-> Body(g, n)]
      BY <1>5
    <3> HIDE DEF Body
    <3> QED
      BY <3>1
  <2> QED
    BY <1>7, <2>1, <2>2
<1> QED
  BY <1>1, <1>8 DEF g

(***************************************************************************)
(* What the models use: the filter of nothing, of one more, of a filter.   *)
(***************************************************************************)
LEMMA OnlyInEmpty == ASSUME NEW S PROVE OnlyIn(<<>>, S) = <<>>
<1>1. <<>> \in Seq({}) /\ Len(<<>>) = 0
  BY EmptySeq
<1>2. Keeps(KeptUpTo(<<>>, S), <<>>, S, {})
  BY <1>1, KeptUpToKeeps
<1> QED
  BY <1>1, <1>2 DEF Keeps, OnlyIn

\* A new member is kept at the end, or not at all.
LEMMA OnlyInAppend ==
  ASSUME NEW X, NEW S, NEW s \in Seq(X), NEW x \in X
  PROVE  OnlyIn(Append(s, x), S) = IF x \in S THEN Append(OnlyIn(s, S), x) ELSE OnlyIn(s, S)
<1> DEFINE t == Append(s, x)  f == KeptUpTo(s, S)  h == KeptUpTo(t, S)
<1>1. /\ t \in Seq(X) /\ Len(t) = Len(s) + 1 /\ Len(s) \in Nat
      /\ \A n \in 1..Len(s) : t[n] = s[n]
      /\ t[Len(s) + 1] = x
  BY LenProperties, AppendProperties
<1>2. Keeps(f, s, S, X) /\ Keeps(h, t, S, X)
  BY <1>1, KeptUpToKeeps
<1> HIDE DEF t, f, h
<1>3. \A n \in 0..Len(s) : h[n] = f[n]
  <2> DEFINE Bad == {n \in 0..Len(s) : h[n] # f[n]}
  <2>1. SUFFICES ASSUME Bad # {} PROVE FALSE
    OBVIOUS
  <2>2. PICK n \in Bad : \A m \in Bad : n <= m
    <3>1. Bad \in SUBSET Nat
      BY <1>1
    <3> HIDE DEF Bad
    <3> QED
      BY <2>1, <3>1, LeastNumber
  <2>3. n \in 0..Len(s) /\ n # 0
    BY <1>2, <2>2 DEF Keeps
  <2>4. n \in 1..Len(s) /\ n \in 1..Len(t) /\ n - 1 \in 0..Len(s) /\ ~ (n <= n - 1)
    BY <1>1, <2>3
  <2>5. h[n - 1] = f[n - 1] /\ t[n] = s[n]
    BY <1>1, <2>2, <2>4
  <2>6. h[n] = f[n]
    BY <1>2, <2>4, <2>5 DEF Keeps
  <2> QED
    BY <2>2, <2>6
<1>4. Len(t) \in 1..Len(t) /\ Len(t) - 1 = Len(s) /\ Len(s) \in 0..Len(s)
  BY <1>1
<1>5. h[Len(t)] = IF x \in S THEN Append(h[Len(s)], x) ELSE h[Len(s)]
  BY <1>1, <1>2, <1>4 DEF Keeps
<1>6. h[Len(s)] = f[Len(s)]
  BY <1>3, <1>4
<1> QED
  BY <1>5, <1>6 DEF OnlyIn, t, f, h

\* What is kept is in the set and of the type of the list.
LEMMA OnlyInType ==
  ASSUME NEW X, NEW S, NEW s \in Seq(X)
  PROVE  OnlyIn(s, S) \in Seq(X \cap S) /\ OnlyIn(s, S) \in Seq(X)
<1> DEFINE G == {t \in Seq(X) : OnlyIn(t, S) \in Seq(X \cap S)}
<1>1. <<>> \in G
  BY EmptySeq, OnlyInEmpty
<1>2. ASSUME NEW t \in G, NEW x \in X PROVE Append(t, x) \in G
  <2>1. t \in Seq(X) /\ OnlyIn(t, S) \in Seq(X \cap S)
    BY <1>2
  <2>2. Append(t, x) \in Seq(X)
    BY <2>1, AppendProperties
  <2>3. x \in S => Append(OnlyIn(t, S), x) \in Seq(X \cap S)
    BY <2>1, AppendProperties
  <2>4. OnlyIn(Append(t, x), S) = IF x \in S THEN Append(OnlyIn(t, S), x) ELSE OnlyIn(t, S)
    BY <2>1, OnlyInAppend
  <2>5. OnlyIn(Append(t, x), S) \in Seq(X \cap S)
    BY <2>1, <2>3, <2>4
  <2> QED
    BY <2>2, <2>5
<1>3. G = Seq(X)
  <2>1. G \in SUBSET Seq(X)
    OBVIOUS
  <2> HIDE DEF G
  <2> QED
    BY <1>1, <1>2, <2>1, SequenceInduction
<1>4. OnlyIn(s, S) \in Seq(X \cap S)
  BY <1>3
<1>5. X \cap S \subseteq X
  OBVIOUS
<1> QED
  BY <1>4, <1>5, SeqMonotonic

\* A filter of a filter keeps what both keep.
LEMMA OnlyInTwice ==
  ASSUME NEW X, NEW S, NEW T, NEW s \in Seq(X)
  PROVE  OnlyIn(OnlyIn(s, S), T) = OnlyIn(s, S \cap T)
<1>a. ASSUME NEW k \in Seq(X), NEW x \in X
      PROVE  OnlyIn(Append(k, x), T) = IF x \in T THEN Append(OnlyIn(k, T), x) ELSE OnlyIn(k, T)
  BY OnlyInAppend
<1> DEFINE G == {t \in Seq(X) : OnlyIn(OnlyIn(t, S), T) = OnlyIn(t, S \cap T)}
<1>1. <<>> \in G
  BY EmptySeq, OnlyInEmpty
<1>2. ASSUME NEW t \in G, NEW x \in X PROVE Append(t, x) \in G
  <2>1. t \in Seq(X) /\ OnlyIn(OnlyIn(t, S), T) = OnlyIn(t, S \cap T)
    BY <1>2
  <2>2. Append(t, x) \in Seq(X) /\ OnlyIn(t, S) \in Seq(X)
    BY <2>1, AppendProperties, OnlyInType
  <2>3. /\ OnlyIn(Append(t, x), S) = IF x \in S THEN Append(OnlyIn(t, S), x) ELSE OnlyIn(t, S)
        /\ OnlyIn(Append(t, x), S \cap T)
             = IF x \in S \cap T THEN Append(OnlyIn(t, S \cap T), x) ELSE OnlyIn(t, S \cap T)
    BY <2>1, OnlyInAppend
  <2>4. OnlyIn(Append(OnlyIn(t, S), x), T)
          = IF x \in T THEN Append(OnlyIn(OnlyIn(t, S), T), x) ELSE OnlyIn(OnlyIn(t, S), T)
    BY <1>a, <2>2
  <2>5. OnlyIn(OnlyIn(Append(t, x), S), T) = OnlyIn(Append(t, x), S \cap T)
    <3>1. CASE x \in S
      <4>1. OnlyIn(Append(t, x), S) = Append(OnlyIn(t, S), x) /\ (x \in S \cap T <=> x \in T)
        BY <2>3, <3>1
      <4>2. OnlyIn(OnlyIn(Append(t, x), S), T)
              = IF x \in T THEN Append(OnlyIn(t, S \cap T), x) ELSE OnlyIn(t, S \cap T)
        BY <2>1, <2>4, <4>1
      <4> QED
        BY <2>3, <4>1, <4>2
    <3>2. CASE x \notin S
      <4>1. OnlyIn(Append(t, x), S) = OnlyIn(t, S)
            /\ OnlyIn(Append(t, x), S \cap T) = OnlyIn(t, S \cap T)
        BY <2>3, <3>2
      <4> QED
        BY <2>1, <4>1
    <3> QED
      BY <3>1, <3>2
  <2> QED
    BY <2>2, <2>5
<1>3. G = Seq(X)
  <2>1. G \in SUBSET Seq(X)
    OBVIOUS
  <2> HIDE DEF G
  <2> QED
    BY <1>1, <1>2, <2>1, SequenceInduction
<1> QED
  BY <1>3

\* How much is kept.
LEMMA OnlyInLength ==
  ASSUME NEW X, NEW S, NEW s \in Seq(X)
  PROVE  /\ Len(OnlyIn(s, S)) \in Nat /\ Len(s) \in Nat
         /\ Len(OnlyIn(s, S)) <= Len(s)
         /\ (\E i \in 1..Len(s) : s[i] \notin S) => Len(OnlyIn(s, S)) < Len(s)
<1> DEFINE Good(t) == /\ Len(OnlyIn(t, S)) <= Len(t)
                      /\ (\E i \in 1..Len(t) : t[i] \notin S) => Len(OnlyIn(t, S)) < Len(t)
           G == {t \in Seq(X) : Good(t)}
<1>1. <<>> \in G
  <2>1. Len(<<>>) = 0 /\ OnlyIn(<<>>, S) = <<>> /\ 1..0 = {} /\ <<>> \in Seq(X)
    BY EmptySeq, OnlyInEmpty
  <2> QED
    BY <2>1
<1>2. ASSUME NEW t \in G, NEW x \in X PROVE Append(t, x) \in G
  <2>1. t \in Seq(X) /\ Good(t)
    BY <1>2
  <2>2. OnlyIn(t, S) \in Seq(X)
    BY <2>1, OnlyInType
  <2>3. Len(t) \in Nat /\ Len(OnlyIn(t, S)) \in Nat
    BY <2>1, <2>2, LenProperties
  <2>4. /\ Append(t, x) \in Seq(X) /\ Len(Append(t, x)) = Len(t) + 1
        /\ \A i \in 1..Len(t) : Append(t, x)[i] = t[i]
        /\ Append(t, x)[Len(t) + 1] = x
    BY <2>1, AppendProperties
  <2>5. Len(OnlyIn(Append(t, x), S)) = IF x \in S THEN Len(OnlyIn(t, S)) + 1 ELSE Len(OnlyIn(t, S))
    <3>1. Len(Append(OnlyIn(t, S), x)) = Len(OnlyIn(t, S)) + 1
      BY <2>2, AppendProperties
    <3> QED
      BY <2>1, <3>1, OnlyInAppend
  <2>6. ASSUME NEW i \in 1..(Len(t) + 1), Append(t, x)[i] \notin S
        PROVE  x \notin S \/ \E j \in 1..Len(t) : t[j] \notin S
    <3>1. i = Len(t) + 1 \/ i \in 1..Len(t)
      BY <2>3
    <3> QED
      BY <2>4, <2>6, <3>1
  <2>7. Good(Append(t, x))
    <3>1. Len(OnlyIn(t, S)) <= Len(t)
      BY <2>1
    <3>2. (\E j \in 1..Len(t) : t[j] \notin S) => Len(OnlyIn(t, S)) < Len(t)
      BY <2>1
    <3> HIDE DEF Good
    <3>3. Len(OnlyIn(Append(t, x), S)) <= Len(Append(t, x))
      BY <2>3, <2>4, <2>5, <3>1
    <3>4. ASSUME \E i \in 1..Len(Append(t, x)) : Append(t, x)[i] \notin S
          PROVE  Len(OnlyIn(Append(t, x), S)) < Len(Append(t, x))
      <4>1. x \notin S \/ Len(OnlyIn(t, S)) < Len(t)
        BY <2>4, <2>6, <3>2, <3>4
      <4> QED
        BY <2>3, <2>4, <2>5, <3>1, <4>1
    <3> QED
      BY <3>3, <3>4 DEF Good
  <2> QED
    BY <2>4, <2>7
<1>3. G = Seq(X)
  <2>1. G \in SUBSET Seq(X)
    OBVIOUS
  <2> HIDE DEF G
  <2> QED
    BY <1>1, <1>2, <2>1, SequenceInduction
<1>4. OnlyIn(s, S) \in Seq(X)
  BY OnlyInType
<1>5. Len(OnlyIn(s, S)) \in Nat /\ Len(s) \in Nat
  BY <1>4, LenProperties
<1>6. Good(s)
  BY <1>3
<1> QED
  BY <1>5, <1>6

-----------------------------------------------------------------------------
(***************************************************************************)
(* The load balancer.                                                      *)
(***************************************************************************)
BalancerTypeOK ==
  /\ backends \in Seq(BackendIds)
  /\ counts \in [BackendIds -> Nat \cup {Unset}]
  /\ open \in [BackendIds -> Nat] /\ stale \in [BackendIds -> Nat]
  /\ index \in Nat

\* A listed backend has a count, so that get_backend finds one to count up.
ListedAreCounted == backends \in Seq({b \in BackendIds : counts[b] # Unset})

\* Entry i of n is one of the k that were picked last when the index is x.
PickedLast(x, i, k, n) ==
  \/ i <= x % n /\ i > (x % n) - k
  \/ i > (x % n) + n - k

\* The entries that had a turn in this round are those before the index, with
\* the last entries before the first.
TurnsInOrder ==
  /\ DOMAIN turns = DOMAIN Healthy
  /\ Healthy # <<>> =>
       \E k \in 0 .. (Len(Healthy) - 1) : \A i \in 1..Len(Healthy) :
         turns[i] = IF PickedLast(index, i, k, Len(Healthy)) THEN 1 ELSE 0

BalancerInv == BalancerTypeOK /\ ListedAreCounted /\ CountsFollowConnections /\ TurnsInOrder

---------------------------------------------------------------------------
(***************************************************************************)
(* Counting round and round.                                               *)
(***************************************************************************)
LEMMA Division ==
  ASSUME NEW n \in Nat \ {0}, NEW a \in Nat
  PROVE  \E q \in Nat, r \in 0..(n - 1) : a = n * q + r
<1>1. a \div n \in Nat /\ (a \div n) * n <= a /\ a < (a \div n + 1) * n
  OBVIOUS
<1>2. PICK q \in Nat : q * n <= a /\ a < (q + 1) * n
  BY <1>1
<1>3. a - n * q \in 0..(n - 1) /\ a = n * q + (a - n * q)
  BY <1>2
<1> QED
  BY <1>2, <1>3

\* A remainder is known from the quotient.
LEMMA Remainder ==
  ASSUME NEW n \in Nat \ {0}, NEW q \in Nat, NEW r \in 0..(n - 1), NEW a, a = n * q + r
  PROVE  a % n = r
OBVIOUS

\* The turn after the last one is the first.
LEMMA NextRemainder ==
  ASSUME NEW n \in Nat \ {0}, NEW a \in Nat
  PROVE  /\ a % n \in 0..(n - 1) /\ (a + 1) % n \in Nat
         /\ ((a + 1) % n) % n = IF a % n = n - 1 THEN 0 ELSE (a % n) + 1
<1> PICK q \in Nat, r \in 0..(n - 1) : a = n * q + r
  BY Division
<1>1. a % n = r
  BY Remainder
<1>2. (a + 1) % n = IF r = n - 1 THEN 0 ELSE r + 1
  <2>1. CASE r # n - 1
    <3>1. r + 1 \in 0..(n - 1) /\ a + 1 = n * q + (r + 1)
      BY <2>1
    <3> QED
      BY <2>1, <3>1
  <2>2. CASE r = n - 1
    <3>1. a + 1 = n * (q + 1) + 0 /\ q + 1 \in Nat
      BY <2>2
    <3>2. (n * (q + 1) + 0) % n = 0
      OBVIOUS
    <3> QED
      BY <2>2, <3>1, <3>2
  <2> QED
    BY <2>1, <2>2
<1>3. (a + 1) % n \in 0..(n - 1)
  OBVIOUS
<1>4. \A m \in 0..(n - 1) : m % n = m
  OBVIOUS
<1> QED
  BY <1>1, <1>2, <1>3, <1>4

---------------------------------------------------------------------------
(***************************************************************************)
(* What get_backend may pick is an entry.                                  *)
(***************************************************************************)
LEMMA HealthyAreEntries ==
  ASSUME BalancerTypeOK
  PROVE  /\ Healthy \in Seq(BackendIds)
         /\ Len(Healthy) \in Nat /\ DOMAIN Healthy = 1..Len(Healthy)
         /\ Healthy # <<>> => Len(Healthy) \in Nat \ {0}
<1>1. backends \in Seq(BackendIds)
  BY DEF BalancerTypeOK
<1>2. Healthy \in Seq(BackendIds)
  BY <1>1, OnlyInType DEF Healthy
<1> QED
  BY <1>2, LenProperties, EmptySeq

\* Every healthy entry has a count.
LEMMA HealthyAreCounted ==
  ASSUME BalancerTypeOK, ListedAreCounted, NEW i \in 1..Len(Healthy)
  PROVE  Healthy[i] \in BackendIds /\ counts[Healthy[i]] \in Nat
<1> DEFINE C == {b \in BackendIds : counts[b] # Unset}
<1>1. backends \in Seq(C)
  BY DEF ListedAreCounted
<1>2. Healthy \in Seq(C)
  BY <1>1, OnlyInType DEF Healthy
<1>3. Healthy[i] \in C
  BY <1>2, ElementOfSeq
<1> QED
  BY <1>3 DEF BalancerTypeOK

\* The least connections are those of an entry.
LEMMA LeastIsEntry ==
  ASSUME NEW hs \in Seq(BackendIds), hs # <<>>, BalancerTypeOK
  PROVE  LeastConnections(hs) \in DOMAIN hs
<1>1. /\ Len(hs) \in Nat \ {0} /\ DOMAIN hs = 1..Len(hs)
      /\ \A i \in 1..Len(hs) : hs[i] \in BackendIds
  BY LenProperties, EmptySeq, ElementOfSeq
<1>2. \A i \in DOMAIN hs : Count(hs[i]) \in Nat
  BY <1>1 DEF Count, BalancerTypeOK
<1> DEFINE N == {Count(hs[i]) : i \in DOMAIN hs}
<1>3. PICK m \in N : \A k \in N : m <= k
  <2>1. N \in SUBSET Nat /\ N # {}
    <3>1. 1 \in DOMAIN hs
      BY <1>1
    <3> QED
      BY <1>2, <3>1
  <2> HIDE DEF N
  <2> QED
    BY <2>1, LeastNumber
<1> DEFINE I == {i \in DOMAIN hs : Count(hs[i]) = m}
<1>4. PICK i \in I : \A j \in I : i <= j
  <2>1. I \in SUBSET Nat /\ I # {}
    BY <1>1, <1>3
  <2> HIDE DEF I
  <2> QED
    BY <2>1, LeastNumber
<1>5. ASSUME NEW j \in DOMAIN hs
      PROVE  Count(hs[i]) < Count(hs[j]) \/ (Count(hs[i]) = Count(hs[j]) /\ i <= j)
  <2>1. Count(hs[i]) = m /\ m <= Count(hs[j]) /\ m \in Nat /\ Count(hs[j]) \in Nat
    BY <1>2, <1>3, <1>4
  <2>2. CASE m = Count(hs[j])
    <3>1. j \in I
      BY <2>2
    <3> QED
      BY <1>4, <2>1, <2>2, <3>1
  <2>3. CASE m # Count(hs[j])
    BY <2>1, <2>3
  <2> QED
    BY <2>2, <2>3
<1>6. i \in DOMAIN hs
  BY <1>4
<1> HIDE DEF N, I
<1> QED
  BY <1>5, <1>6 DEF LeastConnections

\* Whatever the algorithm, an entry of the healthy ones is picked.
LEMMA PicksAreEntries ==
  ASSUME BalancerTypeOK, Healthy # <<>>
  PROVE  Picks(Healthy) \subseteq 1..Len(Healthy)
<1>1. /\ Healthy \in Seq(BackendIds)
      /\ Len(Healthy) \in Nat \ {0} /\ DOMAIN Healthy = 1..Len(Healthy)
  BY HealthyAreEntries
<1>2. RoundRobin(Healthy) \in 1..Len(Healthy)
  <2>1. index % Len(Healthy) \in 0..(Len(Healthy) - 1)
    BY <1>1, NextRemainder DEF BalancerTypeOK
  <2> QED
    BY <1>1, <2>1 DEF RoundRobin
<1>3. LeastConnections(Healthy) \in 1..Len(Healthy)
  <2> PICK hs : hs = Healthy
    OBVIOUS
  <2> QED
    BY <1>1, LeastIsEntry
<1>4. 1 \in 1..Len(Healthy)
  BY <1>1
<1> QED
  BY <1>1, <1>2, <1>3, <1>4 DEF Picks

---------------------------------------------------------------------------
(***************************************************************************)
(* Types, and that listed backends have counts, step by step.              *)
(***************************************************************************)
CountsKept == BalancerTypeOK /\ ListedAreCounted /\ CountsFollowConnections

\* A backend that is added starts with the count of nobody's connections.
LEMMA AddKeepsCounts == ASSUME CountsKept, NEW b \in BackendIds, AddBackend(b) PROVE CountsKept'
<1>1. BalancerTypeOK /\ ListedAreCounted /\ CountsFollowConnections
  BY DEF CountsKept
<1>2. /\ backends' = Append(backends, b) /\ counts' = [counts EXCEPT ![b] = 0]
      /\ stale' = [stale EXCEPT ![b] = open[b]] /\ UNCHANGED <<index, open>>
  BY DEF AddBackend
<1>3. BalancerTypeOK'
  <2>1. backends' \in Seq(BackendIds)
    BY <1>1, <1>2, AppendProperties DEF BalancerTypeOK
  <2> QED
    BY <1>1, <1>2, <2>1 DEF BalancerTypeOK
<1>4. ListedAreCounted'
  <2> DEFINE C == {c \in BackendIds : counts[c] # Unset}  D == {c \in BackendIds : counts'[c] # Unset}
  <2>1. C \subseteq D /\ b \in D
    BY <1>1, <1>2, BalancerConstants DEF BalancerTypeOK, BalancerConstants
  <2>2. backends \in Seq(C)
    BY <1>1 DEF ListedAreCounted
  <2> HIDE DEF C, D
  <2>3. backends \in Seq(D)
    BY <2>1, <2>2, SeqMonotonic
  <2>4. backends' \in Seq(D)
    BY <1>2, <2>1, <2>3, AppendProperties
  <2> QED
    BY <2>4 DEF D, ListedAreCounted
<1>5. CountsFollowConnections'
  <2> SUFFICES ASSUME NEW c \in BackendIds, counts'[c] # Unset
               PROVE  counts'[c] <= open'[c] /\ open'[c] <= counts'[c] + stale'[c]
    BY DEF CountsFollowConnections
  <2>1. open[c] \in Nat
    BY <1>1 DEF BalancerTypeOK
  <2>2. CASE c = b
    <3>1. counts'[c] = 0 /\ stale'[c] = open[c] /\ open'[c] = open[c]
      BY <1>1, <1>2, <2>2 DEF BalancerTypeOK
    <3> QED
      BY <2>1, <3>1
  <2>3. CASE c # b
    <3>1. counts'[c] = counts[c] /\ stale'[c] = stale[c] /\ open'[c] = open[c]
      BY <1>1, <1>2, <2>3 DEF BalancerTypeOK
    <3> QED
      BY <1>1, <3>1 DEF CountsFollowConnections
  <2> QED
    BY <2>2, <2>3
<1> QED
  BY <1>3, <1>4, <1>5 DEF CountsKept

\* A removed backend leaves the list, and its count stays in order.
LEMMA RemoveKeepsCounts == ASSUME CountsKept, NEW b \in BackendIds, RemoveBackend(b) PROVE CountsKept'
<1>1. BalancerTypeOK /\ ListedAreCounted /\ CountsFollowConnections
  BY DEF CountsKept
<1>2. /\ backends' = OnlyIn(backends, BackendIds \ {b}) /\ counts' = [counts EXCEPT ![b] = Unset]
      /\ stale' = [stale EXCEPT ![b] = 0] /\ UNCHANGED <<index, open>>
  BY DEF RemoveBackend
<1>3. BalancerTypeOK'
  <2>1. backends' \in Seq(BackendIds)
    BY <1>1, <1>2, OnlyInType DEF BalancerTypeOK
  <2> QED
    BY <1>1, <1>2, <2>1 DEF BalancerTypeOK
<1>4. ListedAreCounted'
  <2> DEFINE C == {c \in BackendIds : counts[c] # Unset}  D == {c \in BackendIds : counts'[c] # Unset}
             R == BackendIds \ {b}
  <2>1. C \cap R \subseteq D
    BY <1>1, <1>2 DEF BalancerTypeOK
  <2>2. backends \in Seq(C)
    BY <1>1 DEF ListedAreCounted
  <2>3. backends' = OnlyIn(backends, R)
    BY <1>2
  <2> HIDE DEF C, D, R
  <2>4. backends' \in Seq(C \cap R)
    BY <2>2, <2>3, OnlyInType
  <2>5. backends' \in Seq(D)
    BY <2>1, <2>4, SeqMonotonic
  <2> QED
    BY <2>5 DEF D, ListedAreCounted
<1>5. CountsFollowConnections'
  BY <1>1, <1>2 DEF CountsFollowConnections, BalancerTypeOK
<1> QED
  BY <1>3, <1>4, <1>5 DEF CountsKept

\* A pick counts the connection it opens.
LEMMA GetKeepsCounts == ASSUME CountsKept, GetBackend PROVE CountsKept'
<1>1. BalancerTypeOK /\ ListedAreCounted /\ CountsFollowConnections
  BY DEF CountsKept
<1>2. PICK i \in Picks(Healthy) :
        /\ counts' = [counts EXCEPT ![Healthy[i]] = @ + 1]
        /\ open' = [open EXCEPT ![Healthy[i]] = @ + 1]
        /\ IF algorithm = "round-robin" THEN index' = NextIndex(Healthy) /\ Turn(i)
                                       ELSE UNCHANGED <<index, turns>>
  BY DEF GetBackend
<1>3. Healthy # <<>> /\ backends' = backends /\ stale' = stale
  BY DEF GetBackend
<1>4. Healthy[i] \in BackendIds /\ counts[Healthy[i]] \in Nat
  BY <1>1, <1>2, <1>3, PicksAreEntries, HealthyAreCounted
<1> PICK h : h = Healthy[i]
  OBVIOUS
<1>5. h \in BackendIds /\ counts[h] \in Nat /\ open[h] \in Nat /\ stale[h] \in Nat
      /\ counts' = [counts EXCEPT ![h] = counts[h] + 1] /\ open' = [open EXCEPT ![h] = open[h] + 1]
  BY <1>1, <1>2, <1>4 DEF BalancerTypeOK
<1>6. counts[h] + 1 \in Nat /\ open[h] + 1 \in Nat /\ \A n \in Nat : n # Unset
  BY <1>5, BalancerConstants DEF BalancerConstants
<1>7. index' \in Nat
  <2>1. Len(Healthy) \in Nat \ {0}
    BY <1>1, <1>3, HealthyAreEntries
  <2>2. NextIndex(Healthy) \in Nat
    BY <1>1, <2>1, NextRemainder DEF NextIndex, BalancerTypeOK
  <2> QED
    BY <1>1, <1>2, <2>2 DEF BalancerTypeOK
<1>8. BalancerTypeOK'
  BY <1>1, <1>3, <1>5, <1>6, <1>7 DEF BalancerTypeOK
<1>9. ListedAreCounted'
  <2> DEFINE C == {c \in BackendIds : counts[c] # Unset}  D == {c \in BackendIds : counts'[c] # Unset}
  <2>1. C \subseteq D
    BY <1>1, <1>5, <1>6 DEF BalancerTypeOK
  <2>2. backends \in Seq(C)
    BY <1>1 DEF ListedAreCounted
  <2> HIDE DEF C, D
  <2>3. backends' \in Seq(D)
    BY <1>3, <2>1, <2>2, SeqMonotonic
  <2> QED
    BY <2>3 DEF D, ListedAreCounted
<1>10. CountsFollowConnections'
  <2> SUFFICES ASSUME NEW c \in BackendIds, counts'[c] # Unset
               PROVE  counts'[c] <= open'[c] /\ open'[c] <= counts'[c] + stale'[c]
    BY DEF CountsFollowConnections
  <2>1. CASE c = h
    <3>1. counts'[c] = counts[h] + 1 /\ open'[c] = open[h] + 1 /\ stale'[c] = stale[h]
      BY <1>1, <1>3, <1>5, <2>1 DEF BalancerTypeOK
    <3>2. counts[h] <= open[h] /\ open[h] <= counts[h] + stale[h]
      BY <1>1, <1>5, <1>6 DEF CountsFollowConnections
    <3> QED
      BY <1>5, <3>1, <3>2
  <2>2. CASE c # h
    <3>1. counts'[c] = counts[c] /\ open'[c] = open[c] /\ stale'[c] = stale[c]
      BY <1>1, <1>3, <1>5, <2>2 DEF BalancerTypeOK
    <3> QED
      BY <1>1, <3>1 DEF CountsFollowConnections
  <2> QED
    BY <2>1, <2>2
<1> QED
  BY <1>8, <1>9, <1>10 DEF CountsKept

\* A release uncounts the connection it closes.
LEMMA ReleaseKeepsCounts == ASSUME CountsKept, NEW b \in BackendIds, ReleaseBackend(b) PROVE CountsKept'
<1>1. BalancerTypeOK /\ ListedAreCounted /\ CountsFollowConnections
  BY DEF CountsKept
<1> PICK n : n = IF counts[b] = Unset THEN Unset ELSE IF counts[b] = 0 THEN 0 ELSE counts[b] - 1
  OBVIOUS
<1> PICK t : t = IF open[b] - 1 = 0 THEN 0 ELSE stale[b]
  OBVIOUS
<1>2. /\ open[b] > 0 /\ open' = [open EXCEPT ![b] = open[b] - 1]
      /\ counts' = [counts EXCEPT ![b] = n]
      /\ UNCHANGED <<backends, index>>
  BY <1>1 DEF ReleaseBackend, BalancerTypeOK
<1>3. open[b] \in Nat /\ stale[b] \in Nat /\ (counts[b] # Unset => counts[b] \in Nat)
  BY <1>1 DEF BalancerTypeOK
<1>4. open[b] - 1 \in Nat /\ t \in Nat
  BY <1>2, <1>3
<1>5. stale' = [stale EXCEPT ![b] = t]
  <2>1. open'[b] = open[b] - 1
    BY <1>1, <1>2 DEF BalancerTypeOK
  <2> QED
    BY <1>1, <2>1 DEF ReleaseBackend, BalancerTypeOK
<1>6. n \in Nat \cup {Unset} /\ (n = Unset <=> counts[b] = Unset)
  <2>1. \A m \in Nat : m # Unset
    BY BalancerConstants DEF BalancerConstants
  <2>2. CASE counts[b] = Unset
    BY <2>2
  <2>3. CASE counts[b] # Unset
    <3>1. counts[b] \in Nat /\ n = IF counts[b] = 0 THEN 0 ELSE counts[b] - 1
      BY <1>3, <2>3
    <3>2. n \in Nat
      BY <3>1
    <3> QED
      BY <2>1, <2>3, <3>2
  <2> QED
    BY <2>2, <2>3
<1>7. BalancerTypeOK'
  BY <1>1, <1>2, <1>4, <1>5, <1>6 DEF BalancerTypeOK
<1>8. ListedAreCounted'
  <2>1. {c \in BackendIds : counts'[c] # Unset} = {c \in BackendIds : counts[c] # Unset}
    BY <1>1, <1>2, <1>6 DEF BalancerTypeOK
  <2> QED
    BY <1>1, <1>2, <2>1 DEF ListedAreCounted
<1>9. CountsFollowConnections'
  <2> SUFFICES ASSUME NEW c \in BackendIds, counts'[c] # Unset
               PROVE  counts'[c] <= open'[c] /\ open'[c] <= counts'[c] + stale'[c]
    BY DEF CountsFollowConnections
  <2>1. CASE c = b
    <3>1. counts'[c] = n /\ open'[c] = open[b] - 1 /\ stale'[c] = t
      BY <1>1, <1>2, <1>5, <2>1 DEF BalancerTypeOK
    <3>2. counts[b] # Unset
      BY <1>6, <2>1, <3>1
    <3>3. counts[b] \in Nat /\ counts[b] <= open[b] /\ open[b] <= counts[b] + stale[b]
          /\ n = IF counts[b] = 0 THEN 0 ELSE counts[b] - 1
      BY <1>1, <1>3, <3>2 DEF CountsFollowConnections
    <3>4. n <= open[b] - 1 /\ open[b] - 1 <= n + t
      BY <1>2, <1>3, <3>3
    <3> QED
      BY <3>1, <3>4
  <2>2. CASE c # b
    <3>1. counts'[c] = counts[c] /\ open'[c] = open[c] /\ stale'[c] = stale[c]
      BY <1>1, <1>2, <1>5, <2>2 DEF BalancerTypeOK
    <3> QED
      BY <1>1, <3>1 DEF CountsFollowConnections
  <2> QED
    BY <2>1, <2>2
<1> QED
  BY <1>7, <1>8, <1>9 DEF CountsKept

\* Every step of the balancer keeps the counts.
LEMMA CountsStep == ASSUME CountsKept, [BalancerNext]_balancerVars PROVE CountsKept'
<1>1. ASSUME UNCHANGED <<backends, counts, index, open, stale>> PROVE CountsKept'
  BY <1>1 DEF CountsKept, BalancerTypeOK, ListedAreCounted, CountsFollowConnections
<1>2. ASSUME NEW b \in BackendIds,
             AddBackend(b) \/ RemoveBackend(b) \/ ReleaseBackend(b) \/ PortChanges(b)
      PROVE  CountsKept'
  <2>1. CASE PortChanges(b)
    BY <1>1, <2>1 DEF PortChanges, listed
  <2> QED
    BY <1>2, <2>1, AddKeepsCounts, RemoveKeepsCounts, ReleaseKeepsCounts
<1>3. ASSUME NEW a \in Algorithms, SetConfig(a) PROVE CountsKept'
  BY <1>1, <1>3 DEF SetConfig
<1>4. CASE StartHealthChecks \/ StopHealthChecks \/ CheckerStep \/ UNCHANGED balancerVars
  BY <1>1, <1>4 DEF StartHealthChecks, StopHealthChecks, CheckerStep, PortTried, ResultNoted, WakeUp,
                    balancerVars, listed
<1> QED
  BY <1>2, <1>3, <1>4, GetKeepsCounts DEF BalancerNext

---------------------------------------------------------------------------
(***************************************************************************)
(* The rounds of the round-robin.                                          *)
(***************************************************************************)
\* What changes the healthy entries begins a round.
LEMMA NewRound ==
  ASSUME BalancerTypeOK, TurnsInOrder, BalancerTypeOK', RoundsKept, index' = index
  PROVE  TurnsInOrder'
<1>1. CASE Healthy' = Healthy
  <2>1. turns' = turns
    BY <1>1 DEF RoundsKept
  <2> QED
    BY <1>1, <2>1 DEF TurnsInOrder, PickedLast
<1>2. CASE Healthy' # Healthy
  <2>1. turns' = [i \in DOMAIN Healthy' |-> 0]
    BY <1>2 DEF RoundsKept
  <2>2. /\ Len(Healthy') \in Nat /\ DOMAIN Healthy' = 1..Len(Healthy')
        /\ Healthy' # <<>> => Len(Healthy') \in Nat \ {0}
    <3>1. backends' \in Seq(BackendIds)
      BY DEF BalancerTypeOK
    <3>2. Healthy' \in Seq(BackendIds)
      BY <3>1, OnlyInType DEF Healthy
    <3> PICK h : h = Healthy'
      OBVIOUS
    <3>3. /\ Len(h) \in Nat /\ DOMAIN h = 1..Len(h)
          /\ h # <<>> => Len(h) \in Nat \ {0}
      BY <3>2, LenProperties, EmptySeq
    <3> QED
      BY <3>3
  <2>3. DOMAIN turns' = DOMAIN Healthy' /\ \A i \in 1..Len(Healthy') : turns'[i] = 0
    BY <2>1, <2>2
  <2>4. ASSUME Healthy' # <<>>
        PROVE  \E k \in 0..(Len(Healthy') - 1) : \A i \in 1..Len(Healthy') :
                 turns'[i] = IF PickedLast(index', i, k, Len(Healthy')) THEN 1 ELSE 0
    <3> PICK n, x : n = Len(Healthy') /\ x = index'
      OBVIOUS
    <3>1. n \in Nat \ {0} /\ x \in Nat
      BY <2>2, <2>4 DEF BalancerTypeOK
    <3>2. x % n \in 0..(n - 1)
      BY <3>1, NextRemainder
    <3>3. \A i \in 1..n : ~ (i <= x % n /\ i > (x % n) - 0) /\ ~ (i > (x % n) + n - 0)
      BY <3>1, <3>2
    <3>4. \A i \in 1..n : ~ PickedLast(index', i, 0, n)
      BY <3>3 DEF PickedLast
    <3>5. 0 \in 0..(n - 1)
      BY <3>1
    <3> QED
      BY <2>3, <3>4, <3>5
  <2> QED
    BY <2>2, <2>3, <2>4 DEF TurnsInOrder
<1> QED
  BY <1>1, <1>2

\* Entry i is one of the k that come before entry p + 1, in a circle of n.
Within(i, p, k, n) == (i <= p /\ i > p - k) \/ i > p + n - k

\* A turn of round robin goes to the entry whose last turn was longest ago.
LEMMA TurnTaken ==
  ASSUME BalancerTypeOK, TurnsInOrder, GetBackend PROVE TurnsInOrder'
<1>1. PICK i \in Picks(Healthy) :
        IF algorithm = "round-robin" THEN index' = NextIndex(Healthy) /\ Turn(i)
                                     ELSE UNCHANGED <<index, turns>>
  BY DEF GetBackend
<1>2. Healthy # <<>> /\ Healthy' = Healthy
  BY DEF GetBackend, Healthy
<1>3. CASE algorithm # "round-robin"
  BY <1>1, <1>2, <1>3 DEF TurnsInOrder, PickedLast
<1>4. CASE algorithm = "round-robin"
  <2>0. PICK n, p, q : n = Len(Healthy) /\ p = index % n /\ q = index' % n
    OBVIOUS
  <2>1. n \in Nat \ {0} /\ DOMAIN Healthy = 1..n
    BY <1>2, <2>0, HealthyAreEntries
  <2>2. index' = (index + 1) % n /\ index \in Nat
    BY <1>1, <1>4, <2>0 DEF NextIndex, BalancerTypeOK
  <2>3. p \in 0..(n - 1) /\ q = (IF p = n - 1 THEN 0 ELSE p + 1) /\ q \in 0..(n - 1)
    <3>1. p \in 0..(n - 1) /\ q = (IF p = n - 1 THEN 0 ELSE p + 1)
      BY <2>0, <2>1, <2>2, NextRemainder
    <3> QED
      BY <2>1, <3>1
  <2>4. i = p + 1 /\ i \in 1..n
    <3>1. i = RoundRobin(Healthy)
      BY <1>1, <1>4 DEF Picks
    <3> QED
      BY <2>0, <2>1, <2>3, <3>1 DEF RoundRobin
  <2>5. PICK k \in 0..(n - 1) : \A j \in 1..n : turns[j] = IF PickedLast(index, j, k, n) THEN 1 ELSE 0
    BY <1>2, <2>0 DEF TurnsInOrder
  <2> DEFINE Had(j) == Within(j, p, k, n)
             Has(j) == Within(j, q, k + 1, n)
             t == [turns EXCEPT ![i] = @ + 1]
  <2>6. \A j \in 1..n : turns[j] = IF Had(j) THEN 1 ELSE 0
    BY <2>0, <2>5 DEF PickedLast, Within
  <2>7. \A j \in 1..n : /\ j = i => ~ Had(j) /\ Has(j)
                        /\ j # i => (Has(j) <=> Had(j))
                        /\ k = n - 1 /\ j # i => Had(j)
    <3>1. ASSUME NEW j \in 1..n
          PROVE  /\ j = p + 1 => ~ Within(j, p, k, n) /\ Within(j, q, k + 1, n)
                 /\ j # p + 1 => (Within(j, q, k + 1, n) <=> Within(j, p, k, n))
                 /\ k = n - 1 /\ j # p + 1 => Within(j, p, k, n)
      <4>1. CASE p = n - 1
        BY <2>1, <2>3, <4>1 DEF Within
      <4>2. CASE p # n - 1
        BY <2>1, <2>3, <4>2 DEF Within
      <4> QED
        BY <4>1, <4>2
    <3> QED
      BY <2>4, <3>1
  <2>8. DOMAIN turns = 1..n
    BY <2>1 DEF TurnsInOrder
  <2> HIDE DEF Had, Has
  <2>9. DOMAIN t = 1..n /\ \A j \in 1..n : t[j] = IF Has(j) THEN 1 ELSE 0
    <3>1. DOMAIN t = 1..n /\ \A j \in 1..n : t[j] = IF j = i THEN turns[i] + 1 ELSE turns[j]
      BY <2>4, <2>8
    <3> HIDE DEF t
    <3>2. turns[i] + 1 = 1
      BY <2>4, <2>6, <2>7
    <3> QED
      BY <2>6, <2>7, <3>1, <3>2
  <2>10. turns' = IF \A j \in DOMAIN t : t[j] > 0 THEN [j \in DOMAIN t |-> t[j] - 1] ELSE t
    BY <1>1, <1>4 DEF Turn
  <2> HIDE DEF t
  <2>11. DOMAIN turns' = 1..n
    BY <2>9, <2>10
  <2>12. \A j \in 1..n, m \in 0..(n - 1) : PickedLast(index', j, m, n) <=> (j <= q /\ j > q - m) \/ j > q + n - m
    BY <2>0 DEF PickedLast
  <2>13. CASE k = n - 1
    <3>1. \A j \in 1..n : t[j] = 1
      BY <2>7, <2>9, <2>13
    <3>2. turns' = [j \in 1..n |-> t[j] - 1]
      BY <2>9, <2>10, <3>1
    <3>3. \A j \in 1..n : turns'[j] = 0
      BY <3>1, <3>2
    <3>4. \A j \in 1..n : ~ ((j <= q /\ j > q - 0) \/ j > q + n - 0)
      BY <2>1, <2>3
    <3>5. 0 \in 0..(n - 1)
      BY <2>1
    <3>6. \A j \in 1..n : turns'[j] = IF PickedLast(index', j, 0, n) THEN 1 ELSE 0
      BY <2>12, <3>3, <3>4, <3>5
    <3> QED
      BY <1>2, <2>1, <2>11, <3>5, <3>6 DEF TurnsInOrder
  <2>14. CASE k # n - 1
    <3>1. k + 1 \in 0..(n - 1)
      BY <2>1, <2>14
    <3>2. \E j \in 1..n : t[j] = 0
      <4>1. \E j \in 1..n : ~ Has(j)
        <5> DEFINE j == q + 1
        <5>1. j \in 1..n /\ ~ ((j <= q /\ j > q - (k + 1)) \/ j > q + n - (k + 1))
          BY <2>1, <2>3, <3>1
        <5> QED
          BY <5>1 DEF Has, Within
      <4> QED
        BY <2>9, <4>1
    <3>3. turns' = t
      BY <2>9, <2>10, <3>2
    <3>4. \A j \in 1..n : turns'[j] = IF PickedLast(index', j, k + 1, n) THEN 1 ELSE 0
      BY <2>9, <2>12, <3>1, <3>3 DEF Has, Within
    <3> QED
      BY <1>2, <2>1, <2>11, <3>1, <3>4 DEF TurnsInOrder
  <2> QED
    BY <2>13, <2>14
<1> QED
  BY <1>3, <1>4

\* Every step of the balancer keeps the turns in order.
LEMMA TurnsStep ==
  ASSUME BalancerTypeOK, BalancerTypeOK', TurnsInOrder, [BalancerNext]_balancerVars PROVE TurnsInOrder'
<1>1. ASSUME UNCHANGED <<backends, health, index, turns>> PROVE TurnsInOrder'
  <2>1. Healthy' = Healthy
    <3>1. {b \in BackendIds : health'[b] # "unhealthy"} = {b \in BackendIds : health[b] # "unhealthy"}
      BY <1>1
    <3> QED
      BY <1>1, <3>1, Zenon DEF Healthy
  <2> QED
    BY <1>1, <2>1 DEF TurnsInOrder
<1>2. ASSUME NEW b \in BackendIds,
             AddBackend(b) \/ RemoveBackend(b) \/ ReleaseBackend(b) \/ PortChanges(b)
      PROVE  TurnsInOrder'
  <2>1. CASE AddBackend(b) \/ RemoveBackend(b)
    <3>1. RoundsKept /\ index' = index
      BY <2>1 DEF AddBackend, RemoveBackend
    <3> QED
      BY <3>1, NewRound
  <2>2. CASE ReleaseBackend(b) \/ PortChanges(b)
    BY <1>1, <2>2 DEF ReleaseBackend, PortChanges, listed
  <2> QED
    BY <1>2, <2>1, <2>2
<1>3. ASSUME NEW a \in Algorithms, SetConfig(a) PROVE TurnsInOrder'
  BY <1>1, <1>3 DEF SetConfig
<1>4. CASE ResultNoted
  <2>1. RoundsKept /\ index' = index
    BY <1>4 DEF ResultNoted
  <2> QED
    BY <2>1, NewRound
<1>5. CASE StartHealthChecks \/ StopHealthChecks \/ PortTried \/ WakeUp \/ UNCHANGED balancerVars
  BY <1>1, <1>5 DEF StartHealthChecks, StopHealthChecks, PortTried, WakeUp, balancerVars, listed
<1> QED
  BY <1>2, <1>3, <1>4, <1>5, TurnTaken DEF BalancerNext, CheckerStep

---------------------------------------------------------------------------
\* The inductive invariant behind both results about LoadBalancer
\* (networking_advanced/network_manager.py) holds throughout.
THEOREM BalancerInvariant == BalancerSpec => []BalancerInv
<1>1. ASSUME BalancerInit PROVE BalancerInv
  <2>1. BalancerTypeOK
    BY <1>1, EmptySeq DEF BalancerInit, BalancerTypeOK
  <2>2. ListedAreCounted /\ CountsFollowConnections
    BY <1>1, EmptySeq DEF BalancerInit, ListedAreCounted, CountsFollowConnections
  <2>3. TurnsInOrder
    BY <1>1, OnlyInEmpty DEF BalancerInit, TurnsInOrder, Healthy
  <2> QED
    BY <2>1, <2>2, <2>3 DEF BalancerInv
<1>2. ASSUME BalancerInv, [BalancerNext]_balancerVars PROVE BalancerInv'
  <2>1. BalancerTypeOK /\ TurnsInOrder /\ CountsKept
    BY <1>2 DEF BalancerInv, CountsKept
  <2>2. CountsKept'
    BY <1>2, <2>1, CountsStep
  <2>3. TurnsInOrder'
    BY <1>2, <2>1, <2>2, TurnsStep DEF CountsKept
  <2> QED
    BY <2>2, <2>3 DEF BalancerInv, CountsKept
<1> QED
  BY <1>1, <1>2, PTL DEF BalancerSpec

\* A count is never above the connections that are open, and misses at most as
\* many as were open when the backend was added last; it is exact once none is.
THEOREM BalancerCounts == BalancerSpec => []CountsFollowConnections
<1>1. BalancerInv => CountsFollowConnections
  BY DEF BalancerInv
<1> QED
  BY <1>1, BalancerInvariant, PTL

\* No healthy entry is picked twice in a round of the round-robin.
THEOREM BalancerFair == BalancerSpec => []RoundsAreFair
<1>1. ASSUME BalancerInv PROVE RoundsAreFair
  <2>1. BalancerTypeOK /\ TurnsInOrder
    BY <1>1 DEF BalancerInv
  <2>2. DOMAIN turns = 1..Len(Healthy) /\ (Healthy = <<>> => DOMAIN turns = {})
    <3>1. Len(<<>>) = 0 /\ 1..0 = {}
      BY EmptySeq
    <3> QED
      BY <2>1, <3>1, HealthyAreEntries DEF TurnsInOrder
  <2> QED
    BY <2>1, <2>2 DEF TurnsInOrder, RoundsAreFair
<1> QED
  BY <1>1, BalancerInvariant, PTL

-----------------------------------------------------------------------------
(***************************************************************************)
(* The rate limiter.                                                       *)
(***************************************************************************)
\* The times that are noted are past.
TimesArePast ==
  /\ now \in Nat
  /\ requests \in Seq(0..now)
  /\ admitted \in Seq(0..now)
  /\ blocked \in Nat \cup {NoEntry}
  /\ promise \in [endpoint : Endpoints, at : Int, cause : {"window", "block"}] \cup {NoEntry}

Narrow(e) == \A d \in Endpoints : Window(e) <= Window(d)
Generous(e) == \A d \in Endpoints : MaxRequests[d] <= MaxRequests[e]

\* Within the narrowest window nobody prunes what was admitted.
NarrowIsComplete ==
  \A e \in Endpoints : Narrow(e) => Newer(requests, Window(e)) = Newer(admitted, Window(e))

\* No more requests are noted than the most generous endpoint allows.
ListIsShort == \A e \in Endpoints : Generous(e) => Len(requests) <= MaxRequests[e]

\* What will be left of the list when the client comes back as it was told.
LeftOver(p) == OnlyIn(requests, {t \in Int : t > p.at - Window(p.endpoint)})

\* It will have room for one request.
PromiseHolds ==
  promise # NoEntry /\ promise.cause = "window" /\ Generous(promise.endpoint)
    => Len(LeftOver(promise)) < MaxRequests[promise.endpoint]

RateInv == TimesArePast /\ NarrowIsComplete /\ WindowRespected /\ ListIsShort /\ PromiseHolds

---------------------------------------------------------------------------
(***************************************************************************)
(* Windows, and what is newer than they are.                               *)
(***************************************************************************)
LEMMA Sizes ==
  /\ TicksPerSecond \in Nat \ {0}
  /\ \A e \in Endpoints : /\ Window(e) \in Nat \ {0} /\ Block(e) \in Nat \ {0}
                          /\ MaxRequests[e] \in Nat \ {0}
                          /\ BlockSeconds[e] \in Nat
<1>1. TicksPerSecond \in Nat \ {0}
  BY RateConstants DEF RateConstants
<1>2. ASSUME NEW e \in Endpoints
      PROVE  /\ Window(e) \in Nat \ {0} /\ Block(e) \in Nat \ {0}
             /\ MaxRequests[e] \in Nat \ {0} /\ BlockSeconds[e] \in Nat
  <2>1. WindowSeconds[e] \in Nat \ {0} /\ BlockSeconds[e] \in Nat \ {0} /\ MaxRequests[e] \in Nat \ {0}
    BY RateConstants DEF RateConstants
  <2> PICK w, b, t : w = WindowSeconds[e] /\ b = BlockSeconds[e] /\ t = TicksPerSecond
    OBVIOUS
  <2>2. w * t \in Nat \ {0} /\ b * t \in Nat \ {0}
    BY <1>1, <2>1
  <2> QED
    BY <2>1, <2>2 DEF Window, Block
<1> QED
  BY <1>1, <1>2

\* A finite set of naturals has a greatest: the least size a set without one
\* could have is no size.
LEMMA GreatestWindow ==
  \E e \in Endpoints : \A d \in Endpoints : Window(d) <= Window(e)
<1> DEFINE Top(T) == \E e \in T : \A d \in T : Window(d) <= Window(e)
           N == {n \in Nat : \E T \in SUBSET Endpoints : T # {} /\ Cardinality(T) = n /\ ~ Top(T)}
<1>1. IsFiniteSet(Endpoints) /\ Endpoints # {}
  BY RateConstants DEF RateConstants
<1>2. SUFFICES ASSUME N # {} PROVE FALSE
  <2>1. Cardinality(Endpoints) \in Nat
    BY <1>1, FS_CardinalityType
  <2> QED
    BY <1>1, <1>2, <2>1
<1>3. PICK n \in N : \A m \in N : n <= m
  <2>1. N \in SUBSET Nat
    OBVIOUS
  <2> HIDE DEF N
  <2> QED
    BY <1>2, <2>1, LeastNumber
<1>4. PICK T \in SUBSET Endpoints : T # {} /\ Cardinality(T) = n /\ ~ Top(T)
  BY <1>3
<1>5. PICK x \in T : TRUE
  BY <1>4
<1>6. IsFiniteSet(T) /\ IsFiniteSet(T \ {x}) /\ Cardinality(T \ {x}) = Cardinality(T) - 1
      /\ Cardinality(T \ {x}) \in Nat /\ Cardinality(T) \in Nat
  <2>1. IsFiniteSet(T)
    BY <1>1, FS_Subset
  <2> QED
    BY <1>5, <2>1, FS_RemoveElement, FS_CardinalityType
<1>7. CASE T \ {x} = {}
  <2>1. T = {x} /\ Window(x) \in Nat
    BY <1>5, <1>7, Sizes
  <2> QED
    BY <1>4, <2>1
<1>8. CASE T \ {x} # {}
  <2>1. Cardinality(T \ {x}) \notin N
    BY <1>3, <1>4, <1>6
  <2>2. Top(T \ {x})
    BY <1>4, <1>6, <1>8, <2>1
  <2>3. PICK y \in T \ {x} : \A d \in T \ {x} : Window(d) <= Window(y)
    BY <2>2
  <2>4. \A d \in T : Window(d) \in Nat
    BY Sizes
  <2>5. Top(T)
    <3>1. CASE Window(x) <= Window(y)
      BY <2>3, <3>1
    <3>2. CASE ~ (Window(x) <= Window(y))
      <4>1. \A d \in T : Window(d) <= Window(x)
        BY <1>5, <2>3, <2>4, <3>2
      <4> QED
        BY <1>5, <4>1
    <3> QED
      BY <3>1, <3>2
  <2> QED
    BY <1>4, <2>5
<1> QED
  BY <1>7, <1>8

\* No window is wider than the widest.
LEMMA WidestIsWidest == Widest \in Nat /\ \A e \in Endpoints : Window(e) <= Widest
<1>1. PICK e \in Endpoints : \A d \in Endpoints : Window(d) <= Window(e)
  BY GreatestWindow
<1>2. \E w \in {Window(d) : d \in Endpoints} : \A d \in Endpoints : Window(d) <= w
  BY <1>1
<1>3. Widest \in {Window(d) : d \in Endpoints} /\ \A d \in Endpoints : Window(d) <= Widest
  BY <1>2 DEF Widest
<1> QED
  BY <1>3, Sizes

After(n) == {t \in Int : t > n}

\* Pruning is a filter.
LEMMA NewerIsAfter ==
  ASSUME NEW ts, NEW age PROVE Newer(ts, age) = OnlyIn(ts, After(now - age))
BY DEF Newer, After

\* Of two prunings only the narrower one counts.
LEMMA Later ==
  ASSUME NEW m \in Int, NEW n \in Int, m <= n
  PROVE  After(m) \cap After(n) = After(n) /\ After(n) \cap After(m) = After(n)
BY DEF After

\* A list that was pruned by less is, for those who prune more, the list.
LEMMA PrunedByLess ==
  ASSUME NEW X, NEW ts \in Seq(X), NEW m \in Int, NEW n \in Int, m <= n
  PROVE  OnlyIn(OnlyIn(ts, After(m)), After(n)) = OnlyIn(ts, After(n))
<1>1. OnlyIn(OnlyIn(ts, After(m)), After(n)) = OnlyIn(ts, After(m) \cap After(n))
  BY OnlyInTwice
<1> QED
  BY <1>1, Later

\* Who prunes more leaves no more.
LEMMA PrunedByMore ==
  ASSUME NEW X, NEW ts \in Seq(X), NEW m \in Int, NEW n \in Int, m <= n
  PROVE  /\ Len(OnlyIn(ts, After(n))) \in Nat /\ Len(OnlyIn(ts, After(m))) \in Nat
         /\ Len(OnlyIn(ts, After(n))) <= Len(OnlyIn(ts, After(m)))
<1> PICK s : s = OnlyIn(ts, After(m))
  OBVIOUS
<1>1. s \in Seq(X)
  BY OnlyInType
<1>2. OnlyIn(s, After(n)) = OnlyIn(ts, After(n))
  BY PrunedByLess
<1>3. Len(OnlyIn(s, After(n))) \in Nat /\ Len(s) \in Nat /\ Len(OnlyIn(s, After(n))) <= Len(s)
  BY <1>1, OnlyInLength
<1> QED
  BY <1>2, <1>3

\* In whatever order.
LEMMA PrunedTwice ==
  ASSUME NEW X, NEW ts \in Seq(X), NEW m \in Int, NEW n \in Int
  PROVE  /\ Len(OnlyIn(OnlyIn(ts, After(m)), After(n))) \in Nat
         /\ Len(OnlyIn(ts, After(n))) \in Nat
         /\ Len(OnlyIn(OnlyIn(ts, After(m)), After(n))) <= Len(OnlyIn(ts, After(n)))
<1> DEFINE A == After(m)  B == After(n)
<1> HIDE DEF A, B
<1>1. OnlyIn(OnlyIn(ts, A), B) = OnlyIn(ts, A \cap B) /\ OnlyIn(OnlyIn(ts, B), A) = OnlyIn(ts, B \cap A)
  BY OnlyInTwice
<1>2. A \cap B = B \cap A
  OBVIOUS
<1> PICK s : s = OnlyIn(ts, B)
  OBVIOUS
<1>3. s \in Seq(X)
  BY OnlyInType
<1>4. Len(OnlyIn(s, A)) \in Nat /\ Len(s) \in Nat /\ Len(OnlyIn(s, A)) <= Len(s)
  BY <1>3, OnlyInLength
<1>5. OnlyIn(OnlyIn(ts, A), B) = OnlyIn(s, A)
  BY <1>1, <1>2
<1> QED
  BY <1>4, <1>5 DEF A, B

---------------------------------------------------------------------------
(***************************************************************************)
(* Pruning: every look at the list, whoever takes it.                      *)
(***************************************************************************)
LEMMA PruneKeeps ==
  ASSUME RateInv, NEW w \in Nat,
         \A e \in Endpoints : Narrow(e) => Window(e) <= w,
         requests' = Newer(requests, w),
         UNCHANGED <<now, admitted, latest>>
  PROVE  /\ requests' \in Seq(0..now)
         /\ NarrowIsComplete' /\ WindowRespected' /\ ListIsShort'
         /\ Len(requests') \in Nat /\ Len(requests) \in Nat /\ Len(requests') <= Len(requests)
         /\ promise' = promise => PromiseHolds'
<1>1. TimesArePast /\ NarrowIsComplete /\ WindowRespected /\ ListIsShort /\ PromiseHolds
  BY DEF RateInv
<1> PICK n, rs, old : n = now - w /\ rs = requests' /\ old = requests
  OBVIOUS
<1>2. n \in Int /\ now \in Nat /\ old \in Seq(0..now)
  BY <1>1 DEF TimesArePast
<1>3. rs = OnlyIn(old, After(n))
  BY NewerIsAfter
<1>4. rs \in Seq(0..now)
  BY <1>2, <1>3, OnlyInType
<1>5. NarrowIsComplete'
  <2>1. ASSUME NEW e \in Endpoints, Narrow(e)
        PROVE  OnlyIn(rs, After(now - Window(e))) = OnlyIn(admitted, After(now - Window(e)))
    <3>1. now - Window(e) \in Int /\ n <= now - Window(e)
      <4>1. Window(e) \in Nat /\ Window(e) <= w
        BY <2>1, Sizes
      <4> QED
        BY <1>2, <4>1
    <3>2. OnlyIn(rs, After(now - Window(e))) = OnlyIn(old, After(now - Window(e)))
      BY <1>2, <1>3, <3>1, PrunedByLess
    <3>3. OnlyIn(old, After(now - Window(e))) = OnlyIn(admitted, After(now - Window(e)))
      BY <1>1, <2>1, NewerIsAfter DEF NarrowIsComplete
    <3> QED
      BY <3>2, <3>3
  <2> QED
    BY <2>1 DEF NarrowIsComplete, Newer, After
<1>6. WindowRespected'
  <2>1. \A age : AdmittedWithin(age)' = AdmittedWithin(age)
    BY DEF AdmittedWithin, Newer
  <2> QED
    BY <1>1, <2>1 DEF WindowRespected
<1>7. Len(rs) \in Nat /\ Len(old) \in Nat /\ Len(rs) <= Len(old)
  BY <1>2, <1>3, OnlyInLength
<1>8. ListIsShort'
  BY <1>1, <1>7, Sizes DEF ListIsShort
<1>9. ASSUME promise' = promise PROVE PromiseHolds'
  <2> SUFFICES ASSUME promise # NoEntry, promise.cause = "window", Generous(promise.endpoint)
               PROVE  Len(LeftOver(promise)') < MaxRequests[promise.endpoint]
    BY <1>9 DEF PromiseHolds, LeftOver
  <2> PICK m, e : m = promise.at - Window(promise.endpoint) /\ e = promise.endpoint
    OBVIOUS
  <2>1. e \in Endpoints /\ m \in Int /\ MaxRequests[e] \in Nat
    BY <1>1, Sizes DEF TimesArePast
  <2>2. LeftOver(promise) = OnlyIn(old, After(m)) /\ LeftOver(promise)' = OnlyIn(rs, After(m))
    BY <1>9 DEF LeftOver, After
  <2>3. Len(OnlyIn(old, After(m))) < MaxRequests[e]
    BY <1>1, <2>2 DEF PromiseHolds
  <2>4. /\ Len(OnlyIn(rs, After(m))) \in Nat /\ Len(OnlyIn(old, After(m))) \in Nat
        /\ Len(OnlyIn(rs, After(m))) <= Len(OnlyIn(old, After(m)))
    BY <1>2, <1>3, <2>1, PrunedTwice
  <2> QED
    BY <2>1, <2>2, <2>3, <2>4
<1> QED
  BY <1>4, <1>5, <1>6, <1>7, <1>8, <1>9

\* What an endpoint counts is the list pruned to its window.
LEMMA RecentIsPruned ==
  ASSUME NEW e \in Endpoints
  PROVE  /\ Recent(e) = Newer(requests, Window(e)) /\ Window(e) \in Nat
         /\ \A d \in Endpoints : Narrow(d) => Window(d) <= Window(e)
BY Sizes DEF Recent, Narrow

---------------------------------------------------------------------------
(***************************************************************************)
(* The promise.                                                            *)
(***************************************************************************)
LEMMA OldestIsThere ==
  ASSUME NEW ts \in Seq(Nat), Len(ts) > 0
  PROVE  \E i \in 1..Len(ts) : ts[i] = Oldest(ts) /\ Oldest(ts) \in Nat
<1> DEFINE T == {ts[i] : i \in DOMAIN ts}
<1>1. DOMAIN ts = 1..Len(ts) /\ Len(ts) \in Nat /\ \A i \in 1..Len(ts) : ts[i] \in Nat
  BY LenProperties, ElementOfSeq
<1>2. PICK t \in T : \A u \in T : t <= u
  <2>1. T \in SUBSET Nat /\ T # {}
    <3>1. 1 \in DOMAIN ts
      BY <1>1
    <3> QED
      BY <1>1, <3>1
  <2> HIDE DEF T
  <2> QED
    BY <2>1, LeastNumber
<1>3. \A i \in DOMAIN ts : t <= ts[i]
  BY <1>2
<1>4. Oldest(ts) \in T
  <2> HIDE DEF T
  <2>1. \E u \in T : \A i \in DOMAIN ts : u <= ts[i]
    BY <1>2, <1>3
  <2> QED
    BY <2>1 DEF Oldest, T
<1> QED
  BY <1>1, <1>4

\* Whole seconds, rounded down and one more, are longer than the rest of the window.
LEMMA RoundedUp ==
  ASSUME NEW t \in Nat \ {0}, NEW x \in Nat
  PROVE  (x \div t + 1) * t > x /\ x \div t \in Nat
OBVIOUS

\* A number of seconds is a number of ticks.
LEMMA SomeTicks ==
  ASSUME NEW q \in Nat, NEW t \in Nat
  PROVE  q * t \in Nat
OBVIOUS

\* Seconds rounded up, and one more, reach past the end of the window.
LEMMA RoomLeft ==
  ASSUME NEW n \in Nat, NEW o \in Nat, NEW w \in Nat, NEW x \in Nat, NEW y \in Nat, NEW at,
         y > x, o + w = x + n, at = n + y
  PROVE  at \in Nat /\ at > o + w /\ at - w \in Int
OBVIOUS

\* A refusal for the limit promises room after Retry-After.
LEMMA RefusalPromises ==
  ASSUME RateInv, NEW e \in Endpoints, RefuseOverLimit(e) PROVE RateInv'
<1>1. TimesArePast /\ ListIsShort
  BY DEF RateInv
<1>2. /\ OverLimit(e) /\ requests' = Recent(e) /\ blocked' = NoEntry
      /\ promise' = [endpoint |-> e, at |-> now + RetryAfter(e) * TicksPerSecond, cause |-> "window"]
      /\ UNCHANGED <<now, admitted, latest>>
  BY DEF RefuseOverLimit, ComeBack
<1>3. /\ requests' \in Seq(0..now)
      /\ NarrowIsComplete' /\ WindowRespected' /\ ListIsShort'
      /\ Len(requests') \in Nat /\ Len(requests) \in Nat /\ Len(requests') <= Len(requests)
  BY <1>2, RecentIsPruned, PruneKeeps
<1> PICK rs, w, t, n : rs = requests' /\ w = Window(e) /\ t = TicksPerSecond /\ n = now
  OBVIOUS
<1>4. w \in Nat \ {0} /\ t \in Nat \ {0} /\ MaxRequests[e] \in Nat \ {0} /\ n \in Nat
  BY <1>1, Sizes DEF TimesArePast
<1>5. Len(rs) > 0 /\ Len(rs) \in Nat /\ rs \in Seq(0..n) /\ Len(rs) <= Len(requests)
  BY <1>2, <1>3, <1>4 DEF OverLimit
<1>6. rs = OnlyIn(requests, After(n - w)) /\ requests \in Seq(0..n)
  BY <1>1, <1>2, NewerIsAfter DEF Recent, TimesArePast
<1>7. PICK i \in 1..Len(rs) : rs[i] = Oldest(rs)
  <2>1. 0..n \subseteq Nat
    BY <1>4
  <2>2. rs \in Seq(Nat)
    BY <1>5, <2>1, SeqMonotonic
  <2> QED
    BY <1>5, <2>2, OldestIsThere
<1>8. rs[i] \in 0..n /\ rs[i] > n - w
  <2> PICK old, m : old = requests /\ m = n - w
    OBVIOUS
  <2> DEFINE A == After(m)
  <2> HIDE DEF A
  <2>a. rs = OnlyIn(old, A) /\ old \in Seq(0..n)
    BY <1>6 DEF A
  <2>b. rs \in Seq((0..n) \cap A)
    BY <2>a, OnlyInType
  <2>1. rs \in Seq((0..n) \cap After(n - w))
    BY <2>b DEF A
  <2>2. rs[i] \in (0..n) \cap After(n - w)
    BY <2>1, ElementOfSeq
  <2> QED
    BY <2>2 DEF After
<1> PICK o, x : o = rs[i] /\ x = (o + w) - n
  OBVIOUS
<1>9. o \in Nat /\ x \in Nat /\ o + w = x + n
  BY <1>4, <1>8
<1>10. RetryAfter(e) = (x \div t) + 1
  <2>1. Recent(e) = rs
    BY <1>2
  <2>2. Oldest(Recent(e)) = o
    BY <1>7, <2>1
  <2>3. RetryAfter(e) = ((o + w - n) \div t) + 1
    BY <2>2 DEF RetryAfter
  <2> QED
    BY <1>4, <1>9, <2>3
<1>a. PICK y : y = ((x \div t) + 1) * t
  OBVIOUS
<1>b. y \in Nat /\ y > x
  <2> PICK q : q = x \div t
    OBVIOUS
  <2>1. (q + 1) * t > x /\ q \in Nat
    BY <1>4, <1>9, RoundedUp
  <2>2. (q + 1) * t \in Nat
    <3>1. q + 1 \in Nat
      BY <2>1
    <3> QED
      BY <1>4, <3>1, SomeTicks
  <2>3. y = (q + 1) * t
    BY <1>a
  <2> QED
    BY <2>1, <2>2, <2>3
<1>c. PICK at : at = n + y
  OBVIOUS
<1>11. at \in Nat /\ at > o + w /\ at - w \in Int
  BY <1>4, <1>9, <1>b, <1>c, RoomLeft
<1>12. promise' = [endpoint |-> e, at |-> at, cause |-> "window"]
  BY <1>2, <1>10, <1>a, <1>c
<1>13. TimesArePast'
  <2>1. promise' \in [endpoint : Endpoints, at : Int, cause : {"window", "block"}]
    BY <1>11, <1>12
  <2> QED
    BY <1>1, <1>2, <1>5, <2>1 DEF TimesArePast
<1>14. PromiseHolds'
  <2> SUFFICES ASSUME Generous(e) PROVE Len(OnlyIn(rs, After(at - w))) < MaxRequests[e]
    <3>1. promise'.endpoint = e /\ LeftOver(promise)' = OnlyIn(rs, After(at - w))
      BY <1>12 DEF LeftOver, After
    <3> QED
      BY <3>1 DEF PromiseHolds, Generous
  <2>1. o \notin After(at - w)
    <3>1. ~ (o > at - w)
      BY <1>4, <1>9, <1>11
    <3> QED
      BY <3>1 DEF After
  <2>2. Len(OnlyIn(rs, After(at - w))) < Len(rs) /\ Len(OnlyIn(rs, After(at - w))) \in Nat
    BY <1>5, <1>7, <2>1, OnlyInLength
  <2>3. Len(requests) <= MaxRequests[e]
    BY <1>1 DEF ListIsShort
  <2> QED
    BY <1>3, <1>4, <1>5, <2>2, <2>3
<1> QED
  BY <1>3, <1>13, <1>14 DEF RateInv

\* A refusal for a block keeps the invariant, whatever it tells the client.
LEMMA BlockPromises ==
  ASSUME RateInv, NEW e \in Endpoints, RefuseBlocked(e) \/ RefuseAndBlock(e) PROVE RateInv'
<1>1. TimesArePast
  BY DEF RateInv
<1>2. requests' = Recent(e) /\ UNCHANGED <<now, admitted, latest>>
  BY DEF RefuseBlocked, RefuseAndBlock
<1>3. /\ requests' \in Seq(0..now)
      /\ NarrowIsComplete' /\ WindowRespected' /\ ListIsShort'
  BY <1>2, RecentIsPruned, PruneKeeps
<1>4. now \in Nat /\ TicksPerSecond \in Nat \ {0} /\ Block(e) \in Nat /\ BlockSeconds[e] \in Nat
  BY <1>1, Sizes DEF TimesArePast
<1>5. \E q \in Nat : promise' = [endpoint |-> e, at |-> now + q * TicksPerSecond, cause |-> "block"]
  <2>1. CASE RefuseBlocked(e)
    <3>1. promise' = [endpoint |-> e, at |-> now + ((blocked - now) \div TicksPerSecond) * TicksPerSecond,
                      cause |-> "block"]
      BY <2>1 DEF RefuseBlocked, ComeBack
    <3>2. blocked - now \in Nat
      BY <1>1, <2>1 DEF TimesArePast, RefuseBlocked, IsBlocked
    <3>3. (blocked - now) \div TicksPerSecond \in Nat
      BY <1>4, <3>2, RoundedUp
    <3> QED
      BY <3>1, <3>3
  <2>2. CASE RefuseAndBlock(e)
    <3>1. promise' = [endpoint |-> e, at |-> now + BlockSeconds[e] * TicksPerSecond, cause |-> "block"]
      BY <2>2 DEF RefuseAndBlock, ComeBack
    <3> QED
      BY <1>4, <3>1
  <2> QED
    BY <2>1, <2>2
<1>6. PICK q \in Nat : promise' = [endpoint |-> e, at |-> now + q * TicksPerSecond, cause |-> "block"]
  BY <1>5
<1>7. blocked' \in Nat \cup {NoEntry}
  BY <1>1, <1>4 DEF RefuseBlocked, RefuseAndBlock, TimesArePast
<1>8. TimesArePast'
  <2>1. q * TicksPerSecond \in Nat
    BY <1>4, SomeTicks
  <2>2. now + q * TicksPerSecond \in Int
    BY <1>4, <2>1
  <2>3. promise' \in [endpoint : Endpoints, at : Int, cause : {"window", "block"}]
    BY <1>6, <2>2
  <2> QED
    BY <1>1, <1>2, <1>3, <1>7, <2>3 DEF TimesArePast
<1>9. PromiseHolds'
  <2>1. promise'.cause = "block"
    BY <1>6
  <2> QED
    BY <2>1 DEF PromiseHolds
<1> QED
  BY <1>3, <1>8, <1>9 DEF RateInv

---------------------------------------------------------------------------
(***************************************************************************)
(* A request is admitted.                                                  *)
(***************************************************************************)
LEMMA AdmitIsSafe ==
  ASSUME RateInv, NEW e \in Endpoints, Admit(e) PROVE RateInv'
<1>1. TimesArePast /\ NarrowIsComplete
  BY DEF RateInv
<1>2. /\ ~ OverLimit(e) /\ requests' = Append(Recent(e), now) /\ blocked' = NoEntry
      /\ admitted' = Append(admitted, now) /\ latest' = e /\ promise' = NoEntry /\ now' = now
  BY DEF Admit
<1> PICK n, old, rs, ad : n = now /\ old = requests /\ rs = Recent(e) /\ ad = admitted
  OBVIOUS
<1>3. n \in Nat /\ old \in Seq(0..n) /\ ad \in Seq(0..n) /\ n \in 0..n
  BY <1>1 DEF TimesArePast
<1>4. Window(e) \in Nat /\ n - Window(e) \in Int /\ MaxRequests[e] \in Nat
  BY <1>3, Sizes
<1>5. rs = OnlyIn(old, After(n - Window(e))) /\ rs \in Seq(0..n) /\ Len(rs) \in Nat
  <2>1. rs = OnlyIn(old, After(n - Window(e)))
    BY NewerIsAfter DEF Recent
  <2>2. rs \in Seq(0..n)
    BY <1>3, <2>1, OnlyInType
  <2> QED
    BY <2>1, <2>2, LenProperties
<1>6. Append(rs, n) \in Seq(0..n) /\ Append(ad, n) \in Seq(0..n) /\ Len(Append(rs, n)) = Len(rs) + 1
  BY <1>3, <1>5, AppendProperties
<1>7. Len(rs) < MaxRequests[e]
  BY <1>2, <1>4, <1>5 DEF OverLimit
<1>8. TimesArePast'
  BY <1>1, <1>2, <1>6 DEF TimesArePast
<1>9. ASSUME NEW d \in Endpoints, Narrow(d)
      PROVE  /\ OnlyIn(Append(rs, n), After(n - Window(d))) = Append(OnlyIn(rs, After(n - Window(d))), n)
             /\ OnlyIn(Append(ad, n), After(n - Window(d))) = Append(OnlyIn(rs, After(n - Window(d))), n)
  <2> PICK m : m = n - Window(d)
    OBVIOUS
  <2>1. m \in Int /\ n - Window(e) <= m /\ n > m
    BY <1>3, <1>4, <1>9, Sizes DEF Narrow
  <2>2. OnlyIn(rs, After(m)) = OnlyIn(old, After(m))
    BY <1>3, <1>4, <1>5, <2>1, PrunedByLess
  <2>3. OnlyIn(old, After(m)) = OnlyIn(ad, After(m))
    BY <1>1, <1>9, NewerIsAfter DEF NarrowIsComplete
  <2>4. n \in After(m)
    BY <1>3, <2>1 DEF After
  <2>5. OnlyIn(Append(rs, n), After(m)) = Append(OnlyIn(rs, After(m)), n)
    BY <1>3, <1>5, <2>4, OnlyInAppend
  <2>6. OnlyIn(Append(ad, n), After(m)) = Append(OnlyIn(ad, After(m)), n)
    BY <1>3, <2>4, OnlyInAppend
  <2> QED
    BY <2>2, <2>3, <2>5, <2>6
<1>10. NarrowIsComplete'
  BY <1>2, <1>9 DEF NarrowIsComplete, Newer, After
<1>11. WindowRespected'
  <2> SUFFICES ASSUME Narrow(e) PROVE AdmittedWithin(Window(e))' <= MaxRequests[e]
    BY <1>2 DEF WindowRespected, Narrow
  <2>1. AdmittedWithin(Window(e))' = Len(OnlyIn(Append(ad, n), After(n - Window(e))))
    BY <1>2 DEF AdmittedWithin, Newer, After
  <2>2. OnlyIn(Append(ad, n), After(n - Window(e))) = Append(OnlyIn(rs, After(n - Window(e))), n)
    BY <1>9
  <2>3. OnlyIn(rs, After(n - Window(e))) = rs
    <3>1. n - Window(e) <= n - Window(e)
      BY <1>4
    <3> QED
      BY <1>3, <1>4, <1>5, <3>1, PrunedByLess
  <2> QED
    BY <1>4, <1>5, <1>6, <1>7, <2>1, <2>2, <2>3
<1>12. ListIsShort'
  <2> SUFFICES ASSUME NEW d \in Endpoints, Generous(d) PROVE Len(Append(rs, n)) <= MaxRequests[d]
    BY <1>2 DEF ListIsShort, Generous
  <2>1. MaxRequests[e] <= MaxRequests[d] /\ MaxRequests[d] \in Nat
    BY Sizes DEF Generous
  <2> QED
    BY <1>4, <1>5, <1>6, <1>7, <2>1
<1>13. PromiseHolds'
  BY <1>2 DEF PromiseHolds
<1> QED
  BY <1>8, <1>10, <1>11, <1>12, <1>13 DEF RateInv

---------------------------------------------------------------------------
(***************************************************************************)
(* Answers, cleanup and time.                                              *)
(***************************************************************************)
LEMMA PruningIsSafe ==
  ASSUME RateInv, Cleanup \/ \E e \in Endpoints : Respond(e) PROVE RateInv'
<1>1. TimesArePast
  BY DEF RateInv
<1>2. \E w \in Nat : /\ requests' = Newer(requests, w)
                     /\ \A e \in Endpoints : Narrow(e) => Window(e) <= w
  <2>1. CASE Cleanup
    <3>1. 2 * Widest \in Nat /\ \A e \in Endpoints : Window(e) <= 2 * Widest
      BY WidestIsWidest, Sizes
    <3> QED
      BY <2>1, <3>1 DEF Cleanup
  <2>2. CASE \E e \in Endpoints : Respond(e)
    <3>1. PICK e \in Endpoints : Respond(e)
      BY <2>2
    <3>2. requests' = Recent(e)
      BY <3>1 DEF Respond
    <3> QED
      BY <3>2, RecentIsPruned
  <2> QED
    BY <2>1, <2>2
<1>3. UNCHANGED <<now, admitted, latest, promise>> /\ blocked' \in {blocked, NoEntry}
  BY DEF Cleanup, Respond
<1>4. PICK w \in Nat : /\ requests' = Newer(requests, w)
                      /\ \A e \in Endpoints : Narrow(e) => Window(e) <= w
  BY <1>2
<1>5. requests' \in Seq(0..now) /\ NarrowIsComplete' /\ WindowRespected' /\ ListIsShort' /\ PromiseHolds'
  BY <1>3, <1>4, PruneKeeps
<1>6. TimesArePast'
  BY <1>1, <1>3, <1>5 DEF TimesArePast
<1> QED
  BY <1>5, <1>6 DEF RateInv

\* A tick keeps what the waiting client was promised.
LEMMA TickIsSafe ==
  ASSUME RateInv, Tick PROVE RateInv'
<1>1. TimesArePast /\ NarrowIsComplete /\ ListIsShort /\ PromiseHolds
  BY DEF RateInv
<1>2. /\ now' = now + 1 /\ admitted' = OnlyIn(admitted, After(now + 1 - Widest))
      /\ requests' = requests /\ blocked' = blocked /\ latest' = latest /\ promise' = promise
  <2>1. now' = now + 1 /\ admitted' = OnlyIn(admitted, {t \in Int : t > now' - Widest})
    BY DEF Tick
  <2>2. {t \in Int : t > now' - Widest} = After(now + 1 - Widest)
    <3>1. now' - Widest = now + 1 - Widest
      BY <1>1, <2>1, WidestIsWidest DEF TimesArePast
    <3>2. \A t \in Int : t > now' - Widest <=> t > now + 1 - Widest
      BY <3>1
    <3> QED
      BY <3>2, Zenon DEF After
  <2> QED
    BY <2>1, <2>2 DEF Tick, limits
<1> PICK n, old, ad, ad2, far : /\ n = now /\ old = requests /\ ad = admitted /\ ad2 = admitted'
                                /\ far = n + 1 - Widest
  OBVIOUS
<1>3. n \in Nat /\ old \in Seq(0..n) /\ ad \in Seq(0..n) /\ far \in Int
  BY <1>1, WidestIsWidest DEF TimesArePast
<1>4. ad2 = OnlyIn(ad, After(far)) /\ ad2 \in Seq(0..n)
  <2>1. ad2 = OnlyIn(ad, After(far))
    BY <1>2
  <2> QED
    BY <1>3, <2>1, OnlyInType
<1>5. TimesArePast'
  <2>1. 0..n \subseteq 0..(n + 1) /\ n + 1 \in Nat
    BY <1>3
  <2>2. old \in Seq(0..(n + 1)) /\ ad2 \in Seq(0..(n + 1))
    BY <1>3, <1>4, <2>1, SeqMonotonic
  <2> QED
    BY <1>1, <1>2, <2>1, <2>2 DEF TimesArePast
<1>6. NarrowIsComplete'
  <2>1. ASSUME NEW d \in Endpoints, Narrow(d)
        PROVE  OnlyIn(old, After(n + 1 - Window(d))) = OnlyIn(ad2, After(n + 1 - Window(d)))
    <3> PICK m, k : m = n - Window(d) /\ k = n + 1 - Window(d)
      OBVIOUS
    <3>1. m \in Int /\ k \in Int /\ m <= k /\ far <= k
      BY <1>3, Sizes, WidestIsWidest
    <3>2. OnlyIn(old, After(m)) = OnlyIn(ad, After(m))
      BY <1>1, <2>1, NewerIsAfter DEF NarrowIsComplete
    <3>3. OnlyIn(OnlyIn(old, After(m)), After(k)) = OnlyIn(old, After(k))
      BY <1>3, <3>1, PrunedByLess
    <3>4. OnlyIn(OnlyIn(ad, After(m)), After(k)) = OnlyIn(ad, After(k))
      BY <1>3, <3>1, PrunedByLess
    <3>5. OnlyIn(ad2, After(k)) = OnlyIn(ad, After(k))
      BY <1>3, <1>4, <3>1, PrunedByLess
    <3> QED
      BY <3>2, <3>3, <3>4, <3>5
  <2>2. ASSUME NEW d \in Endpoints
        PROVE  /\ Newer(requests, Window(d))' = OnlyIn(old, After(n + 1 - Window(d)))
               /\ Newer(admitted, Window(d))' = OnlyIn(ad2, After(n + 1 - Window(d)))
    <3>1. {t \in Int : t > now' - Window(d)} = After(n + 1 - Window(d))
      <4>1. now' - Window(d) = n + 1 - Window(d)
        BY <1>2, <1>3, Sizes
      <4> QED
        BY <4>1 DEF After
    <3> QED
      BY <1>2, <3>1 DEF Newer
  <2> QED
    BY <2>1, <2>2 DEF NarrowIsComplete, Narrow
<1>7. WindowRespected'
  <2>1. SUFFICES ASSUME ad2 # <<>> PROVE ad2[Len(ad2)] # n + 1
    BY <1>2 DEF WindowRespected
  <2>2. Len(ad2) \in 1..Len(ad2)
    BY <1>4, <2>1, EmptySeq, LenProperties
  <2>3. ad2[Len(ad2)] \in 0..n
    BY <1>4, <2>2, ElementOfSeq
  <2> QED
    BY <1>3, <2>3
<1>8. ListIsShort' /\ PromiseHolds'
  BY <1>1, <1>2 DEF ListIsShort, PromiseHolds, LeftOver
<1> QED
  BY <1>5, <1>6, <1>7, <1>8 DEF RateInv

---------------------------------------------------------------------------
(***************************************************************************)
(* The theorems about the rate limiter.                                    *)
(***************************************************************************)
LEMMA RateStarts == ASSUME RateInit PROVE RateInv
<1>1. now = 0 /\ requests = <<>> /\ admitted = <<>> /\ blocked = NoEntry /\ promise = NoEntry
  BY DEF RateInit
<1>2. <<>> \in Seq(0..0) /\ Len(<<>>) = 0
  BY EmptySeq
<1>3. TimesArePast
  BY <1>1, <1>2 DEF TimesArePast
<1>4. NarrowIsComplete /\ WindowRespected /\ PromiseHolds
  BY <1>1 DEF NarrowIsComplete, WindowRespected, PromiseHolds
<1>5. ListIsShort
  BY <1>1, <1>2, Sizes DEF ListIsShort
<1> QED
  BY <1>3, <1>4, <1>5 DEF RateInv

\* Every step of the limiter keeps the invariant.
LEMMA RateSteps == ASSUME RateInv, [RateNext]_rateVars PROVE RateInv'
<1>1. ASSUME NEW e \in Endpoints,
             RefuseBlocked(e) \/ RefuseOverLimit(e) \/ RefuseAndBlock(e) \/ Admit(e) \/ Respond(e)
      PROVE  RateInv'
  BY <1>1, BlockPromises, RefusalPromises, AdmitIsSafe, PruningIsSafe
<1>2. CASE Cleanup
  BY <1>2, PruningIsSafe
<1>3. CASE Tick
  BY <1>3, TickIsSafe
<1>4. CASE UNCHANGED rateVars
  BY <1>4 DEF rateVars, limits, RateInv, TimesArePast, NarrowIsComplete, WindowRespected, ListIsShort,
              PromiseHolds, LeftOver, AdmittedWithin, Newer
<1> QED
  BY <1>1, <1>2, <1>3, <1>4 DEF RateNext

\* The inductive invariant about the list that the endpoints of a client share
\* holds throughout.
THEOREM RateInvariant == RateSpec => []RateInv
<1>1. RateInit => RateInv
  BY RateStarts
<1>2. RateInv /\ [RateNext]_rateVars => RateInv'
  BY RateSteps
<1> QED
  BY <1>1, <1>2, PTL DEF RateSpec

\* Whatever endpoints share the list and whoever prunes it, an endpoint with
\* the narrowest window never admits more than max_requests within its window.
THEOREM WindowsSafe == RateSpec => []WindowRespected
<1>1. RateInv => WindowRespected
  BY DEF RateInv
<1> QED
  BY <1>1, RateInvariant, PTL

\* Who waits for Retry-After is not refused for the limit again.
THEOREM WaitingSafe == RateSpec => []WaitingIsEnough
<1>1. RateInv => WaitingIsEnough
  <2> SUFFICES ASSUME RateInv, promise # NoEntry, promise.cause = "window", now >= promise.at,
                      Generous(promise.endpoint)
               PROVE  ~ OverLimit(promise.endpoint)
    BY DEF WaitingIsEnough, Generous
  <2>1. TimesArePast /\ PromiseHolds
    BY DEF RateInv
  <2> PICK e, at, n, old : e = promise.endpoint /\ at = promise.at /\ n = now /\ old = requests
    OBVIOUS
  <2>2. e \in Endpoints /\ at \in Int /\ n \in Nat /\ n >= at /\ old \in Seq(0..n)
    BY <2>1 DEF TimesArePast
  <2>3. MaxRequests[e] \in Nat /\ at - Window(e) \in Int /\ n - Window(e) \in Int
        /\ at - Window(e) <= n - Window(e)
    BY <2>2, Sizes
  <2>4. Len(OnlyIn(old, After(at - Window(e)))) < MaxRequests[e]
    BY <2>1 DEF PromiseHolds, LeftOver, After
  <2>5. /\ Len(OnlyIn(old, After(n - Window(e)))) \in Nat /\ Len(OnlyIn(old, After(at - Window(e)))) \in Nat
        /\ Len(OnlyIn(old, After(n - Window(e)))) <= Len(OnlyIn(old, After(at - Window(e))))
    BY <2>2, <2>3, PrunedByMore
  <2>6. Len(Recent(e)) = Len(OnlyIn(old, After(n - Window(e))))
    BY NewerIsAfter DEF Recent
  <2> QED
    BY <2>3, <2>4, <2>5, <2>6 DEF OverLimit
<1> QED
  BY <1>1, RateInvariant, PTL

-----------------------------------------------------------------------------
(***************************************************************************)
(* Logins.                                                                 *)
(***************************************************************************)
LoginTypeOK ==
  /\ instant \in Nat
  /\ failures \in [Accounts -> Seq(Int)]
  /\ judged \in [Accounts -> Seq(Int)]
  /\ login \in [Calls -> Accounts \cup {None}]
  /\ refused \in Accounts \cup {None}

\* Within the window every wrong password is a recorded failure, and no other.
FailuresAreJudged == \A a \in Accounts : Lately(failures[a]) = Lately(judged[a])

AttemptsOn(l, a) == {k \in Calls : l[k] = a}
UnderWay(a) == AttemptsOn(login, a)

\* The attempts that await the database were let in below the limit.
RoomForAttempts ==
  \A a \in Accounts :
    Len(Lately(judged[a])) + Cardinality(UnderWay(a)) < FailuresAllowed + Cardinality(Calls)

RefusedForReason == refused # None => Len(Lately(judged[refused])) >= FailuresAllowed

LoginInv == LoginTypeOK /\ FailuresAreJudged /\ RoomForAttempts /\ RefusedForReason

---------------------------------------------------------------------------
LateAt(i) == {t \in Int : i - t < LockoutTime}

\* The attempts that still count are a filter of the list.
LEMMA LatelyIsFilter == ASSUME NEW ts PROVE Lately(ts) = OnlyIn(ts, LateAt(instant))
BY DEF Lately, LateAt

\* Counting late attempts twice is counting them once.
LEMMA LatelyCounts ==
  ASSUME NEW s \in Seq(Int), NEW i \in Int
  PROVE  /\ OnlyIn(s, LateAt(i)) \in Seq(Int)
         /\ Len(OnlyIn(s, LateAt(i))) \in Nat
         /\ OnlyIn(OnlyIn(s, LateAt(i)), LateAt(i)) = OnlyIn(s, LateAt(i))
<1> DEFINE L == LateAt(i)
<1> HIDE DEF L
<1>1. OnlyIn(s, L) \in Seq(Int) /\ Len(OnlyIn(s, L)) \in Nat
  BY OnlyInType, OnlyInLength
<1>2. OnlyIn(OnlyIn(s, L), L) = OnlyIn(s, L \cap L) /\ L \cap L = L
  BY OnlyInTwice
<1> QED
  BY <1>1, <1>2 DEF L

\* As time passes the old ones leave, and no new ones come.
LEMMA LatelyAges ==
  ASSUME NEW s \in Seq(Int), NEW i \in Int
  PROVE  /\ OnlyIn(OnlyIn(s, LateAt(i)), LateAt(i + 1)) = OnlyIn(s, LateAt(i + 1))
         /\ Len(OnlyIn(s, LateAt(i + 1))) \in Nat
         /\ Len(OnlyIn(s, LateAt(i + 1))) <= Len(OnlyIn(s, LateAt(i)))
<1> DEFINE L == LateAt(i)  M == LateAt(i + 1)
<1>1. L \cap M = M
  BY LoginConstants DEF LoginConstants, LateAt
<1> HIDE DEF L, M
<1>2. OnlyIn(OnlyIn(s, L), M) = OnlyIn(s, M)
  BY <1>1, OnlyInTwice
<1> PICK r : r = OnlyIn(s, L)
  OBVIOUS
<1>3. r \in Seq(Int)
  BY OnlyInType
<1>4. Len(OnlyIn(r, M)) \in Nat /\ Len(OnlyIn(r, M)) <= Len(r)
  BY <1>3, OnlyInLength
<1> QED
  BY <1>2, <1>4 DEF L, M

\* One more failure is at most one more.
LEMMA LatelyGrows ==
  ASSUME NEW s \in Seq(Int), NEW r \in Seq(Int), NEW i \in Int, NEW x \in Int,
         OnlyIn(s, LateAt(i)) = OnlyIn(r, LateAt(i))
  PROVE  /\ OnlyIn(Append(s, x), LateAt(i)) = OnlyIn(Append(r, x), LateAt(i))
         /\ Len(OnlyIn(Append(r, x), LateAt(i))) <= Len(OnlyIn(r, LateAt(i))) + 1
         /\ Append(s, x) \in Seq(Int) /\ Append(r, x) \in Seq(Int)
<1> DEFINE L == LateAt(i)
<1> HIDE DEF L
<1>1. OnlyIn(Append(s, x), L) = IF x \in L THEN Append(OnlyIn(s, L), x) ELSE OnlyIn(s, L)
  BY OnlyInAppend
<1>2. OnlyIn(Append(r, x), L) = IF x \in L THEN Append(OnlyIn(r, L), x) ELSE OnlyIn(r, L)
  BY OnlyInAppend
<1>3. OnlyIn(s, L) = OnlyIn(r, L)
  BY DEF L
<1> PICK k : k = OnlyIn(r, L)
  OBVIOUS
<1>4. k \in Seq(Int) /\ Len(k) \in Nat
  BY OnlyInType, OnlyInLength
<1>5. Len(Append(k, x)) = Len(k) + 1
  BY <1>4, AppendProperties
<1>6. Len(OnlyIn(Append(r, x), L)) <= Len(OnlyIn(r, L)) + 1
  BY <1>2, <1>4, <1>5
<1>7. Append(s, x) \in Seq(Int) /\ Append(r, x) \in Seq(Int)
  BY AppendProperties
<1> QED
  BY <1>1, <1>2, <1>3, <1>6, <1>7 DEF L

\* An account has no more attempts under way than there are calls.
LEMMA AttemptsAreFew ==
  ASSUME NEW l \in [Calls -> Accounts \cup {None}], NEW a
  PROVE  /\ IsFiniteSet(AttemptsOn(l, a)) /\ Cardinality(AttemptsOn(l, a)) \in Nat
         /\ Cardinality(Calls) \in Nat
         /\ Cardinality(AttemptsOn(l, a)) <= Cardinality(Calls)
<1>1. IsFiniteSet(Calls)
  BY LoginConstants DEF LoginConstants
<1>2. AttemptsOn(l, a) \in SUBSET Calls
  BY DEF AttemptsOn
<1> QED
  BY <1>1, <1>2, FS_Subset, FS_CardinalityType

\* An attempt that is answered waits no more.
LEMMA AttemptEnds ==
  ASSUME NEW l \in [Calls -> Accounts \cup {None}], NEW k \in Calls, l[k] # None,
         NEW a \in Accounts
  PROVE  /\ l[k] = a => Cardinality(AttemptsOn([l EXCEPT ![k] = None], a)) = Cardinality(AttemptsOn(l, a)) - 1
         /\ l[k] # a => AttemptsOn([l EXCEPT ![k] = None], a) = AttemptsOn(l, a)
         /\ Cardinality(AttemptsOn([l EXCEPT ![k] = None], a)) \in Nat /\ Cardinality(AttemptsOn(l, a)) \in Nat
         /\ Cardinality(AttemptsOn([l EXCEPT ![k] = None], a)) <= Cardinality(AttemptsOn(l, a))
<1> PICK V, W : V = AttemptsOn(l, a) /\ W = AttemptsOn([l EXCEPT ![k] = None], a)
  OBVIOUS
<1>1. IsFiniteSet(V) /\ Cardinality(V) \in Nat
  BY AttemptsAreFew
<1>2. None \notin Accounts
  BY LoginConstants DEF LoginConstants
<1>3. l[k] = a => W = V \ {k} /\ k \in V
  BY <1>2 DEF AttemptsOn
<1>4. l[k] # a => W = V
  BY <1>2 DEF AttemptsOn
<1>5. l[k] = a => Cardinality(W) = Cardinality(V) - 1 /\ Cardinality(W) \in Nat
  BY <1>1, <1>3, FS_RemoveElement, FS_CardinalityType
<1> QED
  BY <1>1, <1>4, <1>5

---------------------------------------------------------------------------
(***************************************************************************)
(* What the steps do to the counts.                                        *)
(***************************************************************************)
LEMMA PruneKeepsVerdicts ==
  ASSUME LoginInv, NEW a \in Accounts, Prune(a), UNCHANGED <<instant, judged>>
  PROVE  /\ failures' \in [Accounts -> Seq(Int)]
         /\ FailuresAreJudged'
         /\ \A b \in Accounts : Lately(judged[b])' = Lately(judged[b])
<1>1. LoginTypeOK /\ FailuresAreJudged
  BY DEF LoginInv
<1> PICK i, f, g, j : i = instant /\ f = failures /\ g = failures' /\ j = judged
  OBVIOUS
<1>2. i \in Int /\ f \in [Accounts -> Seq(Int)] /\ f[a] \in Seq(Int)
  BY <1>1 DEF LoginTypeOK
<1>3. g = [f EXCEPT ![a] = OnlyIn(f[a], LateAt(i))]
  BY <1>2, LatelyIsFilter DEF Prune
<1>4. g \in [Accounts -> Seq(Int)]
  <2>1. OnlyIn(f[a], LateAt(i)) \in Seq(Int)
    BY <1>2, LatelyCounts
  <2> QED
    BY <1>2, <1>3, <2>1
<1>5. \A b \in Accounts : OnlyIn(g[b], LateAt(i)) = OnlyIn(f[b], LateAt(i))
  <2>1. g[a] = OnlyIn(f[a], LateAt(i)) /\ \A b \in Accounts \ {a} : g[b] = f[b]
    BY <1>2, <1>3
  <2>2. OnlyIn(OnlyIn(f[a], LateAt(i)), LateAt(i)) = OnlyIn(f[a], LateAt(i))
    BY <1>2, LatelyCounts
  <2> QED
    BY <2>1, <2>2
<1>6. \A b \in Accounts : OnlyIn(f[b], LateAt(i)) = OnlyIn(j[b], LateAt(i))
  BY <1>1, LatelyIsFilter DEF FailuresAreJudged
<1>7. FailuresAreJudged'
  BY <1>5, <1>6 DEF FailuresAreJudged, Lately, LateAt
<1> QED
  BY <1>4, <1>7 DEF Lately

\* An attempt that is let in was below the limit.
LEMMA StartIsSafe ==
  ASSUME LoginInv, NEW k \in Calls, NEW a \in Accounts, StartLogin(k, a) PROVE LoginInv'
<1>1. LoginTypeOK /\ FailuresAreJudged /\ RoomForAttempts
  BY DEF LoginInv
<1>2. /\ Allowed(a) /\ Prune(a) /\ login[k] = None /\ login' = [login EXCEPT ![k] = a]
      /\ refused' = None /\ instant' = instant /\ judged' = judged
  BY DEF StartLogin
<1>3. /\ failures' \in [Accounts -> Seq(Int)] /\ FailuresAreJudged'
      /\ \A b \in Accounts : Lately(judged[b])' = Lately(judged[b])
  BY <1>2, PruneKeepsVerdicts
<1>4. login \in [Calls -> Accounts \cup {None}] /\ login' \in [Calls -> Accounts \cup {None}]
  BY <1>1, <1>2 DEF LoginTypeOK
<1>5. LoginTypeOK'
  BY <1>1, <1>2, <1>3, <1>4 DEF LoginTypeOK
<1>6. RoomForAttempts'
  <2> SUFFICES ASSUME NEW b \in Accounts
               PROVE  Len(Lately(judged[b])) + Cardinality(UnderWay(b)') < FailuresAllowed + Cardinality(Calls)
    BY <1>3 DEF RoomForAttempts
  <2> PICK n, calls, w, v : /\ n = Len(Lately(judged[b])) /\ calls = Cardinality(Calls)
                            /\ w = Cardinality(UnderWay(b)') /\ v = Cardinality(UnderWay(b))
    OBVIOUS
  <2>1. n \in Nat
    BY <1>1, LatelyIsFilter, LatelyCounts DEF LoginTypeOK
  <2>2. w \in Nat /\ calls \in Nat /\ w <= calls
    BY <1>4, AttemptsAreFew DEF UnderWay
  <2>3. FailuresAllowed \in Nat
    BY LoginConstants DEF LoginConstants
  <2>4. CASE b = a
    <3>1. n < FailuresAllowed
      BY <1>1, <1>2, <2>4 DEF Allowed, FailuresAreJudged
    <3> QED
      BY <2>1, <2>2, <2>3, <3>1
  <2>5. CASE b # a
    <3>1. UnderWay(b)' = UnderWay(b)
      <4>1. None \notin Accounts
        BY LoginConstants DEF LoginConstants
      <4> QED
        BY <1>2, <1>4, <2>5, <4>1 DEF UnderWay, AttemptsOn
    <3> QED
      BY <1>1, <3>1 DEF RoomForAttempts
  <2> QED
    BY <2>4, <2>5
<1> QED
  BY <1>2, <1>3, <1>5, <1>6 DEF LoginInv, RefusedForReason

\* An attempt is refused for attempts that still count.
LEMMA RefuseIsSafe ==
  ASSUME LoginInv, NEW a \in Accounts, RefuseLogin(a) PROVE LoginInv'
<1>1. LoginTypeOK /\ FailuresAreJudged /\ RoomForAttempts
  BY DEF LoginInv
<1>2. /\ ~ Allowed(a) /\ Prune(a) /\ login' = login
      /\ refused' = a /\ instant' = instant /\ judged' = judged
  BY DEF RefuseLogin
<1>3. /\ failures' \in [Accounts -> Seq(Int)] /\ FailuresAreJudged'
      /\ \A b \in Accounts : Lately(judged[b])' = Lately(judged[b])
  BY <1>2, PruneKeepsVerdicts
<1>4. LoginTypeOK' /\ RoomForAttempts'
  BY <1>1, <1>2, <1>3 DEF LoginTypeOK, RoomForAttempts, UnderWay
<1>5. RefusedForReason'
  <2>1. Len(Lately(judged[a])) \in Nat
    BY <1>1, LatelyIsFilter, LatelyCounts DEF LoginTypeOK
  <2>2. FailuresAllowed \in Nat
    BY LoginConstants DEF LoginConstants
  <2>3. Len(Lately(judged[a])) >= FailuresAllowed
    BY <1>1, <1>2, <2>1, <2>2 DEF Allowed, FailuresAreJudged
  <2>4. refused' = a /\ Len(Lately(judged[a])') >= FailuresAllowed
    BY <1>2, <1>3, <2>3
  <2> QED
    BY <2>4 DEF RefusedForReason
<1> QED
  BY <1>3, <1>4, <1>5 DEF LoginInv

\* A wrong password is recorded by an attempt that was let in.
LEMMA WrongIsSafe ==
  ASSUME LoginInv, NEW k \in Calls, WrongPassword(k) PROVE LoginInv'
<1>1. LoginTypeOK /\ FailuresAreJudged /\ RoomForAttempts
  BY DEF LoginInv
<1> PICK a, i, f, g, j, h, l : /\ a = login[k] /\ i = instant /\ f = failures /\ g = failures'
                               /\ j = judged /\ h = judged' /\ l = login
  OBVIOUS
<1>2. /\ a # None /\ g = [f EXCEPT ![a] = Append(f[a], i)] /\ h = [j EXCEPT ![a] = Append(j[a], i)]
      /\ login' = [l EXCEPT ![k] = None] /\ refused' = None /\ instant' = i
  BY DEF WrongPassword
<1>3. /\ a \in Accounts /\ i \in Nat /\ l \in [Calls -> Accounts \cup {None}] /\ l[k] = a
      /\ f \in [Accounts -> Seq(Int)] /\ j \in [Accounts -> Seq(Int)]
  BY <1>1, <1>2 DEF LoginTypeOK
<1>4. \A b \in Accounts : OnlyIn(f[b], LateAt(i)) = OnlyIn(j[b], LateAt(i))
  BY <1>1, LatelyIsFilter DEF FailuresAreJudged
<1>5. /\ OnlyIn(Append(f[a], i), LateAt(i)) = OnlyIn(Append(j[a], i), LateAt(i))
      /\ Len(OnlyIn(Append(j[a], i), LateAt(i))) <= Len(OnlyIn(j[a], LateAt(i))) + 1
      /\ Append(f[a], i) \in Seq(Int) /\ Append(j[a], i) \in Seq(Int)
  <2>1. f[a] \in Seq(Int) /\ j[a] \in Seq(Int) /\ i \in Int
    BY <1>3
  <2> QED
    BY <1>3, <1>4, <2>1, LatelyGrows
<1>6. /\ g[a] = Append(f[a], i) /\ h[a] = Append(j[a], i)
      /\ \A b \in Accounts \ {a} : g[b] = f[b] /\ h[b] = j[b]
      /\ g \in [Accounts -> Seq(Int)] /\ h \in [Accounts -> Seq(Int)]
  BY <1>2, <1>3, <1>5
<1>7. LoginTypeOK'
  BY <1>2, <1>3, <1>6 DEF LoginTypeOK
<1>8. FailuresAreJudged'
  <2>1. \A b \in Accounts : OnlyIn(g[b], LateAt(i)) = OnlyIn(h[b], LateAt(i))
    BY <1>4, <1>5, <1>6
  <2> QED
    BY <1>2, <2>1 DEF FailuresAreJudged, Lately, LateAt
<1>9. RoomForAttempts'
  <2> SUFFICES ASSUME NEW b \in Accounts
               PROVE  Len(OnlyIn(h[b], LateAt(i))) + Cardinality(UnderWay(b)')
                        < FailuresAllowed + Cardinality(Calls)
    BY <1>2 DEF RoomForAttempts, Lately, LateAt
  <2> PICK n, m, calls, w, v : /\ n = Len(OnlyIn(j[b], LateAt(i))) /\ calls = Cardinality(Calls)
                               /\ m = Len(OnlyIn(h[b], LateAt(i)))
                               /\ w = Cardinality(UnderWay(b)') /\ v = Cardinality(UnderWay(b))
    OBVIOUS
  <2>1. n \in Nat /\ m \in Nat
    <3>1. j[b] \in Seq(Int) /\ h[b] \in Seq(Int) /\ i \in Int
      BY <1>3, <1>6
    <3> QED
      BY <3>1, LatelyCounts
  <2>2. v \in Nat /\ w \in Nat /\ (b = a => w = v - 1) /\ (b # a => w = v)
    <3>1. l[k] # None /\ login' = [l EXCEPT ![k] = None]
      BY <1>2, <1>3
    <3>2. /\ w = Cardinality(AttemptsOn([l EXCEPT ![k] = None], b))
          /\ v = Cardinality(AttemptsOn(l, b))
      BY <3>1 DEF UnderWay
    <3>3. /\ l[k] = b => Cardinality(AttemptsOn([l EXCEPT ![k] = None], b)) = Cardinality(AttemptsOn(l, b)) - 1
          /\ l[k] # b => AttemptsOn([l EXCEPT ![k] = None], b) = AttemptsOn(l, b)
          /\ Cardinality(AttemptsOn([l EXCEPT ![k] = None], b)) \in Nat
          /\ Cardinality(AttemptsOn(l, b)) \in Nat
      BY <1>3, <3>1, AttemptEnds
    <3> QED
      BY <1>3, <3>2, <3>3
  <2>3. FailuresAllowed \in Nat /\ calls \in Nat
    BY <1>3, LoginConstants, AttemptsAreFew DEF LoginConstants
  <2>4. n + v < FailuresAllowed + calls
    BY <1>1, LatelyIsFilter DEF RoomForAttempts
  <2>5. (b = a => m <= n + 1) /\ (b # a => m = n)
    BY <1>5, <1>6
  <2> QED
    BY <2>1, <2>2, <2>3, <2>4, <2>5
<1> QED
  BY <1>2, <1>7, <1>8, <1>9 DEF LoginInv, RefusedForReason

\* A right password clears the list of its account.
LEMMA RightIsSafe ==
  ASSUME LoginInv, NEW k \in Calls, RightPassword(k) PROVE LoginInv'
<1>1. LoginTypeOK /\ FailuresAreJudged /\ RoomForAttempts
  BY DEF LoginInv
<1> PICK a, i, f, g, j, h, l : /\ a = login[k] /\ i = instant /\ f = failures /\ g = failures'
                               /\ j = judged /\ h = judged' /\ l = login
  OBVIOUS
<1>2. /\ a # None /\ g = [f EXCEPT ![a] = <<>>] /\ h = [j EXCEPT ![a] = <<>>]
      /\ login' = [l EXCEPT ![k] = None] /\ refused' = None /\ instant' = i
  BY DEF RightPassword
<1>3. /\ a \in Accounts /\ i \in Nat /\ l \in [Calls -> Accounts \cup {None}] /\ l[k] = a
      /\ f \in [Accounts -> Seq(Int)] /\ j \in [Accounts -> Seq(Int)]
  BY <1>1, <1>2 DEF LoginTypeOK
<1>4. <<>> \in Seq(Int) /\ Len(<<>>) = 0 /\ OnlyIn(<<>>, LateAt(i)) = <<>>
  BY EmptySeq, OnlyInEmpty
<1>6. /\ g[a] = <<>> /\ h[a] = <<>>
      /\ \A b \in Accounts \ {a} : g[b] = f[b] /\ h[b] = j[b]
      /\ g \in [Accounts -> Seq(Int)] /\ h \in [Accounts -> Seq(Int)]
  BY <1>2, <1>3, <1>4
<1>7. LoginTypeOK'
  <2>1. login' \in [Calls -> Accounts \cup {None}]
    BY <1>2, <1>3
  <2> QED
    BY <1>2, <1>3, <1>6, <2>1 DEF LoginTypeOK
<1>8. FailuresAreJudged'
  <2>1. \A b \in Accounts : OnlyIn(f[b], LateAt(i)) = OnlyIn(j[b], LateAt(i))
    BY <1>1, LatelyIsFilter DEF FailuresAreJudged
  <2>2. \A b \in Accounts : OnlyIn(g[b], LateAt(i)) = OnlyIn(h[b], LateAt(i))
    BY <1>6, <2>1
  <2> QED
    BY <1>2, <2>2 DEF FailuresAreJudged, Lately, LateAt
<1>9. RoomForAttempts'
  <2> SUFFICES ASSUME NEW b \in Accounts
               PROVE  Len(OnlyIn(h[b], LateAt(i))) + Cardinality(UnderWay(b)')
                        < FailuresAllowed + Cardinality(Calls)
    BY <1>2 DEF RoomForAttempts, Lately, LateAt
  <2> PICK n, m, calls, w, v : /\ n = Len(OnlyIn(j[b], LateAt(i))) /\ calls = Cardinality(Calls)
                               /\ m = Len(OnlyIn(h[b], LateAt(i)))
                               /\ w = Cardinality(UnderWay(b)') /\ v = Cardinality(UnderWay(b))
    OBVIOUS
  <2>1. n \in Nat
    <3>1. j[b] \in Seq(Int) /\ i \in Int
      BY <1>3
    <3> QED
      BY <3>1, LatelyCounts
  <2>2. v \in Nat /\ w \in Nat /\ w <= v
    BY <1>2, <1>3, AttemptEnds DEF UnderWay
  <2>3. FailuresAllowed \in Nat \ {0} /\ calls \in Nat /\ v <= calls
    BY <1>3, LoginConstants, AttemptsAreFew DEF LoginConstants, UnderWay
  <2>4. n + v < FailuresAllowed + calls
    BY <1>1, LatelyIsFilter DEF RoomForAttempts
  <2>5. (b = a => m = 0) /\ (b # a => m = n)
    BY <1>4, <1>6
  <2> QED
    BY <2>1, <2>2, <2>3, <2>4, <2>5
<1> QED
  BY <1>2, <1>7, <1>8, <1>9 DEF LoginInv, RefusedForReason

\* An attempt that raised records nothing.
LEMMA NoVerdictIsSafe ==
  ASSUME LoginInv, NEW k \in Calls, NoVerdict(k) PROVE LoginInv'
<1>1. LoginTypeOK /\ FailuresAreJudged /\ RoomForAttempts
  BY DEF LoginInv
<1> PICK l : l = login
  OBVIOUS
<1>2. /\ l[k] # None /\ login' = [l EXCEPT ![k] = None] /\ refused' = None
      /\ UNCHANGED <<failures, instant, judged>> /\ l \in [Calls -> Accounts \cup {None}]
  BY <1>1 DEF NoVerdict, LoginTypeOK
<1>3. LoginTypeOK'
  <2>1. login' \in [Calls -> Accounts \cup {None}]
    BY <1>2
  <2> QED
    BY <1>1, <1>2, <2>1 DEF LoginTypeOK
<1>4. \A ts : Lately(ts)' = Lately(ts')
  BY <1>2 DEF Lately
<1>5. FailuresAreJudged'
  BY <1>1, <1>2 DEF FailuresAreJudged, Lately
<1>6. RoomForAttempts'
  <2> SUFFICES ASSUME NEW b \in Accounts
               PROVE  Len(Lately(judged[b])) + Cardinality(UnderWay(b)') < FailuresAllowed + Cardinality(Calls)
    BY <1>2 DEF RoomForAttempts, Lately
  <2> PICK n, calls, w, v : /\ n = Len(Lately(judged[b])) /\ calls = Cardinality(Calls)
                            /\ w = Cardinality(UnderWay(b)') /\ v = Cardinality(UnderWay(b))
    OBVIOUS
  <2>1. n \in Nat
    BY <1>1, LatelyIsFilter, LatelyCounts DEF LoginTypeOK
  <2>2. v \in Nat /\ w \in Nat /\ w <= v
    BY <1>2, AttemptEnds DEF UnderWay
  <2>3. FailuresAllowed \in Nat /\ calls \in Nat
    BY <1>2, LoginConstants, AttemptsAreFew DEF LoginConstants
  <2>4. n + v < FailuresAllowed + calls
    BY <1>1 DEF RoomForAttempts
  <2> QED
    BY <2>1, <2>2, <2>3, <2>4
<1> QED
  BY <1>2, <1>3, <1>5, <1>6 DEF LoginInv, RefusedForReason

\* Time passes, and attempts only cease to count.
LEMMA InstantIsSafe ==
  ASSUME LoginInv, InstantPasses PROVE LoginInv'
<1>1. LoginTypeOK /\ FailuresAreJudged /\ RoomForAttempts
  BY DEF LoginInv
<1> PICK i, f, j : i = instant /\ f = failures /\ j = judged
  OBVIOUS
<1>2. /\ instant' = i + 1 /\ refused' = None /\ failures' = f /\ judged' = j /\ login' = login
      /\ i \in Nat /\ i \in Int
      /\ f \in [Accounts -> Seq(Int)] /\ j \in [Accounts -> Seq(Int)]
  BY <1>1 DEF InstantPasses, LoginTypeOK
<1>3. LoginTypeOK'
  BY <1>1, <1>2 DEF LoginTypeOK
<1>4. ASSUME NEW b \in Accounts
      PROVE  /\ OnlyIn(f[b], LateAt(i + 1)) = OnlyIn(j[b], LateAt(i + 1))
             /\ Len(OnlyIn(j[b], LateAt(i + 1))) \in Nat
             /\ Len(OnlyIn(j[b], LateAt(i))) \in Nat
             /\ Len(OnlyIn(j[b], LateAt(i + 1))) <= Len(OnlyIn(j[b], LateAt(i)))
  <2>1. f[b] \in Seq(Int) /\ j[b] \in Seq(Int)
    BY <1>2
  <2>2. OnlyIn(f[b], LateAt(i)) = OnlyIn(j[b], LateAt(i))
    BY <1>1, LatelyIsFilter DEF FailuresAreJudged
  <2>3. /\ OnlyIn(OnlyIn(f[b], LateAt(i)), LateAt(i + 1)) = OnlyIn(f[b], LateAt(i + 1))
        /\ OnlyIn(OnlyIn(j[b], LateAt(i)), LateAt(i + 1)) = OnlyIn(j[b], LateAt(i + 1))
    BY <1>2, <2>1, LatelyAges
  <2>4. /\ Len(OnlyIn(j[b], LateAt(i + 1))) \in Nat /\ Len(OnlyIn(j[b], LateAt(i))) \in Nat
        /\ Len(OnlyIn(j[b], LateAt(i + 1))) <= Len(OnlyIn(j[b], LateAt(i)))
    BY <1>2, <2>1, LatelyAges, LatelyCounts
  <2> QED
    BY <2>2, <2>3, <2>4
<1>5. FailuresAreJudged'
  BY <1>2, <1>4 DEF FailuresAreJudged, Lately, LateAt
<1>6. RoomForAttempts'
  <2> SUFFICES ASSUME NEW b \in Accounts
               PROVE  Len(OnlyIn(j[b], LateAt(i + 1))) + Cardinality(UnderWay(b))
                        < FailuresAllowed + Cardinality(Calls)
    BY <1>2 DEF RoomForAttempts, Lately, LateAt, UnderWay
  <2> PICK n, m, calls, v : /\ n = Len(OnlyIn(j[b], LateAt(i))) /\ calls = Cardinality(Calls)
                            /\ m = Len(OnlyIn(j[b], LateAt(i + 1))) /\ v = Cardinality(UnderWay(b))
    OBVIOUS
  <2>1. n \in Nat /\ m \in Nat /\ m <= n
    BY <1>4
  <2>2. v \in Nat /\ calls \in Nat /\ FailuresAllowed \in Nat
    BY <1>1, LoginConstants, AttemptsAreFew DEF LoginConstants, LoginTypeOK, UnderWay
  <2>3. n + v < FailuresAllowed + calls
    BY <1>1, LatelyIsFilter DEF RoomForAttempts
  <2> QED
    BY <2>1, <2>2, <2>3
<1> QED
  BY <1>2, <1>3, <1>5, <1>6 DEF LoginInv, RefusedForReason

---------------------------------------------------------------------------
(***************************************************************************)
(* The theorems about logins.                                              *)
(***************************************************************************)
LEMMA LoginStarts == ASSUME LoginInit PROVE LoginInv
<1>1. /\ failures = [a \in Accounts |-> <<>>] /\ judged = [a \in Accounts |-> <<>>]
      /\ login = [k \in Calls |-> None] /\ instant = 0 /\ refused = None
  BY DEF LoginInit
<1>2. <<>> \in Seq(Int) /\ Len(<<>>) = 0
  BY EmptySeq
<1>3. LoginTypeOK
  BY <1>1, <1>2 DEF LoginTypeOK
<1>4. FailuresAreJudged
  BY <1>1 DEF FailuresAreJudged
<1>5. RoomForAttempts
  <2> SUFFICES ASSUME NEW a \in Accounts
               PROVE  Len(Lately(judged[a])) + Cardinality(UnderWay(a)) < FailuresAllowed + Cardinality(Calls)
    BY DEF RoomForAttempts
  <2>1. Len(Lately(judged[a])) = 0
    BY <1>1, <1>2, OnlyInEmpty, LatelyIsFilter
  <2>2. /\ Cardinality(UnderWay(a)) \in Nat /\ Cardinality(Calls) \in Nat
        /\ Cardinality(UnderWay(a)) <= Cardinality(Calls)
    BY <1>3, AttemptsAreFew DEF LoginTypeOK, UnderWay
  <2>3. FailuresAllowed \in Nat \ {0}
    BY LoginConstants DEF LoginConstants
  <2> QED
    BY <2>1, <2>2, <2>3
<1> QED
  BY <1>1, <1>3, <1>4, <1>5 DEF LoginInv, RefusedForReason

\* Every step of logins keeps the invariant.
LEMMA LoginSteps == ASSUME LoginInv, [LoginNext]_loginVars PROVE LoginInv'
<1>1. ASSUME NEW k \in Calls, \/ \E a \in Accounts : StartLogin(k, a)
                              \/ WrongPassword(k) \/ RightPassword(k) \/ NoVerdict(k)
      PROVE  LoginInv'
  BY <1>1, StartIsSafe, WrongIsSafe, RightIsSafe, NoVerdictIsSafe
<1>2. ASSUME NEW a \in Accounts, RefuseLogin(a) PROVE LoginInv'
  BY <1>2, RefuseIsSafe
<1>3. CASE InstantPasses
  BY <1>3, InstantIsSafe
<1>4. CASE UNCHANGED loginVars
  BY <1>4 DEF loginVars, LoginInv, LoginTypeOK, FailuresAreJudged, RoomForAttempts, RefusedForReason,
              UnderWay, Lately
<1> QED
  BY <1>1, <1>2, <1>3, <1>4 DEF LoginNext

\* The inductive invariant about attempts that wait for the database and the
\* list of failed ones holds throughout.
THEOREM LoginInvariant == LoginSpec => []LoginInv
<1>1. LoginInit => LoginInv
  BY LoginStarts
<1>2. LoginInv /\ [LoginNext]_loginVars => LoginInv'
  BY LoginSteps
<1> QED
  BY <1>1, <1>2, PTL DEF LoginSpec

\* However attempts overlap, within a window no more wrong passwords are tried
\* than the limit and one less than the attempts under way; and only an account
\* with as many is refused.
THEOREM LoginsSafe == LoginSpec => []LoginsAreLimited
<1>1. LoginInv => LoginsAreLimited
  <2> SUFFICES ASSUME LoginInv PROVE LoginsAreLimited
    OBVIOUS
  <2>1. LoginTypeOK /\ RoomForAttempts /\ RefusedForReason
    BY DEF LoginInv
  <2>2. ASSUME NEW a \in Accounts
        PROVE  Len(Lately(judged[a])) < FailuresAllowed + Cardinality(Calls)
    <3> PICK n, calls, v : /\ n = Len(Lately(judged[a])) /\ calls = Cardinality(Calls)
                           /\ v = Cardinality(UnderWay(a))
      OBVIOUS
    <3>1. n \in Nat
      BY <2>1, LatelyIsFilter, LatelyCounts DEF LoginTypeOK
    <3>2. v \in Nat /\ calls \in Nat /\ FailuresAllowed \in Nat
      BY <2>1, LoginConstants, AttemptsAreFew DEF LoginConstants, LoginTypeOK, UnderWay
    <3>3. n + v < FailuresAllowed + calls
      BY <2>1 DEF RoomForAttempts
    <3> QED
      BY <3>1, <3>2, <3>3
  <2> QED
    BY <2>1, <2>2 DEF LoginsAreLimited, RefusedForReason
<1> QED
  BY <1>1, LoginInvariant, PTL

=============================================================================
