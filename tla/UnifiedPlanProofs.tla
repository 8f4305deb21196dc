------------------------- MODULE UnifiedPlanProofs -------------------------
(***************************************************************************)
(* What build_plan and the commits of the unified scheduler do, for every  *)
(* vector of requests (UnifiedPlan), and what the recursive functions on   *)
(* sequences compute (Lists, and FlattenSeq of the community modules),     *)
(* which the proofs of UnifiedEngine and MixedStep cite as well.  All are  *)
(* unfolded by Induction, which rests on the well-foundedness of < on Nat  *)
(* alone: the two loops of build_plan by LoopUnfolds; Planning is the      *)
(* invariant of their turns.  The last part says what a turn of the plan   *)
(* does to its request.                                                    *)
(***************************************************************************)
EXTENDS UnifiedPlan, Lists, Functions, SequencesExt, WellFoundedInduction, TLAPS

-----------------------------------------------------------------------------
(* Sequences.                                                              *)

LEMMA Induction ==
  ASSUME NEW S, 0 \in S, \A n \in Nat : n \in S => n + 1 \in S
  PROVE  Nat \subseteq S
<1> DEFINE T == Nat \ S
           L == OpToRel(<, Nat)
<1>1. SUFFICES ASSUME T # {} PROVE FALSE
  OBVIOUS
<1>2. IsWellFoundedOn(L, Nat)
  BY NatLessThanWellFounded
<1>3. PICK x \in T : \A y \in T : ~ (<<y, x>> \in L)
  <2> T \subseteq Nat
    OBVIOUS
  <2> HIDE DEF T, L
  <2> QED BY <1>1, <1>2, WFMin
<1>4. x \in Nat /\ x # 0
  OBVIOUS
<1>5. x - 1 \in Nat /\ x - 1 \notin T
  <2>1. x - 1 \in Nat
    BY <1>4
  <2>2. <<x - 1, x>> \in L
    BY <1>4, <2>1 DEF OpToRel
  <2> QED BY <2>1, <2>2, <1>3
<1>6. x \in S
  <2>1. x - 1 \in S
    BY <1>5
  <2>2. x = (x - 1) + 1
    BY <1>4
  <2> QED BY <1>5, <2>1, <2>2
<1> QED BY <1>6

\* u: what of the first 0, 1, ... elements of s is in S.
Filters(u, s, S) ==
  u = [k \in 0 .. Len(s) |->
         IF k = 0 THEN <<>> ELSE IF s[k] \in S THEN Append(u[k - 1], s[k]) ELSE u[k - 1]]

LEMMA OnlyUnfolds ==
  ASSUME NEW s, NEW S, Len(s) \in Nat
  PROVE  \E u : Filters(u, s, S) /\ Only(s, S) = u[Len(s)]
<1> DEFINE Turn(k, x) == IF s[k] \in S THEN Append(x, s[k]) ELSE x
           Is(h, n) == h = [k \in 0 .. n |-> IF k = 0 THEN <<>> ELSE Turn(k, h[k - 1])]
           Has == {n \in Nat : \E h : Is(h, n)}
<1>1. 0 \in Has
  <2>1. Is([k \in 0 .. 0 |-> <<>>], 0)
    OBVIOUS
  <2> QED BY <2>1
<1>2. ASSUME NEW n \in Nat, n \in Has
      PROVE  n + 1 \in Has
  <2> HIDE DEF Turn
  <2>1. PICK f : Is(f, n)
    BY <1>2
  <2> DEFINE g == [k \in 0 .. n + 1 |-> IF k <= n THEN f[k] ELSE Turn(k, f[n])]
  <2>2. ASSUME NEW k \in 0 .. n + 1
        PROVE  g[k] = IF k = 0 THEN <<>> ELSE Turn(k, g[k - 1])
    <3>1. CASE k = 0
      BY <3>1, <2>1
    <3>2. CASE k \in 1 .. n
      <4>1. g[k] = f[k] /\ g[k - 1] = f[k - 1]
        BY <3>2
      <4>2. f[k] = Turn(k, f[k - 1])
        BY <3>2, <2>1
      <4> QED BY <4>1, <4>2, <3>2
    <3>3. CASE k = n + 1
      <4>1. g[k] = Turn(k, f[n]) /\ g[k - 1] = f[n]
        BY <3>3
      <4> QED BY <4>1, <3>3
    <3> QED BY <3>1, <3>2, <3>3
  <2>3. g = [k \in 0 .. n + 1 |-> IF k = 0 THEN <<>> ELSE Turn(k, g[k - 1])]
    <3>1. g = [k \in 0 .. n + 1 |-> g[k]]
      OBVIOUS
    <3> HIDE DEF g
    <3> QED BY <3>1, <2>2
  <2>4. Is(g, n + 1)
    BY <2>3
  <2> HIDE DEF g, Is
  <2> QED BY <2>4, <1>2
<1>3. Len(s) \in Has
  <2> HIDE DEF Has
  <2> QED BY <1>1, <1>2, Induction
<1>4. PICK f : Is(f, Len(s))
  BY <1>3
<1> DEFINE Upto == CHOOSE h : Is(h, Len(s))
<1>5. Only(s, S) = Upto[Len(s)]
  BY Zenon DEF Only
<1>6. Is(Upto, Len(s))
  <2> HIDE DEF Is
  <2> QED BY <1>4
<1>7. Filters(Upto, s, S)
  BY <1>6 DEF Filters
<1> HIDE DEF Upto
<1> QED BY <1>5, <1>7

LEMMA OnlySteps ==
  ASSUME NEW s, NEW S, NEW u, Filters(u, s, S), Len(s) \in Nat
  PROVE  /\ u[0] = <<>>
         /\ \A k \in 1 .. Len(s) :
              u[k] = IF s[k] \in S THEN Append(u[k - 1], s[k]) ELSE u[k - 1]
<1>1. u[0] = <<>>
  <2>1. 0 \in 0 .. Len(s)
    OBVIOUS
  <2> QED BY <2>1 DEF Filters
<1>2. \A k \in 1 .. Len(s) : k \in 0 .. Len(s) /\ k # 0
  OBVIOUS
<1> QED BY <1>1, <1>2 DEF Filters

(* Only keeps the elements of S and nothing else, and what told the        *)
(* elements of s apart tells those of the result apart.                    *)
LEMMA OnlyFacts ==
  ASSUME NEW T, NEW s \in Seq(T), NEW S, NEW f
  PROVE  /\ Only(s, S) \in Seq(T)
         /\ Len(Only(s, S)) <= Len(s)
         /\ Range(Only(s, S)) = Range(s) \cap S
         /\ (\A j, k \in DOMAIN s : f[s[j]] = f[s[k]] => j = k) =>
              \A j, k \in DOMAIN Only(s, S) : f[Only(s, S)[j]] = f[Only(s, S)[k]] => j = k
<1>1. Len(s) \in Nat /\ DOMAIN s = 1 .. Len(s) /\ \A k \in DOMAIN s : s[k] \in T
  OBVIOUS
<1>2. PICK u : Filters(u, s, S) /\ Only(s, S) = u[Len(s)]
  BY <1>1, OnlyUnfolds
<1> DEFINE Apart(n) == \A j, k \in 1 .. n : f[s[j]] = f[s[k]] => j = k
           Good(n, t) ==
             /\ t \in Seq(T)
             /\ Len(t) <= n
             /\ Range(t) = {s[k] : k \in 1 .. n} \cap S
             /\ Apart(n) => \A j, k \in DOMAIN t : f[t[j]] = f[t[k]] => j = k
           Fine == {n \in Nat : n <= Len(s) => Good(n, u[n])}
<1>3. 0 \in Fine
  <2>1. u[0] = <<>>
    BY <1>1, <1>2, OnlySteps
  <2>2. Good(0, <<>>)
    BY DEF Range
  <2> QED BY <2>1, <2>2
<1>4. ASSUME NEW n \in Nat, n \in Fine
      PROVE  n + 1 \in Fine
  <2>1. SUFFICES ASSUME n + 1 <= Len(s)
                 PROVE  Good(n + 1, u[n + 1])
    OBVIOUS
  <2> DEFINE t == u[n]
             x == s[n + 1]
  <2>2. Good(n, t) /\ x \in T
    BY <1>1, <1>4, <2>1
  <2>3. u[n + 1] = IF x \in S THEN Append(t, x) ELSE t
    <3>1. n + 1 \in 1 .. Len(s) /\ (n + 1) - 1 = n
      BY <1>1, <2>1
    <3>2. u[n + 1] = IF s[n + 1] \in S
                     THEN Append(u[(n + 1) - 1], s[n + 1]) ELSE u[(n + 1) - 1]
      BY <1>1, <1>2, <3>1, OnlySteps
    <3> QED BY <3>1, <3>2
  <2>4. {s[k] : k \in 1 .. n + 1} = {s[k] : k \in 1 .. n} \cup {x}
    <3>1. 1 .. n + 1 = (1 .. n) \cup {n + 1}
      OBVIOUS
    <3> QED BY <3>1
  <2> HIDE DEF t
  <2>5. CASE x \in S
    <3> DEFINE v == Append(t, x)
    <3>1. /\ v \in Seq(T) /\ Len(v) = Len(t) + 1 /\ Len(t) \in Nat
          /\ DOMAIN v = 1 .. Len(t) + 1 /\ DOMAIN t = 1 .. Len(t)
          /\ v[Len(t) + 1] = x /\ \A k \in DOMAIN t : v[k] = t[k]
      BY <2>2
    <3> HIDE DEF v, x
    <3>2. Range(v) = Range(t) \cup {x}
      BY <3>1 DEF Range
    <3>3. Range(v) = {s[k] : k \in 1 .. n + 1} \cap S
      BY <2>2, <2>4, <2>5, <3>2
    <3>4. ASSUME Apart(n + 1), NEW j \in DOMAIN v, NEW k \in DOMAIN v, f[v[j]] = f[v[k]]
          PROVE  j = k
      <4>1. \A i \in 1 .. n : f[s[i]] # f[s[n + 1]]
        BY <3>4
      <4>2. \A i \in DOMAIN t : f[t[i]] # f[x]
        <5>1. \A i \in DOMAIN t : \E l \in 1 .. n : t[i] = s[l]
          BY <2>2 DEF Range
        <5> QED BY <4>1, <5>1 DEF x
      <4>3. Apart(n)
        BY <3>4
      <4>4. \A i, l \in DOMAIN t : f[t[i]] = f[t[l]] => i = l
        BY <2>2, <4>3
      <4> HIDE DEF Apart, Good
      <4> QED BY <3>1, <3>4, <4>2, <4>4
    <3>5. Len(v) <= n + 1
      BY <2>2, <3>1
    <3>6. Good(n + 1, v)
      BY <3>1, <3>3, <3>4, <3>5
    <3> QED BY <2>3, <2>5, <3>6 DEF v
  <2>6. CASE x \notin S
    <3>1. u[n + 1] = t
      BY <2>3, <2>6
    <3>2. {s[k] : k \in 1 .. n + 1} \cap S = {s[k] : k \in 1 .. n} \cap S
      BY <2>4, <2>6
    <3>3. Apart(n + 1) => Apart(n)
      OBVIOUS
    <3> HIDE DEF Apart
    <3> QED BY <2>2, <3>1, <3>2, <3>3
  <2> QED BY <2>5, <2>6
<1>5. Good(Len(s), u[Len(s)])
  <2> HIDE DEF Good
  <2>1. Len(s) \in Fine
    <3> HIDE DEF Fine
    <3> QED BY <1>1, <1>3, <1>4, Induction
  <2> QED BY <1>1, <2>1
<1>6. Range(s) = {s[k] : k \in 1 .. Len(s)}
  BY <1>1 DEF Range
<1> QED BY <1>1, <1>2, <1>5, <1>6

-----------------------------------------------------------------------------
(* Sums.                                                                   *)

LEMMA SumsUnfold ==
  ASSUME NEW ns, Len(ns) \in Nat
  PROVE  Sums(ns) = [k \in 0 .. Len(ns) |-> IF k = 0 THEN 0 ELSE Sums(ns)[k - 1] + ns[k]]
<1> DEFINE Is(h, n) == h = [k \in 0 .. n |-> IF k = 0 THEN 0 ELSE h[k - 1] + ns[k]]
           Has == {n \in Nat : \E h : Is(h, n)}
<1>1. 0 \in Has
  <2>1. Is([k \in 0 .. 0 |-> 0], 0)
    OBVIOUS
  <2> QED BY <2>1
<1>2. ASSUME NEW n \in Nat, n \in Has
      PROVE  n + 1 \in Has
  <2>1. PICK f : Is(f, n)
    BY <1>2
  <2> DEFINE g == [k \in 0 .. n + 1 |-> IF k <= n THEN f[k] ELSE f[n] + ns[k]]
  <2>2. ASSUME NEW k \in 0 .. n + 1
        PROVE  g[k] = IF k = 0 THEN 0 ELSE g[k - 1] + ns[k]
    <3>1. CASE k = 0
      BY <3>1, <2>1
    <3>2. CASE k \in 1 .. n
      <4>1. g[k] = f[k] /\ g[k - 1] = f[k - 1]
        BY <3>2
      <4>2. f[k] = f[k - 1] + ns[k]
        BY <3>2, <2>1
      <4> QED BY <4>1, <4>2, <3>2
    <3>3. CASE k = n + 1
      <4>1. g[k] = f[n] + ns[k] /\ g[k - 1] = f[n]
        BY <3>3
      <4> QED BY <4>1, <3>3
    <3> QED BY <3>1, <3>2, <3>3
  <2>3. g = [k \in 0 .. n + 1 |-> IF k = 0 THEN 0 ELSE g[k - 1] + ns[k]]
    <3>1. g = [k \in 0 .. n + 1 |-> g[k]]
      OBVIOUS
    <3> HIDE DEF g
    <3> QED BY <3>1, <2>2
  <2>4. Is(g, n + 1)
    BY <2>3
  <2> HIDE DEF g, Is
  <2> QED BY <2>4, <1>2
<1>3. Len(ns) \in Has
  <2> HIDE DEF Has
  <2> QED BY <1>1, <1>2, Induction
<1>4. PICK f : Is(f, Len(ns))
  BY <1>3
<1> DEFINE Upto == CHOOSE h : Is(h, Len(ns))
<1>5. Sums(ns) = Upto
  BY Zenon DEF Sums
<1>6. Is(Upto, Len(ns))
  <2> HIDE DEF Is
  <2> QED BY <1>4
<1> QED BY <1>5, <1>6

\* f is the sequence of the sums of ns.
Adds(f, ns) ==
  /\ f \in [0 .. Len(ns) -> Nat]
  /\ f[0] = 0
  /\ \A k \in 1 .. Len(ns) : f[k] = f[k - 1] + ns[k]

LEMMA SumsAdd ==
  ASSUME NEW ns \in Seq(Nat)
  PROVE  Adds(Sums(ns), ns)
<1>1. Len(ns) \in Nat /\ \A k \in 1 .. Len(ns) : ns[k] \in Nat
  OBVIOUS
<1> DEFINE f == Sums(ns)
<1>2. f = [k \in 0 .. Len(ns) |-> IF k = 0 THEN 0 ELSE f[k - 1] + ns[k]]
  BY <1>1, SumsUnfold
<1> HIDE DEF f
<1>3. f[0] = 0
  BY <1>1, <1>2
<1>4. \A k \in 1 .. Len(ns) : f[k] = f[k - 1] + ns[k]
  <2> TAKE k \in 1 .. Len(ns)
  <2>1. k \in 0 .. Len(ns) /\ k # 0
    BY <1>1
  <2> QED BY <1>2, <2>1
<1> DEFINE Fine == {n \in Nat : n <= Len(ns) => f[n] \in Nat}
<1>5. 0 \in Fine
  BY <1>3
<1>6. ASSUME NEW n \in Nat, n \in Fine
      PROVE  n + 1 \in Fine
  <2>1. SUFFICES ASSUME n + 1 <= Len(ns) PROVE f[n + 1] \in Nat
    OBVIOUS
  <2>2. n + 1 \in 1 .. Len(ns) /\ (n + 1) - 1 = n /\ f[n] \in Nat
    BY <1>1, <1>6, <2>1
  <2>3. f[n + 1] = f[n] + ns[n + 1] /\ ns[n + 1] \in Nat
    BY <1>1, <1>4, <2>2
  <2> QED BY <2>2, <2>3
<1>7. \A n \in Nat : n \in Fine
  <2> HIDE DEF Fine
  <2> QED BY <1>5, <1>6, Induction
<1>8. f \in [0 .. Len(ns) -> Nat]
  <2>1. \A k \in 0 .. Len(ns) : f[k] \in Nat
    BY <1>1, <1>7
  <2>2. f = [k \in 0 .. Len(ns) |-> f[k]]
    BY <1>2
  <2> QED BY <2>1, <2>2
<1> QED BY <1>3, <1>4, <1>8 DEF Adds, f

LEMMA AddsAre ==
  ASSUME NEW ns \in Seq(Nat), NEW f, Adds(f, ns)
  PROVE  /\ Len(ns) \in Nat /\ f[0] = 0
         /\ \A k \in 0 .. Len(ns) : f[k] \in Nat
         /\ \A k \in 1 .. Len(ns) :
              /\ k - 1 \in 0 .. Len(ns) /\ f[k - 1] \in Nat /\ ns[k] \in Nat
              /\ f[k] = f[k - 1] + ns[k]
<1>1. Len(ns) \in Nat /\ \A k \in 1 .. Len(ns) : ns[k] \in Nat
  OBVIOUS
<1>2. f[0] = 0 /\ \A k \in 0 .. Len(ns) : f[k] \in Nat
  BY <1>1 DEF Adds
<1>3. \A k \in 1 .. Len(ns) : k - 1 \in 0 .. Len(ns) /\ f[k] = f[k - 1] + ns[k]
  BY <1>1 DEF Adds
<1> QED BY <1>1, <1>2, <1>3

(* The recursion has one solution; it grows, and each number up to the     *)
(* whole sum lies in the stretch of one of the summands.                   *)
LEMMA AddsGrow ==
  ASSUME NEW ns \in Seq(Nat), NEW f, Adds(f, ns)
  PROVE  \A j, k \in 0 .. Len(ns) : j <= k => f[j] <= f[k]
<1>1. Len(ns) \in Nat /\ \A k \in 1 .. Len(ns) : ns[k] \in Nat
  OBVIOUS
<1> DEFINE Fine == {n \in Nat : n <= Len(ns) => \A j \in 0 .. n : f[j] <= f[n]}
<1>2. 0 \in Fine
  BY AddsAre
<1>3. ASSUME NEW n \in Nat, n \in Fine
      PROVE  n + 1 \in Fine
  <2>1. SUFFICES ASSUME n + 1 <= Len(ns), NEW j \in 0 .. n + 1
                 PROVE  f[j] <= f[n + 1]
    OBVIOUS
  <2>2. n + 1 \in 1 .. Len(ns) /\ (n + 1) - 1 = n /\ n \in 0 .. Len(ns)
    BY <1>1, <2>1
  <2>3. f[n + 1] = f[n] + ns[n + 1] /\ ns[n + 1] \in Nat /\ f[n] \in Nat /\ f[n + 1] \in Nat
    <3>1. n + 1 \in 0 .. Len(ns)
      BY <1>1, <2>2
    <3> QED BY <2>2, <3>1, AddsAre
  <2>4. CASE j = n + 1
    BY <2>3, <2>4
  <2>5. CASE j \in 0 .. n
    <3>0. j \in 0 .. Len(ns) /\ n <= Len(ns)
      BY <1>1, <2>1, <2>5
    <3>1. f[j] <= f[n] /\ f[j] \in Nat
      BY <1>3, <2>5, <3>0, AddsAre
    <3> QED BY <2>3, <3>1
  <2> QED BY <2>4, <2>5
<1>4. \A n \in Nat : n \in Fine
  <2> HIDE DEF Fine
  <2> QED BY <1>2, <1>3, Induction
<1> QED BY <1>1, <1>4

LEMMA AddsOnce ==
  ASSUME NEW ns \in Seq(Nat), NEW f, Adds(f, ns), NEW ms \in Seq(Nat), NEW g, Adds(g, ms),
         NEW n \in Nat, n <= Len(ns), n <= Len(ms), \A k \in 1 .. n : ns[k] = ms[k]
  PROVE  f[n] = g[n]
<1>1. Len(ns) \in Nat /\ Len(ms) \in Nat
  OBVIOUS
<1> DEFINE Same == {k \in Nat : k <= n => f[k] = g[k]}
<1>2. 0 \in Same
  BY DEF Adds
<1>3. ASSUME NEW k \in Nat, k \in Same
      PROVE  k + 1 \in Same
  <2>1. SUFFICES ASSUME k + 1 <= n PROVE f[k + 1] = g[k + 1]
    OBVIOUS
  <2>2. k + 1 \in 1 .. n /\ k + 1 \in 1 .. Len(ns) /\ k + 1 \in 1 .. Len(ms)
        /\ (k + 1) - 1 = k /\ f[k] = g[k]
    BY <1>1, <1>3, <2>1
  <2>3. f[k + 1] = f[k] + ns[k + 1] /\ g[k + 1] = g[k] + ms[k + 1]
    BY <2>2 DEF Adds
  <2> QED BY <2>2, <2>3
<1>4. \A k \in Nat : k \in Same
  <2> HIDE DEF Same
  <2> QED BY <1>2, <1>3, Induction
<1> QED BY <1>4

LEMMA AddsReach ==
  ASSUME NEW ns \in Seq(Nat), NEW f, Adds(f, ns), NEW i \in Nat \ {0}, i <= f[Len(ns)]
  PROVE  \E k \in 1 .. Len(ns) : f[k - 1] < i /\ i <= f[k]
<1>1. Len(ns) \in Nat
  OBVIOUS
<1> DEFINE Fine == {n \in Nat : n <= Len(ns) /\ i <= f[n] =>
                      \E k \in 1 .. Len(ns) : f[k - 1] < i /\ i <= f[k]}
<1>2. 0 \in Fine
  BY DEF Adds
<1>3. ASSUME NEW n \in Nat, n \in Fine
      PROVE  n + 1 \in Fine
  <2>1. SUFFICES ASSUME n + 1 <= Len(ns), i <= f[n + 1]
                 PROVE  \E k \in 1 .. Len(ns) : f[k - 1] < i /\ i <= f[k]
    OBVIOUS
  <2>2. n + 1 \in 1 .. Len(ns) /\ (n + 1) - 1 = n /\ n \in 0 .. Len(ns) /\ f[n] \in Nat
    <3>1. n + 1 \in 1 .. Len(ns) /\ (n + 1) - 1 = n /\ n \in 0 .. Len(ns)
      BY <1>1, <2>1
    <3> QED BY <3>1, AddsAre
  <2>3. CASE i <= f[n]
    BY <1>1, <1>3, <2>1, <2>3
  <2>4. CASE ~ (i <= f[n])
    BY <2>1, <2>2, <2>4
  <2> QED BY <2>3, <2>4
<1>4. Len(ns) \in Fine
  <2> HIDE DEF Fine
  <2> QED BY <1>1, <1>2, <1>3, Induction
<1> QED BY <1>1, <1>4

-----------------------------------------------------------------------------
(* FlattenSeq.                                                             *)

(* What FlattenSeq computes, taken apart.                                  *)
LEMMA FlattenUnfolds ==
    ASSUME NEW n \in Nat, NEW s
    PROVE  n > 0 =>
             \E f : f = [i \in 1 .. n |-> IF i = 1 THEN s[i] ELSE f[i - 1] \o s[i]]
<1> DEFINE Is(h, m) == h = [i \in 1 .. m |-> IF i = 1 THEN s[i] ELSE h[i - 1] \o s[i]]
           Has == {m \in Nat : \E h : Is(h, m)}
<1>1. 0 \in Has
  <2>1. Is([i \in 1 .. 0 |-> 0], 0)
    OBVIOUS
  <2> QED BY <2>1
<1>2. ASSUME NEW m \in Nat, m \in Has
      PROVE  m + 1 \in Has
  <2>1. PICK f : Is(f, m)
    BY <1>2
  <2> DEFINE g == [i \in 1 .. m + 1 |->
                     IF i <= m THEN f[i] ELSE IF i = 1 THEN s[i] ELSE f[i - 1] \o s[i]]
  <2>2. \A i \in 1 .. m + 1 : g[i] = IF i = 1 THEN s[i] ELSE g[i - 1] \o s[i]
    <3> TAKE i \in 1 .. m + 1
    <3>1. CASE i <= m
      <4>1. i \in 1 .. m /\ g[i] = f[i]
        BY <3>1
      <4>2. i # 1 => i - 1 \in 1 .. m + 1 /\ i - 1 <= m /\ g[i - 1] = f[i - 1]
        BY <3>1
      <4>3. f[i] = IF i = 1 THEN s[i] ELSE f[i - 1] \o s[i]
        BY <2>1, <4>1
      <4> HIDE DEF g
      <4> QED BY <4>1, <4>2, <4>3
    <3>2. CASE ~ (i <= m)
      <4>1. g[i] = IF i = 1 THEN s[i] ELSE f[i - 1] \o s[i]
        BY <3>2
      <4>2. i # 1 => i - 1 \in 1 .. m + 1 /\ i - 1 <= m /\ g[i - 1] = f[i - 1]
        BY <3>2
      <4> HIDE DEF g
      <4> QED BY <4>1, <4>2
    <3> QED BY <3>1, <3>2
  <2>3. Is(g, m + 1)
    <3>1. g = [i \in 1 .. m + 1 |-> g[i]]
      OBVIOUS
    <3> HIDE DEF g
    <3> QED BY <2>2, <3>1
  <2> HIDE DEF g, Is
  <2> QED BY <2>3
<1> HIDE DEF Has
<1>3. Nat \subseteq Has
  BY <1>1, <1>2, Induction
<1>4. n \in Has
  BY <1>3
<1> QED BY <1>4 DEF Has

(* The sequences FlattenSeq puts together, one by one.                     *)
Joined(f, s) ==
  f = [i \in 1 .. Len(s) |-> IF i = 1 THEN s[i] ELSE f[i - 1] \o s[i]]

LEMMA FlattenJoins ==
    ASSUME NEW T, NEW s \in Seq(T)
    PROVE  IF Len(s) = 0 THEN FlattenSeq(s) = <<>>
           ELSE \E f : Joined(f, s) /\ FlattenSeq(s) = f[Len(s)]
<1>1. CASE Len(s) = 0
  <2>1. FlattenSeq(s) = s
    BY <1>1 DEF FlattenSeq
  <2>2. s = <<>>
    BY <1>1
  <2> QED BY <1>1, <2>1, <2>2
<1>2. CASE Len(s) # 0
  <2>1. PICK n \in Nat : n = Len(s)
    OBVIOUS
  <2>2. n > 0
    BY <1>2, <2>1
  <2>3. \E f : Joined(f, s)
    BY <2>1, <2>2, FlattenUnfolds, Zenon DEF Joined
  <2> DEFINE all == CHOOSE f : Joined(f, s)
  <2>4. Joined(all, s)
    BY <2>3
  <2>5. FlattenSeq(s) = all[Len(s)]
    BY <1>2, Zenon DEF FlattenSeq, Joined
  <2> HIDE DEF all
  <2> QED BY <1>2, <2>4, <2>5
<1> QED BY <1>1, <1>2

Follows(T, t, x, v) ==
  /\ v \in Seq(T) /\ Len(v) = Len(t) + Len(x)
  /\ Len(t) \in Nat /\ Len(x) \in Nat
  /\ \A i \in 1 .. Len(t) : v[i] = t[i]
  /\ \A j \in 1 .. Len(x) : v[Len(t) + j] = x[j]

LEMMA Concatenated ==
  ASSUME NEW T, NEW t \in Seq(T), NEW x \in Seq(T)
  PROVE  Follows(T, t, x, t \o x)
<1>1. t \o x \in Seq(T) /\ Len(t \o x) = Len(t) + Len(x) /\ Len(t) \in Nat /\ Len(x) \in Nat
  OBVIOUS
<1>2. \A i \in 1 .. Len(t) : (t \o x)[i] = t[i]
  OBVIOUS
<1>3. \A j \in 1 .. Len(x) : (t \o x)[Len(t) + j] = x[j]
  OBVIOUS
<1> QED BY <1>1, <1>2, <1>3 DEF Follows

LEMMA Within ==
  ASSUME NEW a \in Nat, NEW n \in Nat, NEW c \in Nat, a + n <= c, NEW j \in 1 .. n
  PROVE  a + j \in 1 .. c
  OBVIOUS

\* v: the sequences of s, each where the lengths of those before it add up to.
Lies(T, s, ns, f, v) ==
  /\ v \in Seq(T)
  /\ Len(v) = f[Len(s)]
  /\ \A k \in 1 .. Len(s) : \A j \in 1 .. ns[k] : v[f[k - 1] + j] = s[k][j]

LEMMA FlattenAt ==
  ASSUME NEW T, NEW s \in Seq(Seq(T)), NEW ns \in Seq(Nat), Len(ns) = Len(s),
         \A k \in 1 .. Len(s) : Len(s[k]) = ns[k], NEW f, Adds(f, ns)
  PROVE  Lies(T, s, ns, f, FlattenSeq(s))
<1>1. Len(s) \in Nat /\ \A k \in 1 .. Len(s) : s[k] \in Seq(T) /\ ns[k] \in Nat
  OBVIOUS
<1>2. f[0] = 0 /\ \A k \in 1 .. Len(s) : f[k] = f[k - 1] + ns[k] /\ f[k - 1] \in Nat
  BY AddsAre
<1>3. CASE Len(s) = 0
  <2>1. FlattenSeq(s) = <<>>
    BY <1>3, FlattenJoins
  <2> QED BY <1>2, <1>3, <2>1 DEF Lies
<1>4. CASE Len(s) # 0
  <2>1. PICK g : Joined(g, s) /\ FlattenSeq(s) = g[Len(s)]
    BY <1>4, FlattenJoins
  <2> DEFINE Good(n, t) ==
               /\ t \in Seq(T)
               /\ Len(t) = f[n]
               /\ \A k \in 1 .. n : \A j \in 1 .. ns[k] : t[f[k - 1] + j] = s[k][j]
             Fine == {n \in Nat : n + 1 <= Len(s) => Good(n + 1, g[n + 1])}
  <2>2. 0 \in Fine
    <3>1. g[1] = s[1] /\ 1 \in 1 .. Len(s)
      BY <1>1, <1>4, <2>1 DEF Joined
    <3>2. f[1] = ns[1] /\ f[1 - 1] = 0
      BY <1>1, <1>2, <3>1
    <3>3. Good(1, s[1])
      <4>1. \A k \in 1 .. 1 : k = 1
        OBVIOUS
      <4>2. \A j \in 1 .. ns[1] : 0 + j = j
        BY <1>1, <3>1
      <4> QED BY <1>1, <3>1, <3>2, <4>1, <4>2
    <3> HIDE DEF Good
    <3> QED BY <3>1, <3>3
  <2>3. ASSUME NEW n \in Nat, n \in Fine
        PROVE  n + 1 \in Fine
    <3> DEFINE m == n + 1
    <3>1. SUFFICES ASSUME m + 1 <= Len(s)
                   PROVE  Good(m + 1, g[m + 1])
      OBVIOUS
    <3>2. m \in Nat \ {0} /\ m + 1 \in 1 .. Len(s) /\ m \in 1 .. Len(s) /\ m + 1 # 1
          /\ (m + 1) - 1 = m
      BY <1>1, <3>1
    <3>3. Good(m, g[m])
      BY <1>1, <2>3, <3>2
    <3> HIDE DEF m
    <3>4. g[m + 1] = g[m] \o s[m + 1]
      BY <2>1, <3>2 DEF Joined
    <3> DEFINE t == g[m]
               x == s[m + 1]
               v == t \o x
    <3>5. /\ t \in Seq(T) /\ x \in Seq(T) /\ Len(t) = f[m] /\ Len(x) = ns[m + 1]
          /\ f[m] \in Nat /\ ns[m + 1] \in Nat /\ f[m + 1] = f[m] + ns[m + 1]
      BY <1>1, <1>2, <3>2, <3>3
    <3>6. \A k \in 1 .. m : \A j \in 1 .. ns[k] : t[f[k - 1] + j] = s[k][j]
      BY <3>3
    <3> HIDE DEF t, x, Good
    <3> DEFINE p == Len(t)
               q == Len(x)
    <3>10. /\ p \in Nat /\ q \in Nat /\ v \in Seq(T) /\ Len(v) = p + q
           /\ \A i \in 1 .. p : v[i] = t[i]
           /\ \A j \in 1 .. q : v[p + j] = x[j]
      <4>1. Follows(T, t, x, v)
        BY <3>5, Concatenated
      <4> QED BY <4>1 DEF Follows
    <3>7. /\ v \in Seq(T) /\ Len(v) = f[m + 1]
          /\ \A i \in 1 .. f[m] : v[i] = t[i]
          /\ \A j \in 1 .. ns[m + 1] : v[f[m] + j] = x[j]
      <4> HIDE DEF v
      <4> QED BY <3>5, <3>10
    <3> HIDE DEF v
    <3>8. ASSUME NEW k \in 1 .. m + 1, NEW j \in 1 .. ns[k]
          PROVE  v[f[k - 1] + j] = s[k][j]
      <4>1. CASE k = m + 1
        BY <3>2, <3>7, <3>8, <4>1 DEF x
      <4>2. CASE k \in 1 .. m
        <5>1. f[k] = f[k - 1] + ns[k] /\ f[k - 1] \in Nat /\ ns[k] \in Nat
          BY SMTT(30), <1>1, <1>2, <3>2, <4>2
        <5>2. f[k] <= f[m]
          <6>1. k \in 0 .. Len(ns) /\ m \in 0 .. Len(ns) /\ k <= m
            BY <1>1, <3>2, <4>2
          <6> QED BY <6>1, AddsGrow
        <5>3. f[k - 1] + j \in 1 .. f[m]
          <6>1. f[k - 1] + ns[k] <= f[m] /\ f[m] \in Nat
            BY <3>5, <5>1, <5>2
          <6> QED BY <5>1, <6>1, Within, Zenon
        <5> QED BY <3>6, <3>7, <3>8, <4>2, <5>3
      <4> QED BY <3>2, <3>8, <4>1, <4>2
    <3>9. Good(m + 1, v)
      BY <3>7, <3>8 DEF Good
    <3> QED BY <3>4, <3>9 DEF v, t, x
  <2>4. Len(s) - 1 \in Fine
    <3>1. Len(s) - 1 \in Nat
      BY <1>1, <1>4
    <3> HIDE DEF Fine
    <3> QED BY <2>2, <2>3, <3>1, Induction
  <2>5. Good(Len(s), g[Len(s)])
    <3>1. (Len(s) - 1) + 1 = Len(s)
      BY <1>1
    <3> HIDE DEF Good
    <3> QED BY <1>1, <2>4, <3>1
  <2> QED BY <2>1, <2>5 DEF Lies
<1> QED BY <1>3, <1>4

-----------------------------------------------------------------------------
(* The sum of a number of each element.                                    *)

WeightsOf(w, s) == [k \in DOMAIN s |-> w[s[k]]]

Weight(w, s) == Sums(WeightsOf(w, s))[Len(s)]

Weighs(w, s, ns, f) ==
  /\ ns \in Seq(Nat) /\ Len(s) \in Nat /\ Len(ns) = Len(s)
  /\ \A k \in 1 .. Len(s) : ns[k] = w[s[k]]
  /\ Adds(f, ns)
  /\ Weight(w, s) = f[Len(s)] /\ f[Len(s)] \in Nat

LEMMA WeightAdds ==
  ASSUME NEW T, NEW w \in [T -> Nat], NEW s \in Seq(T)
  PROVE  Weighs(w, s, WeightsOf(w, s), Sums(WeightsOf(w, s)))
<1> DEFINE ns == WeightsOf(w, s)
<1>1. Len(s) \in Nat /\ DOMAIN s = 1 .. Len(s) /\ \A k \in 1 .. Len(s) : s[k] \in T
  OBVIOUS
<1>2. ns \in Seq(Nat) /\ Len(ns) = Len(s) /\ \A k \in 1 .. Len(s) : ns[k] = w[s[k]]
  <2>1. ns = [k \in 1 .. Len(s) |-> w[s[k]]]
    BY <1>1 DEF WeightsOf
  <2>2. \A k \in 1 .. Len(s) : w[s[k]] \in Nat
    BY <1>1
  <2> HIDE DEF ns
  <2>3. ns \in Seq(Nat)
    BY <1>1, <2>1, <2>2
  <2> QED BY <1>1, <2>1, <2>3
<1> HIDE DEF ns
<1>3. Adds(Sums(ns), ns)
  BY <1>2, SumsAdd
<1>4. Sums(ns)[Len(ns)] \in Nat
  BY <1>2, <1>3, AddsAre
<1>5. Weight(w, s) = Sums(ns)[Len(s)]
  BY DEF Weight, ns
<1> QED BY <1>1, <1>2, <1>3, <1>4, <1>5 DEF ns, Weighs

LEMMA WeightOfNone ==
  ASSUME NEW w
  PROVE  Weight(w, <<>>) = 0
<1> DEFINE ns == WeightsOf(w, <<>>)
<1>1. ns \in Seq(Nat) /\ Len(ns) = 0
  BY DEF WeightsOf
<1>2. Adds(Sums(ns), ns)
  BY <1>1, SumsAdd
<1> HIDE DEF ns
<1>3. Sums(ns)[0] = 0
  BY <1>2 DEF Adds
<1> QED BY <1>3 DEF Weight, ns

LEMMA WeightOfMore ==
  ASSUME NEW T, NEW w \in [T -> Nat], NEW s \in Seq(T), NEW x \in T
  PROVE  Weight(w, Append(s, x)) = Weight(w, s) + w[x]
<1> DEFINE t  == Append(s, x)
           ns == WeightsOf(w, s)
           ms == WeightsOf(w, t)
           n  == Len(s)
<1>1. /\ t \in Seq(T) /\ n \in Nat /\ Len(t) = n + 1 /\ t[n + 1] = x
      /\ \A k \in 1 .. n : t[k] = s[k]
  OBVIOUS
<1> HIDE DEF t
<1> DEFINE f  == Sums(ns)
           g  == Sums(ms)
<1>2. Weighs(w, s, ns, f)
  BY WeightAdds
<1>3. Weighs(w, t, ms, g)
  BY <1>1, WeightAdds
<1> HIDE DEF ns, ms, n, f, g
<1>4. /\ ns \in Seq(Nat) /\ ms \in Seq(Nat) /\ n <= Len(ns) /\ n <= Len(ms)
      /\ n + 1 \in 1 .. Len(ms) /\ Adds(f, ns) /\ Adds(g, ms)
  BY <1>1, <1>2, <1>3 DEF Weighs, n
<1>5. \A k \in 1 .. n : ns[k] = ms[k]
  <2> TAKE k \in 1 .. n
  <2>1. k \in 1 .. n + 1
    BY <1>1
  <2>2. ns[k] = w[s[k]] /\ ms[k] = w[t[k]]
    BY <1>1, <1>2, <1>3, <2>1 DEF Weighs, n
  <2> QED BY <1>1, <2>2
<1>6. f[n] = g[n]
  <2>1. n \in Nat
    BY <1>1
  <2>2. ns \in Seq(Nat) /\ ms \in Seq(Nat) /\ n <= Len(ns) /\ n <= Len(ms)
    BY <1>4
  <2>3. Adds(f, ns) /\ Adds(g, ms)
    BY <1>4
  <2> QED BY ONLY <2>1, <2>2, <2>3, <1>5, AddsOnce, SMTT(30)
<1>7. g[n + 1] = g[n] + ms[n + 1]
  <2>1. g[n + 1] = g[(n + 1) - 1] + ms[n + 1]
    BY <1>4, AddsAre
  <2> QED BY <1>1, <2>1
<1>8. ms[n + 1] = w[x]
  BY <1>1, <1>3, <1>4 DEF Weighs
<1>9. Weight(w, t) = g[n + 1] /\ Weight(w, s) = f[n]
  BY <1>1, <1>2, <1>3 DEF Weighs, n
<1> QED BY <1>6, <1>7, <1>8, <1>9 DEF t

(* What is in S and what is not add up to the whole.                       *)
LEMMA WeightSplits ==
  ASSUME NEW T, NEW w \in [T -> Nat], NEW s \in Seq(T), NEW S, NEW R,
         \A x \in Range(s) : x \in S <=> x \notin R
  PROVE  Weight(w, Only(s, S)) + Weight(w, Only(s, R)) = Weight(w, s)
<1>1. Len(s) \in Nat /\ \A k \in 1 .. Len(s) : s[k] \in T /\ s[k] \in Range(s)
  BY DEF Range
<1>2. PICK u : Filters(u, s, S) /\ Only(s, S) = u[Len(s)]
  BY <1>1, OnlyUnfolds
<1>3. PICK v : Filters(v, s, R) /\ Only(s, R) = v[Len(s)]
  BY <1>1, OnlyUnfolds
<1> DEFINE ns == WeightsOf(w, s)
           f  == Sums(ns)
<1>4. Weighs(w, s, ns, f)
  BY WeightAdds
<1> HIDE DEF f, ns
<1>5. f[0] = 0 /\ \A k \in 1 .. Len(s) : f[k] = f[k - 1] + w[s[k]] /\ f[k - 1] \in Nat
  <2>1. ns \in Seq(Nat) /\ Adds(f, ns) /\ Len(ns) = Len(s)
    BY <1>4 DEF Weighs
  <2>2. f[0] = 0 /\ \A k \in 1 .. Len(s) : f[k] = f[k - 1] + ns[k] /\ f[k - 1] \in Nat
    BY <2>1, AddsAre
  <2> QED BY <1>4, <2>2 DEF Weighs
<1> DEFINE Good(n, a, b) == /\ a \in Seq(T) /\ b \in Seq(T)
                           /\ Weight(w, a) + Weight(w, b) = f[n]
           Fine == {n \in Nat : n <= Len(s) => Good(n, u[n], v[n])}
<1>6. 0 \in Fine
  <2>1. u[0] = <<>> /\ v[0] = <<>>
    BY <1>1, <1>2, <1>3, OnlySteps
  <2>2. Good(0, <<>>, <<>>)
    BY <1>5, WeightOfNone
  <2> QED BY <2>1, <2>2
<1>7. ASSUME NEW n \in Nat, n \in Fine
      PROVE  n + 1 \in Fine
  <2>1. SUFFICES ASSUME n + 1 <= Len(s)
                 PROVE  Good(n + 1, u[n + 1], v[n + 1])
    OBVIOUS
  <2> DEFINE m == n + 1
             x == s[m]
  <2>2. m - 1 = n /\ m \in 1 .. Len(s)
    BY <1>1, <2>1
  <2>3. Good(n, u[n], v[n])
    BY <1>1, <1>7, <2>1
  <2> HIDE DEF m
  <2>4. u[m] = (IF x \in S THEN Append(u[n], x) ELSE u[n])
    BY <1>1, <1>2, <2>2, OnlySteps
  <2>5. v[m] = (IF x \in R THEN Append(v[n], x) ELSE v[n])
    BY <1>1, <1>3, <2>2, OnlySteps
  <2>6. x \in T /\ (x \in S <=> x \notin R) /\ f[m] = f[n] + w[x] /\ f[n] \in Nat /\ w[x] \in Nat
    BY <1>1, <1>5, <2>2
  <2>7. /\ u[n] \in Seq(T) /\ v[n] \in Seq(T)
        /\ Weight(w, u[n]) \in Nat /\ Weight(w, v[n]) \in Nat
        /\ Weight(w, u[n]) + Weight(w, v[n]) = f[n]
    <3>1. u[n] \in Seq(T) /\ v[n] \in Seq(T) /\ Weight(w, u[n]) + Weight(w, v[n]) = f[n]
      BY <2>3
    <3>2. \A a \in Seq(T) : Weight(w, a) \in Nat
      <4> TAKE a \in Seq(T)
      <4>1. Weighs(w, a, WeightsOf(w, a), Sums(WeightsOf(w, a)))
        BY WeightAdds
      <4> QED BY <4>1 DEF Weighs
    <3> QED BY <3>1, <3>2
  <2> HIDE DEF x, Good
  <2>8. CASE x \in S
    <3>1. u[m] = Append(u[n], x) /\ v[m] = v[n]
      BY <2>4, <2>5, <2>6, <2>8
    <3>2. Weight(w, u[m]) = Weight(w, u[n]) + w[x]
      BY <2>6, <2>7, <3>1, WeightOfMore
    <3>3. u[m] \in Seq(T)
      BY <2>6, <2>7, <3>1
    <3>4. Good(m, u[m], v[m])
      BY <2>6, <2>7, <3>1, <3>2, <3>3 DEF Good
    <3> QED BY <3>4 DEF m
  <2>9. CASE x \notin S
    <3>1. v[m] = Append(v[n], x) /\ u[m] = u[n]
      BY <2>4, <2>5, <2>6, <2>9
    <3>2. Weight(w, v[m]) = Weight(w, v[n]) + w[x]
      BY <2>6, <2>7, <3>1, WeightOfMore
    <3>3. v[m] \in Seq(T)
      BY <2>6, <2>7, <3>1
    <3>4. Good(m, u[m], v[m])
      BY <2>6, <2>7, <3>1, <3>2, <3>3 DEF Good
    <3> QED BY <3>4 DEF m
  <2> QED BY <2>8, <2>9
<1>8. Len(s) \in Fine
  <2> HIDE DEF Fine
  <2> QED BY <1>1, <1>6, <1>7, Induction
<1>9. Weight(w, s) = f[Len(s)]
  BY <1>4 DEF Weighs
<1> QED BY <1>1, <1>2, <1>3, <1>8, <1>9

(* More on sums, and on what Only keeps.                                   *)
LEMMA AddsOnes ==
  ASSUME NEW ns \in Seq(Nat), NEW f, Adds(f, ns), NEW p \in 0 .. Len(ns),
         \A k \in p + 1 .. Len(ns) : ns[k] = 1
  PROVE  \A k \in p .. Len(ns) : f[k] = f[p] + (k - p)
<1>1. Len(ns) \in Nat /\ p \in Nat /\ f[p] \in Nat
  <2>1. Len(ns) \in Nat
    OBVIOUS
  <2> QED BY <2>1, AddsAre
<1> DEFINE Fine == {n \in Nat : p + n <= Len(ns) => f[p + n] = f[p] + n}
<1>2. 0 \in Fine
  BY <1>1
<1>3. ASSUME NEW n \in Nat, n \in Fine
      PROVE  n + 1 \in Fine
  <2>1. SUFFICES ASSUME p + (n + 1) <= Len(ns) PROVE f[p + (n + 1)] = f[p] + (n + 1)
    OBVIOUS
  <2> DEFINE k == p + (n + 1)
  <2>2. k \in 1 .. Len(ns) /\ k \in p + 1 .. Len(ns) /\ k - 1 = p + n /\ p + n <= Len(ns)
    BY <1>1, <2>1
  <2>3. f[p + n] = f[p] + n
    BY <1>3, <2>2
  <2> HIDE DEF k
  <2>4. f[k] = f[k - 1] + ns[k] /\ ns[k] = 1
    BY <2>2, AddsAre
  <2>5. f[k] = f[p] + n + 1
    BY <2>2, <2>3, <2>4
  <2> QED BY <1>1, <2>5 DEF k
<1>4. \A n \in Nat : n \in Fine
  <2> HIDE DEF Fine
  <2> QED BY <1>2, <1>3, Induction
<1> TAKE k \in p .. Len(ns)
<1>5. k - p \in Nat /\ p + (k - p) = k
  BY <1>1
<1>6. k - p \in Fine
  BY <1>4, <1>5
<1> QED BY <1>1, <1>5, <1>6

(* When what is in S comes last, Only drops what is before it.             *)
LEMMA OnlyDrops ==
  ASSUME NEW T, NEW s \in Seq(T), NEW S, NEW p \in 0 .. Len(s),
         \A k \in 1 .. Len(s) : s[k] \in S <=> k > p
  PROVE  Only(s, S) = [j \in 1 .. Len(s) - p |-> s[p + j]]
<1>1. Len(s) \in Nat /\ p \in Nat /\ \A k \in 1 .. Len(s) : s[k] \in T
  OBVIOUS
<1>2. PICK u : Filters(u, s, S) /\ Only(s, S) = u[Len(s)]
  BY <1>1, OnlyUnfolds
<1> DEFINE Good(n, t) == /\ t \in Seq(T)
                        /\ Len(t) = (IF n <= p THEN 0 ELSE n - p)
                        /\ \A j \in 1 .. Len(t) : t[j] = s[p + j]
           Fine == {n \in Nat : n <= Len(s) => Good(n, u[n])}
<1>3. 0 \in Fine
  <2>1. u[0] = <<>>
    BY <1>1, <1>2, OnlySteps
  <2>2. Good(0, <<>>)
    BY <1>1
  <2> QED BY <2>1, <2>2
<1>4. ASSUME NEW n \in Nat, n \in Fine
      PROVE  n + 1 \in Fine
  <2>1. SUFFICES ASSUME n + 1 <= Len(s)
                 PROVE  Good(n + 1, u[n + 1])
    OBVIOUS
  <2> DEFINE m == n + 1
             x == s[m]
             t == u[n]
  <2>2. m - 1 = n /\ m \in 1 .. Len(s) /\ x \in T
    BY <1>1, <2>1
  <2>3. Good(n, t)
    BY <1>1, <1>4, <2>1
  <2>4. u[m] = (IF x \in S THEN Append(t, x) ELSE t) /\ (x \in S <=> m > p)
    <3>1. u[m] = (IF s[m] \in S THEN Append(u[m - 1], s[m]) ELSE u[m - 1])
      <4> HIDE DEF m
      <4> QED BY <1>1, <1>2, <2>2, OnlySteps
    <3> QED BY <2>2, <3>1
  <2> HIDE DEF t
  <2>5. CASE m > p
    <3> DEFINE v == Append(t, x)
    <3>1. /\ v \in Seq(T) /\ Len(v) = Len(t) + 1 /\ Len(t) \in Nat
          /\ v[Len(t) + 1] = x /\ \A j \in 1 .. Len(t) : v[j] = t[j]
      BY <2>2, <2>3
    <3> HIDE DEF v
    <3>2. Len(t) = n - p
      BY <1>1, <2>3, <2>5
    <3>3. Len(v) = (IF m <= p THEN 0 ELSE m - p)
      BY <1>1, <2>5, <3>1, <3>2
    <3>4. \A j \in 1 .. Len(v) : v[j] = s[p + j]
      <4> TAKE j \in 1 .. Len(v)
      <4>1. CASE j \in 1 .. Len(t)
        BY <2>3, <3>1, <4>1
      <4>2. CASE j = Len(t) + 1
        <5>1. p + j = m
          BY <1>1, <3>2, <4>2
        <5> HIDE DEF m
        <5> QED BY <3>1, <4>2, <5>1
      <4> QED BY <3>1, <4>1, <4>2
    <3>5. Good(m, v)
      BY <3>1, <3>3, <3>4
    <3> QED BY <2>4, <2>5, <3>5 DEF v
  <2>6. CASE ~ (m > p)
    <3>1. Good(m, t)
      BY <1>1, <2>3, <2>6
    <3> HIDE DEF Good, x
    <3> QED BY <2>4, <2>6, <3>1
  <2> QED BY <2>5, <2>6
<1>5. Good(Len(s), u[Len(s)])
  <2> HIDE DEF Good
  <2>1. Len(s) \in Fine
    <3> HIDE DEF Fine
    <3> QED BY <1>1, <1>3, <1>4, Induction
  <2> QED BY <1>1, <2>1
<1> DEFINE t == u[Len(s)]
<1>6. t \in Seq(T) /\ Len(t) = Len(s) - p /\ \A j \in 1 .. Len(t) : t[j] = s[p + j]
  BY <1>1, <1>5
<1> HIDE DEF t
<1>7. t = [j \in 1 .. Len(t) |-> t[j]]
  BY <1>6
<1>8. t = [j \in 1 .. Len(s) - p |-> s[p + j]]
  BY <1>6, <1>7
<1> QED BY <1>2, <1>8 DEF t

LEMMA Greatest ==
  ASSUME NEW S \in SUBSET Nat, NEW b \in Nat, \A x \in S : x <= b, S # {}
  PROVE  Max(S) \in S /\ \A x \in S : x <= Max(S)
<1> DEFINE Fine == {n \in Nat : (\A x \in S : x <= n) =>
                                 \E m \in S : \A x \in S : m >= x}
<1>1. 0 \in Fine
  <2>1. SUFFICES ASSUME \A x \in S : x <= 0
                 PROVE  \E m \in S : \A x \in S : m >= x
    OBVIOUS
  <2>2. PICK m \in S : TRUE
    OBVIOUS
  <2>3. \A x \in S : m >= x
    BY <2>1
  <2> QED BY <2>3
<1>2. ASSUME NEW n \in Nat, n \in Fine
      PROVE  n + 1 \in Fine
  <2>1. SUFFICES ASSUME \A x \in S : x <= n + 1
                 PROVE  \E m \in S : \A x \in S : m >= x
    OBVIOUS
  <2>2. CASE n + 1 \in S
    BY <2>1, <2>2
  <2>3. CASE n + 1 \notin S
    <3>1. \A x \in S : x <= n
      BY <2>1, <2>3
    <3> QED BY <1>2, <3>1
  <2> QED BY <2>2, <2>3
<1>3. b \in Fine
  <2> HIDE DEF Fine
  <2> QED BY <1>1, <1>2, Induction
<1>4. \E m \in S : \A x \in S : m >= x
  BY <1>3
<1>5. Max(S) \in S /\ \A x \in S : Max(S) >= x
  BY <1>4 DEF Max
<1> QED BY <1>5

LEMMA AddsLess ==
  ASSUME NEW ns \in Seq(Nat), NEW f, Adds(f, ns), NEW ms \in Seq(Nat), NEW g, Adds(g, ms),
         Len(ns) = Len(ms), \A k \in 1 .. Len(ns) : ns[k] <= ms[k]
  PROVE  f[Len(ns)] <= g[Len(ns)]
<1>1. Len(ns) \in Nat
  OBVIOUS
<1> DEFINE Fine == {n \in Nat : n <= Len(ns) => f[n] \in Nat /\ g[n] \in Nat /\ f[n] <= g[n]}
<1>2. 0 \in Fine
  BY AddsAre
<1>3. ASSUME NEW n \in Nat, n \in Fine
      PROVE  n + 1 \in Fine
  <2> DEFINE m == n + 1
  <2>1. SUFFICES ASSUME m <= Len(ns)
                 PROVE  f[m] \in Nat /\ g[m] \in Nat /\ f[m] <= g[m]
    OBVIOUS
  <2>2. m \in 1 .. Len(ns) /\ m \in 1 .. Len(ms) /\ m - 1 = n /\ n <= Len(ns)
    BY <1>1, <2>1
  <2>3. f[n] \in Nat /\ g[n] \in Nat /\ f[n] <= g[n]
    BY <1>3, <2>2
  <2> HIDE DEF m
  <2>4. f[m] = f[n] + ns[m] /\ ns[m] \in Nat
    BY <2>2, AddsAre
  <2>5. g[m] = g[n] + ms[m] /\ ms[m] \in Nat
    BY <2>2, AddsAre
  <2>6. ns[m] <= ms[m]
    BY <2>2
  <2> QED BY SMTT(30), <2>3, <2>4, <2>5, <2>6
<1>4. Len(ns) \in Fine
  <2> HIDE DEF Fine
  <2> QED BY <1>1, <1>2, <1>3, Induction
<1> QED BY <1>1, <1>4

LEMMA WeightIncluded ==
  ASSUME NEW T, NEW w \in [T -> Nat], NEW s \in Seq(T), NEW S
  PROVE  Weight(w, Only(s, S)) <= Weight(w, s)
<1> DEFINE R == T \ S
<1>1. \A x \in Range(s) : x \in S <=> x \notin R
  BY DEF Range
<1> HIDE DEF R
<1>2. Weight(w, Only(s, S)) + Weight(w, Only(s, R)) = Weight(w, s)
  BY <1>1, WeightSplits
<1>3. Only(s, S) \in Seq(T) /\ Only(s, R) \in Seq(T)
  BY OnlyFacts
<1>4. \A a \in Seq(T) : Weight(w, a) \in Nat
  <2> TAKE a \in Seq(T)
  <2>1. Weighs(w, a, WeightsOf(w, a), Sums(WeightsOf(w, a)))
    BY WeightAdds
  <2> QED BY <2>1 DEF Weighs
<1> QED BY <1>2, <1>3, <1>4

LEMMA FromFunction ==
  ASSUME NEW T, NEW n \in Nat, NEW t, t = [k \in 1 .. n |-> t[k]], \A k \in 1 .. n : t[k] \in T
  PROVE  t \in Seq(T) /\ Len(t) = n
  OBVIOUS

-----------------------------------------------------------------------------
(* build_plan.                                                             *)

LEMMA LoopUnfolds ==
  ASSUME NEW kind, NEW reqs, NEW made, Len(reqs) \in Nat
  PROVE  \E f : /\ Loop(kind, reqs, made) = f[Len(reqs)]
                /\ f = [i \in 0 .. Len(reqs) |->
                          IF i = 0 THEN made ELSE Visit(kind, i, reqs[i], f[i - 1])]
<1> DEFINE Is(h, n) ==
             h = [i \in 0 .. n |-> IF i = 0 THEN made ELSE Visit(kind, i, reqs[i], h[i - 1])]
           Has == {n \in Nat : \E h : Is(h, n)}
<1>1. 0 \in Has
  <2>1. Is([i \in 0 .. 0 |-> made], 0)
    OBVIOUS
  <2> QED BY <2>1
<1>2. ASSUME NEW n \in Nat, n \in Has
      PROVE  n + 1 \in Has
  <2>1. PICK f : Is(f, n)
    BY <1>2
  <2> DEFINE g == [i \in 0 .. n + 1 |->
                     IF i <= n THEN f[i] ELSE Visit(kind, i, reqs[i], f[n])]
  <2>2. ASSUME NEW i \in 0 .. n + 1
        PROVE  g[i] = IF i = 0 THEN made ELSE Visit(kind, i, reqs[i], g[i - 1])
    <3>1. CASE i = 0
      BY <3>1, <2>1
    <3>2. CASE i \in 1 .. n
      <4>1. g[i] = f[i] /\ g[i - 1] = f[i - 1]
        BY <3>2
      <4>2. f[i] = Visit(kind, i, reqs[i], f[i - 1])
        BY <3>2, <2>1
      <4> QED BY <4>1, <4>2, <3>2
    <3>3. CASE i = n + 1
      <4>1. g[i] = Visit(kind, i, reqs[i], f[n]) /\ g[i - 1] = f[n]
        BY <3>3
      <4> QED BY <4>1, <3>3
    <3> QED BY <3>1, <3>2, <3>3
  <2>3. g = [i \in 0 .. n + 1 |->
               IF i = 0 THEN made ELSE Visit(kind, i, reqs[i], g[i - 1])]
    <3>1. g = [i \in 0 .. n + 1 |-> g[i]]
      OBVIOUS
    <3> HIDE DEF g
    <3> QED BY <3>1, <2>2
  <2>4. Is(g, n + 1)
    BY <2>3
  <2> HIDE DEF g, Is
  <2> QED BY <2>4, <1>2
<1>3. Len(reqs) \in Has
  <2> HIDE DEF Has
  <2> QED BY <1>1, <1>2, Induction
<1>4. PICK f : Is(f, Len(reqs))
  BY <1>3
<1> DEFINE After == CHOOSE h : Is(h, Len(reqs))
<1>5. Loop(kind, reqs, made) = After[Len(reqs)]
  BY Zenon DEF Loop
<1>6. Is(After, Len(reqs))
  <2> HIDE DEF Is
  <2> QED BY <1>4
<1> QED BY <1>5, <1>6

LEMMA TokensUnfold ==
  ASSUME NEW s, Len(s) \in Nat
  PROVE  \E f : /\ TokensOf(s) = f[Len(s)]
                /\ f = [k \in 0 .. Len(s) |-> IF k = 0 THEN 0 ELSE f[k - 1] + s[k].tokens]
<1> DEFINE Is(h, n) == h = [k \in 0 .. n |-> IF k = 0 THEN 0 ELSE h[k - 1] + s[k].tokens]
           Has == {n \in Nat : \E h : Is(h, n)}
<1>1. 0 \in Has
  <2>1. Is([k \in 0 .. 0 |-> 0], 0)
    OBVIOUS
  <2> QED BY <2>1
<1>2. ASSUME NEW n \in Nat, n \in Has
      PROVE  n + 1 \in Has
  <2>1. PICK f : Is(f, n)
    BY <1>2
  <2> DEFINE g == [k \in 0 .. n + 1 |-> IF k <= n THEN f[k] ELSE f[n] + s[k].tokens]
  <2>2. ASSUME NEW k \in 0 .. n + 1
        PROVE  g[k] = IF k = 0 THEN 0 ELSE g[k - 1] + s[k].tokens
    <3>1. CASE k = 0
      BY <3>1, <2>1
    <3>2. CASE k \in 1 .. n
      <4>1. g[k] = f[k] /\ g[k - 1] = f[k - 1]
        BY <3>2
      <4>2. f[k] = f[k - 1] + s[k].tokens
        BY <3>2, <2>1
      <4> QED BY <4>1, <4>2, <3>2
    <3>3. CASE k = n + 1
      <4>1. g[k] = f[n] + s[k].tokens /\ g[k - 1] = f[n]
        BY <3>3
      <4> QED BY <4>1, <3>3
    <3> QED BY <3>1, <3>2, <3>3
  <2>3. g = [k \in 0 .. n + 1 |-> IF k = 0 THEN 0 ELSE g[k - 1] + s[k].tokens]
    <3>1. g = [k \in 0 .. n + 1 |-> g[k]]
      OBVIOUS
    <3> HIDE DEF g
    <3> QED BY <3>1, <2>2
  <2>4. Is(g, n + 1)
    BY <2>3
  <2> HIDE DEF g, Is
  <2> QED BY <2>4, <1>2
<1>3. Len(s) \in Has
  <2> HIDE DEF Has
  <2> QED BY <1>1, <1>2, Induction
<1>4. PICK f : Is(f, Len(s))
  BY <1>3
<1> DEFINE Upto == CHOOSE h : Is(h, Len(s))
<1>5. TokensOf(s) = Upto[Len(s)]
  BY Zenon DEF TokensOf
<1>6. Is(Upto, Len(s))
  <2> HIDE DEF Is
  <2> QED BY <1>4
<1> QED BY <1>5, <1>6

Request ==
  [prompt : Nat, computed : Nat, outputs : Nat, room : Nat,
   runnable : BOOLEAN, finished : BOOLEAN]

ScheduledSequence ==
  [req : Nat, offset : Nat, tokens : Nat, kind : {"decode", "prompt"}, logits : BOOLEAN]

LEMMA TokensAre ==
  ASSUME NEW s \in Seq(ScheduledSequence)
  PROVE  /\ TokensOf(s) \in Nat
         /\ s = <<>> => TokensOf(s) = 0
         /\ \A k \in DOMAIN s : TokensOf(s) >= s[k].tokens
<1>1. Len(s) \in Nat /\ DOMAIN s = 1 .. Len(s) /\ \A k \in DOMAIN s : s[k].tokens \in Nat
  <2>1. \A k \in DOMAIN s : s[k] \in ScheduledSequence
    OBVIOUS
  <2>2. \A x \in ScheduledSequence : x.tokens \in Nat
    BY DEF ScheduledSequence
  <2> QED BY <2>1, <2>2
<1>2. PICK f : /\ TokensOf(s) = f[Len(s)]
               /\ f = [k \in 0 .. Len(s) |-> IF k = 0 THEN 0 ELSE f[k - 1] + s[k].tokens]
  BY <1>1, TokensUnfold
<1> DEFINE Fine == {n \in Nat : n <= Len(s) =>
                      /\ f[n] \in Nat
                      /\ \A k \in 1 .. n : f[n] >= s[k].tokens}
<1>3. 0 \in Fine
  BY <1>1, <1>2
<1>4. ASSUME NEW n \in Nat, n \in Fine
      PROVE  n + 1 \in Fine
  <2>1. SUFFICES ASSUME n + 1 <= Len(s)
                 PROVE  /\ f[n + 1] \in Nat
                        /\ \A k \in 1 .. n + 1 : f[n + 1] >= s[k].tokens
    OBVIOUS
  <2>2. f[n] \in Nat /\ \A k \in 1 .. n : f[n] >= s[k].tokens
    BY <1>1, <1>4, <2>1
  <2>3. f[n + 1] = f[n] + s[n + 1].tokens
    <3>1. n + 1 \in 0 .. Len(s) /\ n + 1 # 0 /\ (n + 1) - 1 = n
      BY <1>1, <2>1
    <3> QED BY <1>2, <3>1
  <2>4. \A k \in 1 .. n + 1 : s[k].tokens \in Nat
    BY <1>1, <2>1
  <2> HIDE DEF Fine
  <2> QED BY <2>2, <2>3, <2>4
<1>5. Len(s) \in Fine
  <2> HIDE DEF Fine
  <2> QED BY <1>1, <1>3, <1>4, Induction
<1>6. s = <<>> => f[Len(s)] = 0
  BY <1>2
<1> QED BY <1>1, <1>2, <1>5, <1>6

LEMMA TokensOfOnes ==
  ASSUME NEW s \in Seq(ScheduledSequence), \A k \in DOMAIN s : s[k].tokens = 1
  PROVE  TokensOf(s) = Len(s)
<1>1. Len(s) \in Nat /\ DOMAIN s = 1 .. Len(s)
  OBVIOUS
<1>2. PICK f : /\ TokensOf(s) = f[Len(s)]
               /\ f = [k \in 0 .. Len(s) |-> IF k = 0 THEN 0 ELSE f[k - 1] + s[k].tokens]
  BY <1>1, TokensUnfold
<1> DEFINE Ones == {n \in Nat : n <= Len(s) => f[n] = n}
<1>3. 0 \in Ones
  BY <1>1, <1>2
<1>4. ASSUME NEW n \in Nat, n \in Ones
      PROVE  n + 1 \in Ones
  <2>1. SUFFICES ASSUME n + 1 <= Len(s)
                 PROVE  f[n + 1] = n + 1
    OBVIOUS
  <2>2. n + 1 \in 0 .. Len(s) /\ n + 1 # 0 /\ (n + 1) - 1 = n /\ f[n] = n
    BY <1>1, <1>4, <2>1
  <2>3. f[n + 1] = f[n] + s[n + 1].tokens
    BY <1>2, <2>2
  <2>4. s[n + 1].tokens = 1
    BY <1>1, <2>1
  <2> QED BY <2>2, <2>3, <2>4
<1>5. Len(s) \in Ones
  <2> HIDE DEF Ones
  <2> QED BY <1>1, <1>3, <1>4, Induction
<1> QED BY <1>1, <1>2, <1>5

LEMMA TokensAppended ==
  ASSUME NEW s \in Seq(ScheduledSequence), NEW x \in ScheduledSequence
  PROVE  TokensOf(Append(s, x)) = TokensOf(s) + x.tokens
<1> DEFINE t == Append(s, x)
<1>1. /\ Len(s) \in Nat /\ Len(t) = Len(s) + 1 /\ t[Len(t)] = x
      /\ \A k \in 1 .. Len(s) : t[k] = s[k]
  OBVIOUS
<1>2. PICK f : /\ TokensOf(s) = f[Len(s)]
               /\ f = [k \in 0 .. Len(s) |-> IF k = 0 THEN 0 ELSE f[k - 1] + s[k].tokens]
  BY <1>1, TokensUnfold
<1>3. PICK g : /\ TokensOf(t) = g[Len(t)]
               /\ g = [k \in 0 .. Len(t) |-> IF k = 0 THEN 0 ELSE g[k - 1] + t[k].tokens]
  <2>1. Len(t) \in Nat
    BY <1>1
  <2> HIDE DEF t
  <2> QED BY <2>1, TokensUnfold
<1> HIDE DEF t
<1> DEFINE Same == {n \in Nat : n <= Len(s) => g[n] = f[n]}
<1>4. 0 \in Same
  BY <1>1, <1>2, <1>3
<1>5. ASSUME NEW n \in Nat, n \in Same
      PROVE  n + 1 \in Same
  <2>1. SUFFICES ASSUME n + 1 <= Len(s)
                 PROVE  g[n + 1] = f[n + 1]
    OBVIOUS
  <2>2. /\ n + 1 \in 0 .. Len(s) /\ n + 1 \in 0 .. Len(t) /\ n + 1 # 0 /\ (n + 1) - 1 = n
        /\ t[n + 1] = s[n + 1] /\ g[n] = f[n]
    BY <1>1, <1>5, <2>1
  <2>3. f[n + 1] = f[n] + s[n + 1].tokens
    BY <1>2, <2>2
  <2>4. g[n + 1] = g[n] + t[n + 1].tokens
    BY <1>3, <2>2
  <2> QED BY <2>2, <2>3, <2>4
<1>6. Len(s) \in Same
  <2> HIDE DEF Same
  <2> QED BY <1>1, <1>4, <1>5, Induction
<1>7. g[Len(t)] = g[Len(s)] + t[Len(t)].tokens
  <2>1. Len(t) \in 0 .. Len(t) /\ Len(t) # 0 /\ Len(t) - 1 = Len(s)
    BY <1>1
  <2> QED BY <1>3, <2>1
<1>8. TokensOf(t) = TokensOf(s) + x.tokens
  BY <1>1, <1>2, <1>3, <1>6, <1>7
<1> QED BY <1>8 DEF t

\* What build_plan knows of a sequence when it schedules it.
Fits(reqs, s) ==
  LET r == reqs[s.req]
  IN  /\ s.req \in DOMAIN reqs
      /\ Ready(r)
      /\ s = Scheduled(s.req, r, s.tokens, s.kind)
      /\ s.tokens > 0
      /\ s.kind = "decode" <=> PromptComplete(r)
      /\ s.kind = "decode" => s.tokens = 1
      /\ s.kind = "prompt" => s.tokens <= r.prompt - r.computed /\ s.tokens <= r.room

HasRoom(made) == made.budget > 0 /\ Len(made.sequences) < MaxSeqs

In(sequences, i) == \E k \in DOMAIN sequences : sequences[k].req = i

\* The loops have visited the requests of J.
Planning(reqs, J, made) ==
  /\ made \in [sequences : Seq(ScheduledSequence), budget : Nat]
  /\ made.budget + TokensOf(made.sequences) = MaxScheduledTokens
  /\ Len(made.sequences) <= MaxSeqs
  /\ \A k \in DOMAIN made.sequences :
       Fits(reqs, made.sequences[k]) /\ made.sequences[k].req \in J
  /\ \A j, k \in DOMAIN made.sequences :
       made.sequences[j].req = made.sequences[k].req => j = k
  /\ HasRoom(made) => \A i \in J : Ready(reqs[i]) => In(made.sequences, i)

LEMMA VisitSchedules ==
  ASSUME NEW reqs \in Seq(Request), NEW i \in DOMAIN reqs, NEW kind \in {"decode", "prompt"},
         NEW J, i \notin J, NEW made, Planning(reqs, J, made), Serves(kind, reqs[i], made)
  PROVE  \E s \in ScheduledSequence :
           /\ Visit(kind, i, reqs[i], made) = With(made, s)
           /\ Fits(reqs, s) /\ s.req = i /\ s.kind = kind /\ s.tokens <= made.budget
<1> DEFINE r == reqs[i]
           n == IF kind = "decode" THEN 1 ELSE ChunkTokens(r, made.budget)
           s == Scheduled(i, r, n, kind)
<1>1. r \in Request /\ i \in Nat
  OBVIOUS
<1>2. r.prompt \in Nat /\ r.computed \in Nat /\ r.room \in Nat
  BY <1>1 DEF Request
<1>3. made.budget \in Nat /\ made.budget > 0
  BY DEF Planning, Serves
<1>4. Ready(r) /\ (PromptComplete(r) <=> kind = "decode")
  BY DEF Serves
<1>5. n \in Nat \ {0} /\ n <= made.budget /\ (kind = "decode" => n = 1)
      /\ (kind = "prompt" => n <= r.prompt - r.computed /\ n <= r.room)
  <2>1. CASE kind = "decode"
    BY <2>1, <1>3
  <2>2. CASE kind = "prompt"
    <3>1. r.prompt - r.computed > 0 /\ r.room > 0
      BY <1>2, <1>4, <2>2 DEF PromptComplete, Ready
    <3> QED BY SMTT(20), <1>2, <1>3, <2>2, <3>1, ConfigAssumption DEF ChunkTokens, SmallerOf
  <2> QED BY <2>1, <2>2
<1>6. Visit(kind, i, r, made) = With(made, s)
  BY DEF Visit
<1> HIDE DEF n
<1>7. /\ s.req = i /\ s.kind = kind /\ s.tokens = n /\ s.offset = r.computed
      /\ s = Scheduled(s.req, r, s.tokens, s.kind)
  BY DEF Scheduled
<1>8. s \in ScheduledSequence
  BY <1>1, <1>2, <1>5 DEF ScheduledSequence, Scheduled
<1> HIDE DEF s
<1>9. Fits(reqs, s)
  BY <1>4, <1>5, <1>7 DEF Fits
<1> QED BY <1>5, <1>6, <1>7, <1>8, <1>9

LEMMA VisitKeepsPlanning ==
  ASSUME NEW reqs \in Seq(Request), NEW i \in DOMAIN reqs, NEW kind \in {"decode", "prompt"},
         NEW J, i \notin J, NEW made, Planning(reqs, J, made),
         PromptComplete(reqs[i]) <=> kind = "decode"
  PROVE  Planning(reqs, J \cup {i}, Visit(kind, i, reqs[i], made))
<1>1. CASE Serves(kind, reqs[i], made)
  <2>1. PICK s \in ScheduledSequence :
           /\ Visit(kind, i, reqs[i], made) = With(made, s)
           /\ Fits(reqs, s) /\ s.req = i /\ s.kind = kind /\ s.tokens <= made.budget
    BY <1>1, VisitSchedules
  <2> DEFINE old == made.sequences
             new == Append(old, s)
             after == With(made, s)
  <2>2. old \in Seq(ScheduledSequence) /\ made.budget \in Nat /\ s.tokens \in Nat
    BY DEF Planning, ScheduledSequence
  <2>3. /\ new \in Seq(ScheduledSequence) /\ Len(new) = Len(old) + 1
        /\ DOMAIN new = 1 .. Len(old) + 1 /\ DOMAIN old = 1 .. Len(old)
        /\ new[Len(old) + 1] = s /\ \A k \in DOMAIN old : new[k] = old[k]
        /\ Len(old) \in Nat
    BY <2>2
  <2>4. after.sequences = new /\ after.budget = made.budget - s.tokens
        /\ after \in [sequences : Seq(ScheduledSequence), budget : Nat]
    BY <2>1, <2>2, <2>3 DEF With
  <2>5. TokensOf(new) = TokensOf(old) + s.tokens /\ TokensOf(old) \in Nat
    BY <2>2, TokensAppended, TokensAre
  <2>6. after.budget + TokensOf(new) = MaxScheduledTokens
    BY <2>2, <2>4, <2>5 DEF Planning
  <2>7. Len(new) <= MaxSeqs
    BY <1>1, <2>3, ConfigAssumption DEF Serves
  <2> HIDE DEF new, after
  <2>8. \A k \in DOMAIN new : Fits(reqs, new[k]) /\ new[k].req \in J \cup {i}
    BY <2>1, <2>3 DEF Planning
  <2>9. \A j, k \in DOMAIN new : new[j].req = new[k].req => j = k
    <3>1. \A k \in DOMAIN old : old[k].req # i
      BY DEF Planning
    <3>2. \A j, k \in DOMAIN old : old[j].req = old[k].req => j = k
      BY DEF Planning
    <3>3. \A j \in DOMAIN new : j \in DOMAIN old \/ j = Len(old) + 1
      BY <2>3
    <3>4. SUFFICES ASSUME NEW j \in DOMAIN new, NEW k \in DOMAIN new,
                          new[j].req = new[k].req
                   PROVE  j = k
      OBVIOUS
    <3>5. CASE j \in DOMAIN old /\ k \in DOMAIN old
      BY <2>3, <3>2, <3>4, <3>5
    <3>6. CASE j \in DOMAIN old /\ k = Len(old) + 1
      BY <2>1, <2>3, <3>1, <3>4, <3>6
    <3>7. CASE k \in DOMAIN old /\ j = Len(old) + 1
      BY <2>1, <2>3, <3>1, <3>4, <3>7
    <3> QED BY <3>3, <3>5, <3>6, <3>7
  <2>10. HasRoom(after) => \A j \in J \cup {i} : Ready(reqs[j]) => In(new, j)
    <3>1. SUFFICES ASSUME NEW j \in J \cup {i}, Ready(reqs[j])
                   PROVE  In(new, j)
      OBVIOUS
    <3>2. CASE j = i
      BY <2>1, <2>3, <3>2 DEF In
    <3>3. CASE j \in J
      <4>1. HasRoom(made)
        BY <1>1 DEF HasRoom, Serves
      <4>2. In(old, j)
        BY <3>1, <3>3, <4>1 DEF Planning
      <4> QED BY <2>3, <4>2 DEF In
    <3> QED BY <3>2, <3>3
  <2>11. Planning(reqs, J \cup {i}, after)
    BY <2>4, <2>6, <2>7, <2>8, <2>9, <2>10 DEF Planning
  <2> QED BY <2>1, <2>11 DEF after
<1>2. CASE ~Serves(kind, reqs[i], made)
  <2>1. Visit(kind, i, reqs[i], made) = made
    BY <1>2 DEF Visit
  <2>2. HasRoom(made) => ~Ready(reqs[i])
    BY <1>2 DEF Serves, HasRoom
  <2>3. Planning(reqs, J \cup {i}, made)
    BY <2>2 DEF Planning
  <2> QED BY <2>1, <2>3
<1> QED BY <1>1, <1>2

LEMMA VisitSkips ==
  ASSUME NEW kind, NEW i, NEW r, NEW made, ~(PromptComplete(r) <=> kind = "decode")
  PROVE  Visit(kind, i, r, made) = made
BY DEF Visit, Serves

\* t begins with s.
Extends(s, t) == Len(s) <= Len(t) /\ \A k \in 1 .. Len(s) : t[k] = s[k]

LEMMA VisitExtends ==
  ASSUME NEW kind, NEW i, NEW r, NEW made, made.sequences \in Seq(ScheduledSequence)
  PROVE  Extends(made.sequences, Visit(kind, i, r, made).sequences)
<1>1. CASE Serves(kind, r, made)
  <2>1. PICK x : Visit(kind, i, r, made) = With(made, x)
    BY <1>1 DEF Visit
  <2>2. Visit(kind, i, r, made).sequences = Append(made.sequences, x)
    BY <2>1 DEF With
  <2>3. PICK s \in Seq(ScheduledSequence \cup {x}) : s = made.sequences
    OBVIOUS
  <2>4. /\ Len(s) \in Nat /\ Len(Append(s, x)) = Len(s) + 1
        /\ \A k \in 1 .. Len(s) : Append(s, x)[k] = s[k]
    OBVIOUS
  <2> QED BY <2>2, <2>3, <2>4 DEF Extends
<1>2. CASE ~Serves(kind, r, made)
  <2>1. Visit(kind, i, r, made) = made /\ Len(made.sequences) \in Nat
    BY <1>2 DEF Visit
  <2> QED BY <2>1 DEF Extends
<1> QED BY <1>1, <1>2

LEMMA ExtendsOn ==
  ASSUME NEW s \in Seq(ScheduledSequence), NEW t \in Seq(ScheduledSequence),
         NEW u \in Seq(ScheduledSequence), Extends(s, t), Extends(t, u)
  PROVE  Extends(s, u)
<1>1. Len(s) \in Nat /\ Len(t) \in Nat /\ Len(u) \in Nat
  OBVIOUS
<1> QED BY <1>1 DEF Extends

\* The requests of one kind among the first i.
Seen(kind, reqs, i) == {j \in 1 .. i : PromptComplete(reqs[j]) <=> kind = "decode"}

LEMMA LoopKeepsPlanning ==
  ASSUME NEW reqs \in Seq(Request), NEW kind \in {"decode", "prompt"},
         NEW J, J \cap Seen(kind, reqs, Len(reqs)) = {}, NEW made, Planning(reqs, J, made)
  PROVE  /\ Planning(reqs, J \cup Seen(kind, reqs, Len(reqs)), Loop(kind, reqs, made))
         /\ Extends(made.sequences, Loop(kind, reqs, made).sequences)
<1>1. Len(reqs) \in Nat /\ DOMAIN reqs = 1 .. Len(reqs)
  OBVIOUS
<1>2. PICK f : /\ Loop(kind, reqs, made) = f[Len(reqs)]
               /\ f = [i \in 0 .. Len(reqs) |->
                         IF i = 0 THEN made ELSE Visit(kind, i, reqs[i], f[i - 1])]
  BY SMTT(30), <1>1, LoopUnfolds
<1> DEFINE Good == {n \in Nat : n <= Len(reqs) =>
                      /\ Planning(reqs, J \cup Seen(kind, reqs, n), f[n])
                      /\ Extends(made.sequences, f[n].sequences)}
<1>3. 0 \in Good
  <2>1. f[0] = made
    BY <1>1, <1>2
  <2>2. J \cup Seen(kind, reqs, 0) = J
    BY DEF Seen
  <2>3. Extends(made.sequences, made.sequences)
    <3>1. Len(made.sequences) \in Nat
      BY DEF Planning
    <3> QED BY <3>1 DEF Extends
  <2> QED BY <2>1, <2>2, <2>3
<1>4. ASSUME NEW n \in Nat, n \in Good
      PROVE  n + 1 \in Good
  <2>1. SUFFICES ASSUME n + 1 <= Len(reqs)
                 PROVE  /\ Planning(reqs, J \cup Seen(kind, reqs, n + 1), f[n + 1])
                        /\ Extends(made.sequences, f[n + 1].sequences)
    OBVIOUS
  <2>2. /\ n + 1 \in DOMAIN reqs /\ Planning(reqs, J \cup Seen(kind, reqs, n), f[n])
        /\ Extends(made.sequences, f[n].sequences)
    BY <1>1, <1>4, <2>1
  <2>3. f[n + 1] = Visit(kind, n + 1, reqs[n + 1], f[n])
    <3>1. n + 1 \in 0 .. Len(reqs) /\ n + 1 # 0 /\ (n + 1) - 1 = n
      BY <1>1, <2>1
    <3> QED BY <1>2, <3>1
  <2>4. CASE PromptComplete(reqs[n + 1]) <=> kind = "decode"
    <3>1. Seen(kind, reqs, n + 1) = Seen(kind, reqs, n) \cup {n + 1}
      BY <2>4 DEF Seen
    <3>2. n + 1 \notin J \cup Seen(kind, reqs, n)
      BY <1>1, <2>1, <2>4 DEF Seen
    <3>3. Planning(reqs, (J \cup Seen(kind, reqs, n)) \cup {n + 1},
                   Visit(kind, n + 1, reqs[n + 1], f[n]))
      BY <2>2, <2>4, <3>2, VisitKeepsPlanning
    <3>4. (J \cup Seen(kind, reqs, n)) \cup {n + 1} = J \cup Seen(kind, reqs, n + 1)
      BY <3>1
    <3>5. Planning(reqs, J \cup Seen(kind, reqs, n + 1), f[n + 1])
      BY <2>3, <3>3, <3>4
    <3>6. /\ made.sequences \in Seq(ScheduledSequence)
          /\ f[n].sequences \in Seq(ScheduledSequence)
          /\ f[n + 1].sequences \in Seq(ScheduledSequence)
      BY <2>2, <3>5 DEF Planning
    <3>7. Extends(f[n].sequences, f[n + 1].sequences)
      BY <2>3, <3>6, VisitExtends
    <3> QED BY <2>2, <3>5, <3>6, <3>7, ExtendsOn
  <2>5. CASE ~(PromptComplete(reqs[n + 1]) <=> kind = "decode")
    <3>1. Seen(kind, reqs, n + 1) = Seen(kind, reqs, n)
      BY <2>5 DEF Seen
    <3>2. f[n + 1] = f[n]
      BY <2>3, <2>5, VisitSkips
    <3> QED BY <2>2, <3>1, <3>2
  <2> QED BY <2>4, <2>5
<1>5. Len(reqs) \in Good
  <2> HIDE DEF Good
  <2> QED BY <1>1, <1>3, <1>4, Induction
<1> QED BY <1>1, <1>2, <1>5

LEMMA NothingMadeIsPlanning ==
  ASSUME NEW reqs
  PROVE  Planning(reqs, {}, NothingMade)
<1>1. NothingMade.sequences = <<>> /\ NothingMade.budget = MaxScheduledTokens
  BY DEF NothingMade
<1>2. <<>> \in Seq(ScheduledSequence) /\ Len(<<>>) = 0 /\ DOMAIN <<>> = {}
  OBVIOUS
<1>3. TokensOf(<<>>) = 0
  BY <1>2, TokensAre
<1>4. NothingMade \in [sequences : Seq(ScheduledSequence), budget : Nat]
  BY <1>2, ConfigAssumption DEF NothingMade
<1> QED BY <1>1, <1>2, <1>3, <1>4, ConfigAssumption DEF Planning

DecodesMade(reqs) == Loop("decode", reqs, NothingMade)

PromptsMade(reqs) == Loop("prompt", reqs, DecodesMade(reqs))

(* What build_plan returns: sequences that fit their requests, one for     *)
(* each, within both limits; and a ready request is left out only when one *)
(* of the limits is used up.                                               *)
LEMMA BuildPlanPlans ==
  ASSUME NEW reqs \in Seq(Request)
  PROVE  /\ BuildPlan(reqs) \in Seq(ScheduledSequence)
         /\ TokensOf(BuildPlan(reqs)) <= MaxScheduledTokens
         /\ Len(BuildPlan(reqs)) <= MaxSeqs
         /\ \A k \in DOMAIN BuildPlan(reqs) : Fits(reqs, BuildPlan(reqs)[k])
         /\ \A j, k \in DOMAIN BuildPlan(reqs) :
              BuildPlan(reqs)[j].req = BuildPlan(reqs)[k].req => j = k
         /\ (/\ TokensOf(BuildPlan(reqs)) < MaxScheduledTokens
             /\ Len(BuildPlan(reqs)) < MaxSeqs) =>
              \A i \in DOMAIN reqs : Ready(reqs[i]) => In(BuildPlan(reqs), i)
<1> DEFINE decoders == Seen("decode", reqs, Len(reqs))
           prompts == Seen("prompt", reqs, Len(reqs))
           made == PromptsMade(reqs)
<1>1. Planning(reqs, decoders, DecodesMade(reqs))
  <2>1. {} \cap decoders = {} /\ {} \cup decoders = decoders
    OBVIOUS
  <2> HIDE DEF decoders
  <2> QED BY <2>1, NothingMadeIsPlanning, LoopKeepsPlanning DEF DecodesMade, decoders
<1>2. Planning(reqs, decoders \cup prompts, made)
  <2>1. decoders \cap prompts = {}
    BY DEF Seen
  <2> QED BY <1>1, <2>1, LoopKeepsPlanning DEF PromptsMade
<1>3. decoders \cup prompts = DOMAIN reqs
  <2>1. DOMAIN reqs = 1 .. Len(reqs)
    OBVIOUS
  <2>2. \A j \in 1 .. Len(reqs) : j \in decoders \/ j \in prompts
    BY DEF Seen
  <2>3. decoders \subseteq 1 .. Len(reqs) /\ prompts \subseteq 1 .. Len(reqs)
    BY DEF Seen
  <2> QED BY <2>1, <2>2, <2>3
<1>4. BuildPlan(reqs) = made.sequences
  BY DEF BuildPlan, PromptsMade, DecodesMade
<1> HIDE DEF made, decoders, prompts
<1>5. made.budget \in Nat /\ TokensOf(made.sequences) \in Nat
      /\ made.budget + TokensOf(made.sequences) = MaxScheduledTokens
      /\ made.sequences \in Seq(ScheduledSequence)
  BY <1>2, TokensAre DEF Planning
<1> QED BY <1>2, <1>3, <1>4, <1>5, ConfigAssumption DEF Planning, HasRoom

(* Decoders come first: either they are all in the plan, or the plan is    *)
(* full of them.                                                           *)
LEMMA DecodersFirst ==
  ASSUME NEW reqs \in Seq(Request)
  PROVE  \/ \A i \in DOMAIN reqs :
              Ready(reqs[i]) /\ PromptComplete(reqs[i]) => In(BuildPlan(reqs), i)
         \/ /\ Len(BuildPlan(reqs)) = MaxSeqs
            /\ \A k \in DOMAIN BuildPlan(reqs) : PromptComplete(reqs[BuildPlan(reqs)[k].req])
<1> DEFINE decoders == Seen("decode", reqs, Len(reqs))
           prompts == Seen("prompt", reqs, Len(reqs))
<1>1. PICK made : made = DecodesMade(reqs)
  OBVIOUS
<1>2. Planning(reqs, decoders, made)
  <2>1. {} \cap decoders = {} /\ {} \cup decoders = decoders
    OBVIOUS
  <2> HIDE DEF decoders
  <2> QED BY <1>1, <2>1, NothingMadeIsPlanning, LoopKeepsPlanning DEF DecodesMade, decoders
<1>3. Extends(made.sequences, BuildPlan(reqs))
  <2>1. decoders \cap prompts = {}
    BY DEF Seen
  <2>2. Extends(made.sequences, Loop("prompt", reqs, made).sequences)
    BY <1>2, <2>1, LoopKeepsPlanning
  <2> QED BY <1>1, <2>2 DEF BuildPlan, DecodesMade
<1>4. PICK s \in Seq(ScheduledSequence), t \in Seq(ScheduledSequence) :
           s = made.sequences /\ t = BuildPlan(reqs)
  BY <1>2, BuildPlanPlans DEF Planning
<1>5. /\ DOMAIN s = 1 .. Len(s) /\ DOMAIN t = 1 .. Len(t)
      /\ Len(s) \in Nat /\ Len(t) \in Nat /\ Len(s) <= MaxSeqs /\ Len(t) <= MaxSeqs
      /\ Len(s) <= Len(t) /\ \A k \in 1 .. Len(s) : t[k] = s[k]
  BY <1>2, <1>3, <1>4, BuildPlanPlans DEF Planning, Extends
<1>6. \A k \in DOMAIN s : s[k].req \in decoders /\ Fits(reqs, s[k])
  BY <1>2, <1>4 DEF Planning
<1>7. \A k \in DOMAIN s : PromptComplete(reqs[s[k].req]) /\ s[k].tokens = 1
  BY <1>6 DEF Seen, Fits
<1>8. PICK m \in Nat, n \in Nat, most \in Nat : m = Len(s) /\ n = Len(t) /\ most = MaxSeqs
  BY <1>5, ConfigAssumption
<1>9. m <= most /\ n <= most /\ m <= n
  BY <1>5, <1>8
<1>10. CASE Len(s) = MaxSeqs
  <2>1. Len(t) = MaxSeqs
    BY <1>8, <1>9, <1>10
  <2> QED BY <1>4, <1>5, <1>7, <1>10, <2>1
<1>11. CASE Len(s) < MaxSeqs
  <2>1. TokensOf(s) = Len(s)
    BY <1>5, <1>7, TokensOfOnes
  <2>2. made.budget \in Nat /\ made.budget + TokensOf(s) = MaxScheduledTokens
    BY <1>2, <1>4 DEF Planning
  <2>3. HasRoom(made)
    BY <1>4, <1>5, <1>11, <2>1, <2>2, ConfigAssumption DEF HasRoom
  <2>4. ASSUME NEW i \in DOMAIN reqs, Ready(reqs[i]), PromptComplete(reqs[i])
        PROVE  In(t, i)
    <3>1. i \in decoders
      BY <2>4 DEF Seen
    <3> HIDE DEF decoders
    <3>2. In(s, i)
      BY <1>2, <1>4, <2>3, <2>4, <3>1 DEF Planning
    <3> QED BY <1>5, <3>2 DEF In
  <2> QED BY <1>4, <2>4
<1>12. Len(s) = MaxSeqs \/ Len(s) < MaxSeqs
  BY <1>8, <1>9
<1> QED BY <1>10, <1>11, <1>12

-----------------------------------------------------------------------------
(* What a turn does to its request.                                        *)

\* A request between two turns: what it waits for is known.
Settled(r) ==
  /\ r \in Request
  /\ Valid(r)
  /\ ~r.finished => Available(r) > 0 /\ (PromptComplete(r) => Available(r) = 1)

\* s is what build_plan may schedule for r.
Suits(r, s) ==
  /\ s \in ScheduledSequence
  /\ Ready(r)
  /\ s = Scheduled(s.req, r, s.tokens, s.kind)
  /\ s.tokens > 0
  /\ s.kind = "decode" <=> PromptComplete(r)
  /\ s.kind = "decode" => s.tokens = 1
  /\ s.kind = "prompt" => s.tokens <= r.prompt - r.computed

LEMMA ScheduledFields ==
  ASSUME NEW i, NEW r, NEW n, NEW kind
  PROVE  /\ Scheduled(i, r, n, kind).offset = r.computed
         /\ Scheduled(i, r, n, kind).logits <=> kind = "decode" \/ r.computed + n = r.prompt
BY DEF Scheduled

LEMMA SequenceAccepted ==
  ASSUME NEW r, Settled(r), NEW s, Suits(r, s)
  PROVE  /\ AcceptsSequence(r, s)
         /\ s.logits <=> AcceptsSample(CommitSequence(r, s))
         /\ CommitSequence(r, s) = [r EXCEPT !.computed = @ + s.tokens]
<1>1. /\ r.prompt \in Nat /\ r.computed \in Nat /\ r.outputs \in Nat
      /\ s.tokens \in Nat \ {0} /\ s.kind \in {"decode", "prompt"}
  BY DEF Settled, Suits, Request, ScheduledSequence
<1>2. s.offset = r.computed /\ (s.logits <=> s.kind = "decode" \/ r.computed + s.tokens = r.prompt)
  BY ScheduledFields DEF Suits
<1>3. /\ Valid(r) /\ r.runnable /\ ~r.finished
      /\ PromptComplete(r) => Available(r) = 1
  BY DEF Settled, Suits, Ready
<1>4. s.tokens <= Available(r)
  BY <1>1, <1>3 DEF Suits, PromptComplete, Available
<1>5. AcceptsSequence(r, s)
  BY <1>1, <1>2, <1>3, <1>4 DEF AcceptsSequence
<1>6. CommitSequence(r, s) = [r EXCEPT !.computed = @ + s.tokens]
  BY <1>5 DEF CommitSequence
<1> DEFINE c == [r EXCEPT !.computed = @ + s.tokens]
<1>7. /\ c.computed = r.computed + s.tokens /\ c.prompt = r.prompt /\ c.outputs = r.outputs
      /\ c.runnable = r.runnable /\ c.finished = r.finished
  BY DEF Settled, Request
<1> HIDE DEF c
<1>8. Valid(c)
  BY <1>1, <1>3, <1>4, <1>7 DEF Valid, Available, PromptComplete
<1>9. s.logits <=> c.computed = c.prompt + c.outputs
  <2>1. CASE s.kind = "decode"
    BY <1>1, <1>2, <1>3, <1>7, <2>1 DEF Suits, Available
  <2>2. CASE s.kind = "prompt"
    <3>1. r.outputs = 0
      BY <1>1, <1>3, <2>2 DEF Suits, Valid, PromptComplete
    <3> QED BY <1>1, <1>2, <1>7, <2>2, <3>1
  <2> QED BY <1>1, <2>1, <2>2
<1>10. s.logits <=> AcceptsSample(c)
  BY <1>3, <1>7, <1>8, <1>9 DEF AcceptsSample
<1> QED BY <1>5, <1>6, <1>10 DEF c

LEMMA SequenceSettles ==
  ASSUME NEW r, Settled(r), NEW s, Suits(r, s), ~s.logits
  PROVE  Settled(CommitSequence(r, s))
<1> DEFINE c == CommitSequence(r, s)
<1>1. /\ c = [r EXCEPT !.computed = @ + s.tokens]
      /\ AcceptsSequence(r, s) /\ ~AcceptsSample(c)
  BY SequenceAccepted
<1>2. /\ r.prompt \in Nat /\ r.computed \in Nat /\ r.outputs \in Nat /\ r \in Request
      /\ s.tokens \in Nat \ {0} /\ s.kind \in {"decode", "prompt"}
  BY DEF Settled, Suits, Request, ScheduledSequence
<1> HIDE DEF c
<1>3. /\ c.computed = r.computed + s.tokens /\ c.prompt = r.prompt /\ c.outputs = r.outputs
      /\ c.runnable = r.runnable /\ c.finished = r.finished /\ c \in Request
  BY <1>1, <1>2 DEF Request
<1>4. Valid(r) /\ r.runnable /\ ~r.finished /\ s.tokens <= Available(r)
  BY <1>1 DEF AcceptsSequence
<1>5. Valid(c)
  BY <1>2, <1>3, <1>4 DEF Valid, Available, PromptComplete
<1>6. c.computed # c.prompt + c.outputs
  BY <1>1, <1>3, <1>4, <1>5 DEF AcceptsSample
<1>7. s.kind = "prompt"
  BY <1>2, ScheduledFields DEF Suits
<1>8. r.outputs = 0 /\ s.tokens <= r.prompt - r.computed
  BY <1>2, <1>4, <1>7 DEF Suits, Valid, PromptComplete
<1>9. Available(c) > 0 /\ ~PromptComplete(c)
  BY <1>2, <1>3, <1>6, <1>8 DEF Available, PromptComplete
<1> QED BY <1>3, <1>5, <1>9 DEF Settled, c

LEMMA SampleSettles ==
  ASSUME NEW c \in Request, AcceptsSample(c), NEW token
  PROVE  Settled(CommitSample(c, token))
<1>1. /\ c.prompt \in Nat /\ c.computed \in Nat /\ c.outputs \in Nat
      /\ c.computed = c.prompt + c.outputs /\ Valid(c) /\ ~c.finished
  BY DEF Request, AcceptsSample
<1>2. CASE token = "eos"
  <2> DEFINE d == [c EXCEPT !.finished = TRUE]
  <2>1. CommitSample(c, token) = d
    BY <1>2 DEF CommitSample
  <2>2. /\ d.prompt = c.prompt /\ d.computed = c.computed /\ d.outputs = c.outputs
        /\ d.finished /\ d \in Request
    BY DEF Request
  <2> HIDE DEF d
  <2>3. Valid(d)
    BY <1>1, <2>2 DEF Valid, Available, PromptComplete
  <2> QED BY <2>1, <2>2, <2>3 DEF Settled
<1>3. CASE token # "eos"
  <2> DEFINE d == [c EXCEPT !.outputs = @ + 1, !.finished = c.outputs + 1 >= MaxTokens]
  <2>1. CommitSample(c, token) = d
    BY <1>3 DEF CommitSample
  <2>2. /\ d.prompt = c.prompt /\ d.computed = c.computed
        /\ d.outputs = c.outputs + 1
        /\ d.finished <=> c.outputs + 1 >= MaxTokens
    BY DEF Request
  <2>3. d \in Request
    <3>1. ASSUME NEW b \in BOOLEAN
          PROVE  [c EXCEPT !.outputs = @ + 1, !.finished = b] \in Request
      <4> DEFINE e == [c EXCEPT !.outputs = @ + 1]
      <4>1. e \in Request
        BY <1>1 DEF Request
      <4> HIDE DEF e
      <4>2. [e EXCEPT !.finished = TRUE] \in Request /\ [e EXCEPT !.finished = FALSE] \in Request
        BY <4>1 DEF Request
      <4>3. [e EXCEPT !.finished = b] \in Request
        <5>1. CASE b = TRUE
          BY Zenon, <4>2, <5>1
        <5>2. CASE b = FALSE
          BY Zenon, <4>2, <5>2
        <5> QED BY <5>1, <5>2
      <4> QED BY Zenon, <4>3 DEF e
    <3>2. (c.outputs + 1 >= MaxTokens) \in BOOLEAN
      OBVIOUS
    <3> QED BY Zenon, <3>1, <3>2
  <2> HIDE DEF d
  <2>4. c.outputs < MaxTokens
    BY <1>1, ConfigAssumption DEF Valid
  <2>5. Valid(d)
    BY <1>1, <2>2, <2>4, ConfigAssumption DEF Valid, Available, PromptComplete
  <2>6. Available(d) = 1
    BY <1>1, <2>2 DEF Available
  <2> QED BY <2>1, <2>3, <2>5, <2>6 DEF Settled
<1> QED BY <1>2, <1>3

LEMMA FitsSuits ==
  ASSUME NEW rs \in Seq(Request), NEW s \in ScheduledSequence, Fits(rs, s)
  PROVE  Suits(rs[s.req], s)
BY DEF Fits, Suits

LEMMA NoPlan ==
  /\ <<>> \in Seq(ScheduledSequence)
  /\ TokensOf(<<>>) = 0
<1>1. <<>> \in Seq(ScheduledSequence)
  OBVIOUS
<1> QED BY <1>1, TokensAre

=============================================================================
