----------------------------- MODULE BotProofs ------------------------------
(***************************************************************************)
(* Proofs about the bot's own process: about Plugins, for every set of plugins *)
(* with any plans and awaits, every number of consoles, dispatches and loads;  *)
(* and about Lifecycle, for every set of channels, either setting of TLS and   *)
(* every number of retries and starts.                                      *)
(***************************************************************************)
EXTENDS Lifecycle, Plugins, SequenceTheorems, WellFoundedInduction, TLAPS

-----------------------------------------------------------------------------
(* Plugins                                                                  *)

(* Induction, as a statement about sets of numbers                          *)

LEMMA Induction ==
    ASSUME NEW S, 0 \in S, \A n \in Nat : n \in S => n + 1 \in S
    PROVE  Nat \subseteq S
<1> SUFFICES ASSUME Nat \ S # {} PROVE FALSE
  OBVIOUS
<1>1. PICK m \in Nat \ S : \A k \in Nat \ S : ~ (<<k, m>> \in OpToRel(<, Nat))
  <2>1. Nat \ S \subseteq Nat
    OBVIOUS
  <2> QED BY <2>1, WFMin, NatLessThanWellFounded, Zenon
<1>2. \A k \in Nat \ S : k < m => <<k, m>> \in OpToRel(<, Nat)
  BY Zenon DEF OpToRel
<1>3. m # 0 /\ m \in Nat
  OBVIOUS
<1>4. m - 1 \in Nat /\ m - 1 < m /\ (m - 1) + 1 = m
  BY <1>3
<1>5. m - 1 \in S
  BY <1>1, <1>2, <1>4
<1> QED BY <1>4, <1>5

(* A function on a .. b that starts with x and goes on with s exists.          *)
Unfolds(f, a, b, x, s) == \A k \in a .. b : f[k] = IF k = a THEN x ELSE s[<<k, f[k - 1]>>]
LEMMA Recursion ==
    ASSUME NEW X, NEW x \in X, NEW a \in Nat, NEW b \in Nat,
           NEW s \in [(a .. b) \X X -> X]
    PROVE  \E f \in [a .. b -> X] : Unfolds(f, a, b, x, s)
<1> DEFINE Solves(f, n) == \A k \in a .. n : f[k] = IF k = a THEN x ELSE s[<<k, f[k - 1]>>]
           S == {n \in Nat : n <= b => \E f \in [a .. n -> X] : Solves(f, n)}
<1>1. 0 \in S
  <2>1. CASE a = 0
    <3>1. [k \in a .. 0 |-> x] \in [a .. 0 -> X] /\ Solves([k \in a .. 0 |-> x], 0)
      BY <2>1
    <3> QED BY <3>1
  <2>2. CASE a # 0
    <3>1. a .. 0 = {}
      BY <2>2
    <3>2. [k \in a .. 0 |-> x] \in [a .. 0 -> X] /\ Solves([k \in a .. 0 |-> x], 0)
      BY <3>1
    <3> QED BY <3>2
  <2> QED BY <2>1, <2>2
<1>2. ASSUME NEW n \in Nat, n \in S PROVE n + 1 \in S
  <2> SUFFICES ASSUME n + 1 <= b PROVE \E f \in [a .. n + 1 -> X] : Solves(f, n + 1)
    OBVIOUS
  <2>1. PICK f \in [a .. n -> X] : Solves(f, n)
    BY <1>2
  <2>2. CASE n + 1 < a
    <3>1. a .. n + 1 = {}
      BY <2>2
    <3>2. [k \in a .. n + 1 |-> x] \in [a .. n + 1 -> X] /\ Solves([k \in a .. n + 1 |-> x], n + 1)
      BY <3>1
    <3> QED BY <3>2
  <2>3. CASE n + 1 = a
    <3> DEFINE g == [k \in a .. n + 1 |-> x]
    <3>1. g \in [a .. n + 1 -> X] /\ Solves(g, n + 1)
      BY <2>3
    <3> QED BY <3>1
  <2>4. CASE n + 1 > a
    <3> DEFINE g == [k \in a .. n + 1 |-> IF k = n + 1 THEN s[<<n + 1, f[n]>>] ELSE f[k]]
    <3>1. f[n] \in X /\ n + 1 \in a .. b
      BY <2>4
    <3>2. s[<<n + 1, f[n]>>] \in X
      BY <3>1
    <3>3. g \in [a .. n + 1 -> X]
      BY <3>2
    <3>4. ASSUME NEW k \in a .. n + 1
          PROVE  g[k] = IF k = a THEN x ELSE s[<<k, g[k - 1]>>]
      <4>1. CASE k = n + 1
        <5>1. g[k - 1] = f[n] /\ g[k] = s[<<n + 1, f[n]>>]
          BY <4>1, <2>4
        <5>2. k # a
          BY <4>1, <2>4
        <5> HIDE DEF g
        <5> QED BY <4>1, <5>1, <5>2
      <4>2. CASE k # n + 1
        <5>1. k \in a .. n /\ g[k] = f[k] /\ (k # a => g[k - 1] = f[k - 1])
          BY <4>2
        <5> QED BY <2>1, <5>1
      <4> QED BY <4>1, <4>2
    <3> QED BY <3>3, <3>4
  <2>5. n + 1 < a \/ n + 1 = a \/ n + 1 > a
    OBVIOUS
  <2> HIDE DEF Solves
  <2> QED BY <2>2, <2>3, <2>4, <2>5
<1> HIDE DEF S
<1>3. b \in S
  BY <1>1, <1>2, Induction
<1> QED BY <1>3 DEF S, Unfolds

-----------------------------------------------------------------------------
(* Sequences without some of their elements                                 *)

(* Kept(f, q, X): f[i] is what Without keeps of the first i elements of q.     *)
Kept(f, q, X) ==
  \A i \in 0 .. Len(q) :
    f[i] = IF i = 0 THEN <<>> ELSE IF q[i] \in X THEN f[i - 1] ELSE Append(f[i - 1], q[i])

LEMMA KeptExists ==
    ASSUME NEW T, NEW q \in Seq(T), NEW X
    PROVE  \E f \in [0 .. Len(q) -> Seq(T)] : Kept(f, q, X) /\ Without(q, X) = f[Len(q)]
<1> DEFINE Step1(i, h) == IF i = 0 THEN h ELSE IF q[i] \in X THEN h ELSE Append(h, q[i])
           s == [x \in (0 .. Len(q)) \X Seq(T) |-> Step1(x[1], x[2])]
           Eq(f) == f = [i \in 0 .. Len(q) |->
                           IF i = 0 THEN <<>>
                           ELSE IF q[i] \in X THEN f[i - 1] ELSE Append(f[i - 1], q[i])]
           K == CHOOSE f : Eq(f)
<1>l. Len(q) \in Nat
  OBVIOUS
<1>1. s \in [(0 .. Len(q)) \X Seq(T) -> Seq(T)]
  <2>1. \A i \in 0 .. Len(q) : \A h \in Seq(T) : Step1(i, h) \in Seq(T)
    OBVIOUS
  <2> HIDE DEF Step1
  <2> QED BY <2>1
<1>2. \A i \in 0 .. Len(q) : \A h \in Seq(T) : s[<<i, h>>] = Step1(i, h)
  <2> HIDE DEF Step1
  <2> QED OBVIOUS
<1> HIDE DEF s
<1>3. PICK f \in [0 .. Len(q) -> Seq(T)] :
        \A k \in 0 .. Len(q) : f[k] = IF k = 0 THEN <<>> ELSE s[<<k, f[k - 1]>>]
  <2>1. <<>> \in Seq(T) /\ 0 \in Nat
    OBVIOUS
  <2>2. \E g \in [0 .. Len(q) -> Seq(T)] : Unfolds(g, 0, Len(q), <<>>, s)
    BY <1>1, <1>l, <2>1, Recursion, Zenon
  <2> QED BY <2>2 DEF Unfolds
<1>4. \A k \in 0 .. Len(q) : k # 0 => f[k - 1] \in Seq(T)
  <2> SUFFICES ASSUME NEW k \in 0 .. Len(q), k # 0 PROVE f[k - 1] \in Seq(T)
    OBVIOUS
  <2>1. k - 1 \in 0 .. Len(q)
    BY <1>l
  <2> QED BY <1>3, <2>1
<1>5. Kept(f, q, X)
  BY <1>2, <1>3, <1>4 DEF Kept
<1>6. Eq(f)
  BY <1>5 DEF Kept
<1>7. Eq(K)
  <2> HIDE DEF Eq
  <2> QED BY <1>6
<1>8. Without(q, X) = K[Len(q)]
  BY DEF Without
<1> HIDE DEF K
<1>9. Kept(K, q, X)
  BY <1>7 DEF Kept
<1> DEFINE S == {n \in Nat : n <= Len(q) => K[n] = f[n]}
<1>10. 0 \in S
  BY <1>l, <1>5, <1>9 DEF Kept
<1>11. ASSUME NEW n \in Nat, n \in S PROVE n + 1 \in S
  <2> SUFFICES ASSUME n + 1 <= Len(q) PROVE K[n + 1] = f[n + 1]
    OBVIOUS
  <2>1. n + 1 \in 0 .. Len(q) /\ n + 1 # 0 /\ (n + 1) - 1 = n /\ K[n] = f[n]
    BY <1>11, <1>l
  <2> QED BY <2>1, <1>5, <1>9 DEF Kept
<1> HIDE DEF S
<1>12. Nat \subseteq S
  BY <1>10, <1>11, Induction
<1>13. K[Len(q)] = f[Len(q)]
  BY <1>12, <1>l DEF S
<1> QED BY <1>5, <1>8, <1>13

(* e is in sequence w behind place `at`; nothing of X is in q up to there.          *)
Lies(w, at, e) == \E k \in DOMAIN w : k > at /\ w[k] = e
Clear(q, X, at) == \A i \in DOMAIN q : i <= at => q[i] \notin X

(* What is kept of q comes from it; what q has behind `at`, up to n, is kept there. *)
From(w, q, X) == \A k \in DOMAIN w : \E i \in DOMAIN q : q[i] \notin X /\ w[k] = q[i]
Behind(w, q, X, at, n) ==
  \A i \in 1 .. n : i > at /\ q[i] \notin X => Lies(w, at, q[i])
LongEnough(w, at, n) == (n <= at => Len(w) = n) /\ (n >= at => Len(w) >= at)

LEMMA KeptFrom ==
    ASSUME NEW T, NEW q \in Seq(T), NEW X, NEW f \in [0 .. Len(q) -> Seq(T)], Kept(f, q, X)
    PROVE  \A n \in 0 .. Len(q) : From(f[n], q, X)
<1> DEFINE S == {n \in Nat : n <= Len(q) =>
                   \A k \in DOMAIN f[n] : \E i \in DOMAIN q : q[i] \notin X /\ f[n][k] = q[i]}
<1>l. Len(q) \in Nat /\ DOMAIN q = 1 .. Len(q)
  OBVIOUS
<1>1. 0 \in S
  BY <1>l DEF Kept
<1>2. ASSUME NEW n \in Nat, n \in S PROVE n + 1 \in S
  <2> SUFFICES ASSUME n + 1 <= Len(q), NEW k \in DOMAIN f[n + 1]
               PROVE  \E i \in DOMAIN q : q[i] \notin X /\ f[n + 1][k] = q[i]
    OBVIOUS
  <2>1. n \in 0 .. Len(q) /\ n + 1 \in 0 .. Len(q) /\ n + 1 # 0 /\ (n + 1) - 1 = n /\ n + 1 \in DOMAIN q
    BY <1>l
  <2>2. f[n] \in Seq(T) /\ q[n + 1] \in T
    BY <2>1
  <2>3. \A h \in DOMAIN f[n] : \E i \in DOMAIN q : q[i] \notin X /\ f[n][h] = q[i]
    BY <1>2, <2>1
  <2>4. CASE q[n + 1] \in X
    <3>1. f[n + 1] = f[n]
      BY <2>1, <2>4 DEF Kept
    <3> QED BY <2>3, <3>1
  <2>5. CASE q[n + 1] \notin X
    <3>1. f[n + 1] = Append(f[n], q[n + 1])
      BY <2>1, <2>5 DEF Kept
    <3>2. CASE k \in DOMAIN f[n]
      <4>1. f[n + 1][k] = f[n][k]
        BY <2>2, <3>1, <3>2
      <4> QED BY <2>3, <3>2, <4>1
    <3>3. CASE k \notin DOMAIN f[n]
      <4>1. f[n + 1][k] = q[n + 1]
        BY <2>2, <3>1, <3>3
      <4> QED BY <2>1, <2>5, <4>1
    <3> QED BY <3>2, <3>3
  <2> QED BY <2>4, <2>5
<1> HIDE DEF S
<1>3. Nat \subseteq S
  BY <1>1, <1>2, Induction
<1> QED BY <1>3, <1>l DEF S, From

(* What is taken out behind a place leaves what stays there behind it.         *)
LEMMA KeptBehind ==
    ASSUME NEW T, NEW q \in Seq(T), NEW X, NEW f \in [0 .. Len(q) -> Seq(T)], Kept(f, q, X),
           NEW at \in Nat, Clear(q, X, at)
    PROVE  \A n \in 0 .. Len(q) : Behind(f[n], q, X, at, n)
<1> DEFINE S == {n \in Nat : n <= Len(q) => LongEnough(f[n], at, n) /\ Behind(f[n], q, X, at, n)}
<1>l. Len(q) \in Nat /\ DOMAIN q = 1 .. Len(q)
  OBVIOUS
<1>1. 0 \in S
  <2>1. f[0] = <<>>
    BY <1>l DEF Kept
  <2>2. Len(f[0]) = 0
    BY <2>1
  <2>3. LongEnough(f[0], at, 0) /\ Behind(f[0], q, X, at, 0)
    BY <2>2 DEF LongEnough, Behind
  <2> QED BY <2>3
<1>2. ASSUME NEW n \in Nat, n \in S PROVE n + 1 \in S
  <2> SUFFICES ASSUME n + 1 <= Len(q)
               PROVE  LongEnough(f[n + 1], at, n + 1) /\ Behind(f[n + 1], q, X, at, n + 1)
    OBVIOUS
  <2>1. n \in 0 .. Len(q) /\ n + 1 \in 0 .. Len(q) /\ n + 1 # 0 /\ (n + 1) - 1 = n /\ n + 1 \in DOMAIN q
    BY <1>l
  <2>2. f[n] \in Seq(T) /\ q[n + 1] \in T
    BY <2>1
  <2>3. LongEnough(f[n], at, n) /\ Behind(f[n], q, X, at, n)
    BY <1>2, <2>1
  <2> HIDE DEF S
  <2>4. CASE q[n + 1] \in X
    <3>1. f[n + 1] = f[n]
      BY <2>1, <2>4 DEF Kept
    <3>2. n + 1 > at
      BY <2>1, <2>4 DEF Clear
    <3>3. \A i \in 1 .. n + 1 : q[i] \notin X => i \in 1 .. n
      BY <2>4
    <3>4. Behind(f[n + 1], q, X, at, n + 1)
      BY <2>3, <3>1, <3>3 DEF Behind
    <3>5. LongEnough(f[n + 1], at, n + 1)
      BY <2>2, <2>3, <3>1, <3>2 DEF LongEnough
    <3> QED BY <3>4, <3>5
  <2>5. CASE q[n + 1] \notin X
    <3>1. f[n + 1] = Append(f[n], q[n + 1])
      BY <2>1, <2>5 DEF Kept
    <3>2. Len(f[n + 1]) = Len(f[n]) + 1 /\ Len(f[n]) \in Nat /\ DOMAIN f[n + 1] = 1 .. Len(f[n]) + 1
          /\ DOMAIN f[n] = 1 .. Len(f[n]) /\ f[n + 1][Len(f[n]) + 1] = q[n + 1]
          /\ \A k \in DOMAIN f[n] : f[n + 1][k] = f[n][k]
      BY <2>2, <3>1
    <3>3. ASSUME NEW i \in 1 .. n + 1, i > at, q[i] \notin X
          PROVE  Lies(f[n + 1], at, q[i])
      <4>1. CASE i = n + 1
        <5>1. Len(f[n]) + 1 > at
          BY <2>3, <3>2, <3>3, <4>1 DEF LongEnough
        <5>2. Len(f[n]) + 1 \in DOMAIN f[n + 1]
          BY <3>2
        <5> QED BY <3>2, <4>1, <5>1, <5>2 DEF Lies
      <4>2. CASE i # n + 1
        <5>1. i \in 1 .. n
          BY <4>2
        <5>2. PICK k \in DOMAIN f[n] : k > at /\ f[n][k] = q[i]
          BY <2>3, <3>3, <5>1 DEF Behind, Lies
        <5>3. k \in DOMAIN f[n + 1] /\ f[n + 1][k] = q[i]
          BY <3>2, <5>2
        <5> QED BY <5>2, <5>3 DEF Lies
      <4> QED BY <4>1, <4>2
    <3>4. LongEnough(f[n + 1], at, n + 1)
      BY <2>3, <3>2 DEF LongEnough
    <3>5. Behind(f[n + 1], q, X, at, n + 1)
      BY <3>3 DEF Behind
    <3> QED BY <3>4, <3>5
  <2> QED BY <2>4, <2>5
<1> HIDE DEF S
<1>3. Nat \subseteq S
  BY <1>1, <1>2, Induction
<1> QED BY <1>3, <1>l DEF S

LEMMA WithoutType ==
    ASSUME NEW T, NEW q \in Seq(T), NEW X
    PROVE  Without(q, X) \in Seq(T)
<1>1. PICK f \in [0 .. Len(q) -> Seq(T)] : Kept(f, q, X) /\ Without(q, X) = f[Len(q)]
  BY KeptExists
<1>2. Len(q) \in 0 .. Len(q)
  OBVIOUS
<1> QED BY <1>1, <1>2

LEMMA WithoutFrom ==
    ASSUME NEW T, NEW q \in Seq(T), NEW X, NEW k \in DOMAIN Without(q, X)
    PROVE  \E i \in DOMAIN q : q[i] \notin X /\ Without(q, X)[k] = q[i]
<1>1. PICK f \in [0 .. Len(q) -> Seq(T)] : Kept(f, q, X) /\ Without(q, X) = f[Len(q)]
  BY KeptExists
<1>2. Len(q) \in 0 .. Len(q)
  OBVIOUS
<1>3. \A n \in 0 .. Len(q) : From(f[n], q, X)
  BY <1>1, KeptFrom, Zenon
<1> QED BY <1>1, <1>2, <1>3 DEF From

LEMMA WithoutBehind ==
    ASSUME NEW T, NEW q \in Seq(T), NEW X, NEW at \in Nat, NEW e, e \notin X,
           Clear(q, X, at), Lies(q, at, e)
    PROVE  Lies(Without(q, X), at, e)
<1>1. PICK f \in [0 .. Len(q) -> Seq(T)] : Kept(f, q, X) /\ Without(q, X) = f[Len(q)]
  BY KeptExists
<1>2. PICK i \in DOMAIN q : i > at /\ q[i] = e
  BY DEF Lies
<1>3. Len(q) \in 0 .. Len(q) /\ i \in 1 .. Len(q)
  OBVIOUS
<1>4. \A n \in 0 .. Len(q) : Behind(f[n], q, X, at, n)
  BY <1>1, KeptBehind, Zenon
<1> QED BY <1>1, <1>2, <1>3, <1>4 DEF Behind

(* The elements of a sequence without X are those outside X.                  *)
Items(q) == {q[i] : i \in DOMAIN q}

LEMMA WithoutItems ==
    ASSUME NEW T, NEW q \in Seq(T), NEW X
    PROVE  Items(Without(q, X)) = Items(q) \ X
<1>1. ASSUME NEW k \in DOMAIN Without(q, X) PROVE Without(q, X)[k] \in Items(q) \ X
  <2>1. PICK i \in DOMAIN q : q[i] \notin X /\ Without(q, X)[k] = q[i]
    BY WithoutFrom
  <2> QED BY <2>1 DEF Items
<1>2. ASSUME NEW i \in DOMAIN q, q[i] \notin X PROVE q[i] \in Items(Without(q, X))
  <2>1. 0 \in Nat /\ Clear(q, X, 0) /\ Lies(q, 0, q[i])
    BY DEF Clear, Lies
  <2>2. Lies(Without(q, X), 0, q[i])
    BY <1>2, <2>1, WithoutBehind
  <2> QED BY <2>2 DEF Items, Lies
<1> QED BY <1>1, <1>2 DEF Items

-----------------------------------------------------------------------------
(* The dispatcher's table                                                   *)

LEMMA BoundIs == \A r : Bound(r) = Items(r.binds)
BY DEF Bound, Items

LEMMA ItemsAppend ==
    ASSUME NEW T, NEW q \in Seq(T), NEW x \in T
    PROVE  /\ Append(q, x) \in Seq(T)
           /\ Items(Append(q, x)) = Items(q) \cup {x}
           /\ \A i \in DOMAIN q : i \in DOMAIN Append(q, x) /\ Append(q, x)[i] = q[i]
<1>1. /\ Append(q, x) \in Seq(T) /\ DOMAIN q = 1 .. Len(q) /\ Len(q) \in Nat
      /\ DOMAIN Append(q, x) = 1 .. Len(q) + 1
      /\ Append(q, x)[Len(q) + 1] = x
      /\ \A i \in 1 .. Len(q) : Append(q, x)[i] = q[i]
  OBVIOUS
<1>2. \A i \in DOMAIN q : i \in DOMAIN Append(q, x) /\ Append(q, x)[i] = q[i]
  BY <1>1
<1>3. \A i \in DOMAIN Append(q, x) : i \in DOMAIN q \/ i = Len(q) + 1
  BY <1>1
<1>4. Len(q) + 1 \in DOMAIN Append(q, x)
  BY <1>1
<1> QED BY <1>1, <1>2, <1>3, <1>4 DEF Items

LEMMA ReplacedIs ==
    ASSUME NEW r \in Registries, NEW b \in Seq(Entries)
    PROVE  LET R == Replaced(r, b) IN
           /\ R \in Registries
           /\ R.binds = b
           /\ R.timers = r.timers /\ R.wraps = r.wraps /\ R.help = r.help /\ R.defs = r.defs
           /\ R.changes = r.changes /\ R.bus = r.bus /\ R.known = r.known
           /\ \A d \in Dispatches : dis[d].phase = "idle" => R.view[d] = r.view[d]
           /\ \A d \in Dispatches : dis[d].phase # "idle" => Seen(R, d) = Seen(r, d)
<1> DEFINE v == [d \in Dispatches |->
                  IF dis[d].phase # "idle" /\ r.view[d] = Live THEN <<r.binds>> ELSE r.view[d]]
<1>1. r.view \in [Dispatches -> Seq(Seq(Entries))] /\ r.binds \in Seq(Entries)
  BY DEF Registries
<1>2. <<r.binds>> \in Seq(Seq(Entries)) /\ <<r.binds>> # Live /\ <<r.binds>>[1] = r.binds
  BY <1>1 DEF Live
<1>3. v \in [Dispatches -> Seq(Seq(Entries))]
  BY <1>1, <1>2
<1>4. Replaced(r, b) = [r EXCEPT !.view = v, !.binds = b]
  BY DEF Replaced
<1> HIDE DEF v
<1> DEFINE R == Replaced(r, b)
<1>5. /\ R \in Registries /\ R.binds = b /\ R.view = v
      /\ R.timers = r.timers /\ R.wraps = r.wraps /\ R.help = r.help /\ R.defs = r.defs
      /\ R.changes = r.changes /\ R.bus = r.bus /\ R.known = r.known
  BY <1>3, <1>4 DEF Registries
<1>6. \A d \in Dispatches : dis[d].phase = "idle" => R.view[d] = r.view[d]
  BY <1>5 DEF v
<1>7. ASSUME NEW d \in Dispatches, dis[d].phase # "idle" PROVE Seen(R, d) = Seen(r, d)
  BY <1>2, <1>5, <1>7 DEF v, Seen
<1> QED BY <1>5, <1>6, <1>7

-----------------------------------------------------------------------------
(* What a piece of init() leaves behind                                     *)

LEMMA CallOfIs == \A of, g, i : CallOf(of, <<g, i>>) = Plan[of[g]][i]
BY DEF CallOf

(* Calls from+1 .. k of generation g.                                        *)
New(g, from, k) == {<<g, i>> : i \in from + 1 .. k}

(* A bind that only its plugin's end, or its own handler, takes out.           *)
Stands(c) == c.op = "bind" /\ c.type \notin NonStackable

(* An array a dispatch goes through keeps what it had, where it was.           *)
SeenGrows(r) ==
  /\ \A d \in Dispatches : dis[d].phase = "idle" => r.view[d] = reg.view[d]
  /\ \A d \in Dispatches : dis[d].phase # "idle" =>
       \A i \in DOMAIN Seen(reg, d) : i \in DOMAIN Seen(r, d) /\ Seen(r, d)[i] = Seen(reg, d)[i]

TableGrows(r, g, from, k, of) ==
  /\ Bound(r) \subseteq Bound(reg) \cup New(g, from, k)
  /\ \A e \in Bound(reg) : CallOf(of, e).type \notin NonStackable => e \in Bound(r)
  /\ \A i \in from + 1 .. k : Stands(Plan[of[g]][i]) => <<g, i>> \in Bound(r)
  /\ r.timers = {e \in Bound(r) : CallOf(of, e).type = "time"}

AllKnown(known) == UNION {known[p] : p \in Plugins}

LEMMA InAllKnown ==
    ASSUME NEW known, NEW e
    PROVE  e \in AllKnown(known) <=> \E p \in Plugins : e \in known[p]
BY Zenon DEF AllKnown

NamesGrow(r, g, from, k, of) ==
  /\ r.bus = AllKnown(r.known)
  /\ \A q \in Plugins : q # of[g] => r.known[q] = reg.known[q]
  /\ r.known[of[g]] \subseteq reg.known[of[g]] \cup New(g, from, k)
  /\ r.help \subseteq reg.help \cup {of[g]}
  /\ r.changes \subseteq reg.changes \cup {of[g]}
  /\ \A x \in Keys : r.defs[x] \in {reg.defs[x], of[g]}

(* r is what reg becomes by the calls from+1 .. k of generation g.             *)
Grows(r, g, from, k, of) ==
  /\ r \in Registries
  /\ SeenGrows(r)
  /\ TableGrows(r, g, from, k, of)
  /\ NamesGrow(r, g, from, k, of)

Runs(g, from, of) ==
  /\ reg \in Registries
  /\ of \in Seq(Plugins) /\ g \in DOMAIN of /\ g \in Gens
  /\ from \in 0 .. Len(Plan[of[g]])

(* One call of generation g, at place k of its plan.                           *)
Calls1(r, g, from, k, of) ==
  /\ Runs(g, from, of)
  /\ k \in from + 1 .. Len(Plan[of[g]])
  /\ Grows(r, g, from, k - 1, of)

PlanCalls == [op : {"bind", "help", "setting", "change", "modes"},
              type : STRING, arg : STRING, handler : STRING]

LEMMA CallTypes ==
    ASSUME NEW r, NEW g, NEW from, NEW k, NEW of, Calls1(r, g, from, k, of)
    PROVE  /\ from \in Nat /\ k \in Nat /\ from < k
           /\ of[g] \in Plugins
           /\ k \in DOMAIN Plan[of[g]]
           /\ Plan[of[g]][k] \in PlanCalls
           /\ CallOf(of, <<g, k>>) = Plan[of[g]][k]
           /\ <<g, k>> \in Entries
           /\ \A i \in from + 1 .. k : i = k \/ i \in from + 1 .. k - 1
<1>1. of[g] \in Plugins
  BY DEF Calls1, Runs
<1>2. Plan[of[g]] \in Seq(PlanCalls)
  BY <1>1, PluginsAssumption DEF PlanCalls
<1>3. Len(Plan[of[g]]) \in Nat /\ DOMAIN Plan[of[g]] = 1 .. Len(Plan[of[g]])
  BY <1>2
<1>4. from \in Nat /\ k \in Nat /\ from < k /\ k \in DOMAIN Plan[of[g]]
  BY <1>3 DEF Calls1, Runs
<1>5. Plan[of[g]][k] \in PlanCalls
  BY <1>2, <1>4, ElementOfSeq
<1>6. <<g, k>> \in Entries
  BY <1>4 DEF Entries, Calls1, Runs
<1>7. \A i \in from + 1 .. k : i = k \/ i \in from + 1 .. k - 1
  BY <1>4
<1> QED BY <1>1, <1>4, <1>5, <1>6, <1>7, CallOfIs

LEMMA NewCall ==
    ASSUME NEW r, NEW g, NEW from, NEW k, NEW of, Calls1(r, g, from, k, of)
    PROVE  /\ New(g, from, k) = New(g, from, k - 1) \cup {<<g, k>>}
           /\ New(g, from, k - 1) \subseteq New(g, from, k)
<1>1. from \in Nat /\ k \in Nat /\ from < k
  BY CallTypes
<1>2. /\ k \in from + 1 .. k
      /\ \A i \in from + 1 .. k - 1 : i \in from + 1 .. k
      /\ \A i \in from + 1 .. k : i = k \/ i \in from + 1 .. k - 1
  BY <1>1
<1>3. New(g, from, k) = New(g, from, k - 1) \cup {<<g, k>>}
  BY <1>2 DEF New
<1> QED BY <1>3

LEMMA GrowsStart ==
    ASSUME NEW g, NEW from, NEW of, Runs(g, from, of),
           reg.timers = {e \in Bound(reg) : CallOf(of, e).type = "time"},
           reg.bus = AllKnown(reg.known)
    PROVE  Grows(reg, g, from, from, of)
<1>1. from + 1 .. from = {}
  <2>1. of[g] \in Plugins
    BY DEF Runs
  <2>2. Len(Plan[of[g]]) \in Nat
    BY <2>1, PluginsAssumption
  <2> QED BY <2>2 DEF Runs
<1>2. TableGrows(reg, g, from, from, of)
  BY <1>1 DEF TableGrows
<1>3. NamesGrow(reg, g, from, from, of)
  BY DEF NamesGrow
<1> QED BY <1>2, <1>3 DEF Grows, SeenGrows, Runs

LEMMA SameTable ==
    ASSUME NEW r, NEW g, NEW from, NEW k, NEW of, Calls1(r, g, from, k, of), NEW s,
           s.binds = r.binds, s.timers = r.timers, s.view = r.view,
           Plan[of[g]][k].op # "bind"
    PROVE  SeenGrows(s) /\ TableGrows(s, g, from, k, of)
<1>1. SeenGrows(r) /\ TableGrows(r, g, from, k - 1, of)
  BY DEF Calls1, Grows
<1>2. Bound(s) = Bound(r) /\ \A d : Seen(s, d) = Seen(r, d)
  BY DEF Bound, Seen
<1>3. SeenGrows(s)
  BY <1>1, <1>2 DEF SeenGrows
<1>4. \A i \in from + 1 .. k : Stands(Plan[of[g]][i]) => <<g, i>> \in Bound(s)
  <2>1. ~Stands(Plan[of[g]][k])
    BY DEF Stands
  <2> QED BY <1>1, <1>2, <2>1, CallTypes DEF TableGrows
<1>5. Bound(s) \subseteq Bound(reg) \cup New(g, from, k)
  <2>1. New(g, from, k - 1) \subseteq New(g, from, k)
    BY NewCall, Zenon
  <2> QED BY <1>1, <1>2, <2>1 DEF TableGrows
<1> QED BY <1>1, <1>2, <1>3, <1>4, <1>5 DEF TableGrows

LEMMA SameNames ==
    ASSUME NEW r, NEW g, NEW from, NEW k, NEW of, Calls1(r, g, from, k, of), NEW s,
           s.bus = r.bus, s.known = r.known, s.help = r.help, s.changes = r.changes, s.defs = r.defs
    PROVE  NamesGrow(s, g, from, k, of)
<1>1. NamesGrow(r, g, from, k - 1, of)
  BY DEF Calls1, Grows
<1>2. New(g, from, k - 1) \subseteq New(g, from, k)
  BY NewCall, Zenon
<1> QED BY <1>1, <1>2 DEF NamesGrow

LEMMA HelpGrows ==
    ASSUME NEW r, NEW g, NEW from, NEW k, NEW of, Calls1(r, g, from, k, of),
           Plan[of[g]][k].op # "bind"
    PROVE  Grows(RegisterHelp(r, of[g]), g, from, k, of)
<1> DEFINE s == RegisterHelp(r, of[g])
<1>1. r \in Registries /\ NamesGrow(r, g, from, k - 1, of) /\ of[g] \in Plugins
  BY CallTypes DEF Calls1, Grows
<1>2. /\ s \in Registries
      /\ s.binds = r.binds /\ s.timers = r.timers /\ s.view = r.view
      /\ s.bus = r.bus /\ s.known = r.known /\ s.changes = r.changes /\ s.defs = r.defs
      /\ s.help = r.help \cup {of[g]}
  BY <1>1 DEF RegisterHelp, Registries
<1> HIDE DEF s
<1>3. SeenGrows(s) /\ TableGrows(s, g, from, k, of)
  BY <1>2, SameTable
<1>4. New(g, from, k - 1) \subseteq New(g, from, k)
  BY NewCall, Zenon
<1>5. NamesGrow(s, g, from, k, of)
  BY <1>1, <1>2, <1>4 DEF NamesGrow
<1> QED BY <1>2, <1>3, <1>5 DEF Grows, s

LEMMA ChangeGrows ==
    ASSUME NEW r, NEW g, NEW from, NEW k, NEW of, Calls1(r, g, from, k, of),
           Plan[of[g]][k].op # "bind"
    PROVE  Grows(OnChange(r, of[g]), g, from, k, of)
<1> DEFINE s == OnChange(r, of[g])
<1>1. r \in Registries /\ NamesGrow(r, g, from, k - 1, of) /\ of[g] \in Plugins
  BY CallTypes DEF Calls1, Grows
<1>2. /\ s \in Registries
      /\ s.binds = r.binds /\ s.timers = r.timers /\ s.view = r.view
      /\ s.bus = r.bus /\ s.known = r.known /\ s.help = r.help /\ s.defs = r.defs
      /\ s.changes = r.changes \cup {of[g]}
  BY <1>1 DEF OnChange, Registries
<1> HIDE DEF s
<1>3. SeenGrows(s) /\ TableGrows(s, g, from, k, of)
  BY <1>2, SameTable
<1>4. New(g, from, k - 1) \subseteq New(g, from, k)
  BY NewCall, Zenon
<1>5. NamesGrow(s, g, from, k, of)
  BY <1>1, <1>2, <1>4 DEF NamesGrow
<1> QED BY <1>2, <1>3, <1>5 DEF Grows, s

LEMMA SettingGrows ==
    ASSUME NEW r, NEW g, NEW from, NEW k, NEW of, Calls1(r, g, from, k, of),
           Plan[of[g]][k].op # "bind", NEW x
    PROVE  Grows(RegisterSetting(r, of[g], x), g, from, k, of)
<1> DEFINE s == RegisterSetting(r, of[g], x)
           defs == [r.defs EXCEPT ![x] = IF @ = "none" THEN of[g] ELSE @]
<1>1. r \in Registries /\ NamesGrow(r, g, from, k - 1, of) /\ of[g] \in Plugins
  BY CallTypes DEF Calls1, Grows
<1>2. r.defs \in [Keys -> Plugins \cup {"none"}]
  BY <1>1 DEF Registries
<1>3. defs \in [Keys -> Plugins \cup {"none"}] /\ \A y \in Keys : defs[y] \in {r.defs[y], of[g]}
  BY <1>1, <1>2
<1>4. s = [r EXCEPT !.defs = defs]
  BY DEF RegisterSetting
<1> HIDE DEF defs, s
<1>5. /\ s \in Registries
      /\ s.binds = r.binds /\ s.timers = r.timers /\ s.view = r.view
      /\ s.bus = r.bus /\ s.known = r.known /\ s.help = r.help /\ s.changes = r.changes
      /\ s.defs = defs
  BY <1>1, <1>3, <1>4 DEF Registries
<1>6. SeenGrows(s) /\ TableGrows(s, g, from, k, of)
  BY <1>5, SameTable
<1>7. New(g, from, k - 1) \subseteq New(g, from, k)
  BY NewCall, Zenon
<1>8. \A y \in Keys : s.defs[y] \in {reg.defs[y], of[g]}
  BY <1>1, <1>3, <1>5 DEF NamesGrow
<1>9. NamesGrow(s, g, from, k, of)
  BY <1>1, <1>5, <1>7, <1>8 DEF NamesGrow
<1> QED BY <1>5, <1>6, <1>9 DEF Grows, s

LEMMA ModesGrows ==
    ASSUME NEW r, NEW g, NEW from, NEW k, NEW of, Calls1(r, g, from, k, of),
           Plan[of[g]][k].op # "bind"
    PROVE  Grows(OnModesReady(r, of[g], <<g, k>>), g, from, k, of)
<1> DEFINE s == OnModesReady(r, of[g], <<g, k>>)
           known == [r.known EXCEPT ![of[g]] = @ \cup {<<g, k>>}]
<1>1. r \in Registries /\ NamesGrow(r, g, from, k - 1, of) /\ of[g] \in Plugins /\ <<g, k>> \in Entries
  BY CallTypes DEF Calls1, Grows
<1>2. r.known \in [Plugins -> SUBSET Entries]
  BY <1>1 DEF Registries
<1>3. /\ known \in [Plugins -> SUBSET Entries]
      /\ known[of[g]] = r.known[of[g]] \cup {<<g, k>>}
      /\ \A q \in Plugins : q # of[g] => known[q] = r.known[q]
  BY <1>1, <1>2
<1>4. s = [r EXCEPT !.bus = @ \cup {<<g, k>>}, !.known = known]
  BY DEF OnModesReady
<1> HIDE DEF known, s
<1>5. /\ s \in Registries
      /\ s.binds = r.binds /\ s.timers = r.timers /\ s.view = r.view
      /\ s.help = r.help /\ s.changes = r.changes /\ s.defs = r.defs
      /\ s.bus = r.bus \cup {<<g, k>>} /\ s.known = known
  BY <1>1, <1>3, <1>4 DEF Registries
<1>6. SeenGrows(s) /\ TableGrows(s, g, from, k, of)
  BY <1>5, SameTable
<1>7. New(g, from, k) = New(g, from, k - 1) \cup {<<g, k>>}
  BY NewCall, Zenon
<1>8. AllKnown(known) = AllKnown(r.known) \cup {<<g, k>>}
  BY <1>1, <1>3, InAllKnown
<1>9. NamesGrow(s, g, from, k, of)
  BY <1>1, <1>3, <1>5, <1>7, <1>8 DEF NamesGrow
<1> QED BY <1>5, <1>6, <1>9 DEF Grows, s

LEMMA RememberIs ==
    ASSUME NEW r \in Registries, NEW e \in Entries, NEW of, NEW wrap
    PROVE  LET w == Remember(r, e, of, wrap) IN
           /\ w \in Registries
           /\ w.binds = r.binds /\ w.timers = r.timers /\ w.view = r.view
           /\ w.help = r.help /\ w.changes = r.changes /\ w.defs = r.defs
           /\ w.bus = r.bus /\ w.known = r.known
<1> DEFINE wraps == Remember(r, e, of, wrap).wraps
<1>1. wraps \subseteq Entries
  BY DEF Remember, Registries
<1>2. Remember(r, e, of, wrap) = [r EXCEPT !.wraps = wraps]
  BY DEF Remember, Registries
<1> HIDE DEF wraps
<1> QED BY <1>1, <1>2 DEF Registries

(* Room for call c: the array without what it takes the place of.               *)
Room(w, c, of) ==
  IF c.type \in NonStackable
  THEN Replaced(w, Without(w.binds, {x \in Bound(w) : Same(CallOf(of, x), c)})) ELSE w

LEMMA RoomIs ==
    ASSUME NEW w \in Registries, NEW c, NEW of
    PROVE  LET m == Room(w, c, of) IN
           /\ m \in Registries
           /\ m.timers = w.timers /\ m.help = w.help /\ m.changes = w.changes /\ m.defs = w.defs
           /\ m.bus = w.bus /\ m.known = w.known
           /\ Bound(m) \subseteq Bound(w)
           /\ \A x \in Bound(w) : CallOf(of, x).type \notin NonStackable => x \in Bound(m)
           /\ \A d \in Dispatches : dis[d].phase = "idle" => m.view[d] = w.view[d]
           /\ \A d \in Dispatches : dis[d].phase # "idle" => Seen(m, d) = Seen(w, d)
<1> DEFINE X == {x \in Bound(w) : Same(CallOf(of, x), c)}
           m == Room(w, c, of)
<1>1. CASE c.type \in NonStackable
  <2>1. w.binds \in Seq(Entries)
    BY DEF Registries
  <2>2. Without(w.binds, X) \in Seq(Entries)
    BY <2>1, WithoutType
  <2>3. m = Replaced(w, Without(w.binds, X))
    BY <1>1 DEF Room
  <2>4. Items(Without(w.binds, X)) = Items(w.binds) \ X
    BY <2>1, WithoutItems
  <2>5. \A x \in X : CallOf(of, x).type \in NonStackable
    BY <1>1 DEF Same
  <2> HIDE DEF X, m
  <2>6. /\ m \in Registries
        /\ m.binds = Without(w.binds, X)
        /\ m.timers = w.timers /\ m.help = w.help /\ m.changes = w.changes /\ m.defs = w.defs
        /\ m.bus = w.bus /\ m.known = w.known
        /\ \A d \in Dispatches : dis[d].phase = "idle" => m.view[d] = w.view[d]
        /\ \A d \in Dispatches : dis[d].phase # "idle" => Seen(m, d) = Seen(w, d)
    BY <2>2, <2>3, ReplacedIs
  <2>7. Bound(m) = Bound(w) \ X
    BY <2>4, <2>6, BoundIs
  <2> QED BY <2>5, <2>6, <2>7 DEF m
<1>2. CASE c.type \notin NonStackable
  BY <1>2 DEF Room
<1> QED BY <1>1, <1>2

LEMMA BindGrows ==
    ASSUME NEW r, NEW g, NEW from, NEW k, NEW of, Calls1(r, g, from, k, of),
           Plan[of[g]][k].op = "bind", NEW wrap
    PROVE  Grows(Bind(Remember(r, <<g, k>>, of, wrap), <<g, k>>, of), g, from, k, of)
<1> DEFINE e == <<g, k>>
           c == CallOf(of, e)
           w == Remember(r, e, of, wrap)
           m == Room(w, c, of)
           binds == Append(m.binds, e)
           timers == IF c.type = "time" THEN m.timers \cup {e} ELSE m.timers
           s == Bind(w, e, of)
<1>1. /\ r \in Registries /\ of[g] \in Plugins /\ e \in Entries /\ c = Plan[of[g]][k]
      /\ SeenGrows(r) /\ TableGrows(r, g, from, k - 1, of) /\ NamesGrow(r, g, from, k - 1, of)
  <2>1. of[g] \in Plugins /\ e \in Entries
    BY CallTypes, Zenon
  <2>2. c = Plan[of[g]][k]
    BY DEF CallOf
  <2> HIDE DEF e, c
  <2> QED BY <2>1, <2>2 DEF Calls1, Grows
<1>2. s = [m EXCEPT !.binds = binds, !.timers = timers]
  BY DEF Bind, Room
<1> HIDE DEF e, c, binds, timers, s, w, m
<1>3. /\ w \in Registries
      /\ w.binds = r.binds /\ w.timers = r.timers /\ w.view = r.view
      /\ w.help = r.help /\ w.changes = r.changes /\ w.defs = r.defs
      /\ w.bus = r.bus /\ w.known = r.known
  BY <1>1, RememberIs DEF w
<1>4. Bound(w) = Bound(r) /\ \A d \in Dispatches : Seen(w, d) = Seen(r, d)
  BY <1>3 DEF Bound, Seen
<1>5. /\ m \in Registries
      /\ m.timers = r.timers /\ m.help = r.help /\ m.changes = r.changes /\ m.defs = r.defs
      /\ m.bus = r.bus /\ m.known = r.known
      /\ Bound(m) \subseteq Bound(r)
      /\ \A x \in Bound(r) : CallOf(of, x).type \notin NonStackable => x \in Bound(m)
      /\ \A d \in Dispatches : dis[d].phase = "idle" => m.view[d] = r.view[d]
      /\ \A d \in Dispatches : dis[d].phase # "idle" => Seen(m, d) = Seen(r, d)
  BY <1>3, <1>4, RoomIs DEF m
<1>6. m.binds \in Seq(Entries) /\ m.timers \subseteq Entries
  BY <1>5 DEF Registries
<1>7. /\ binds \in Seq(Entries) /\ Items(binds) = Items(m.binds) \cup {e}
      /\ \A i \in DOMAIN m.binds : i \in DOMAIN binds /\ binds[i] = m.binds[i]
  BY <1>1, <1>6, ItemsAppend DEF binds
<1>8. timers \subseteq Entries
  BY <1>1, <1>6 DEF timers
<1>9. /\ s \in Registries
      /\ s.binds = binds /\ s.timers = timers /\ s.view = m.view
      /\ s.help = r.help /\ s.changes = r.changes /\ s.defs = r.defs
      /\ s.bus = r.bus /\ s.known = r.known
  BY <1>2, <1>5, <1>7, <1>8 DEF Registries
<1>10. Bound(s) = Bound(m) \cup {e}
  BY <1>7, <1>9, BoundIs
<1>11. SeenGrows(s)
  <2>1. \A d \in Dispatches : dis[d].phase = "idle" => s.view[d] = reg.view[d]
    BY <1>1, <1>5, <1>9 DEF SeenGrows
  <2>2. ASSUME NEW d \in Dispatches, NEW i \in DOMAIN Seen(m, d)
        PROVE  i \in DOMAIN Seen(s, d) /\ Seen(s, d)[i] = Seen(m, d)[i]
    BY <1>7, <1>9 DEF Seen
  <2>3. ASSUME NEW d \in Dispatches, dis[d].phase # "idle", NEW i \in DOMAIN Seen(reg, d)
        PROVE  i \in DOMAIN Seen(s, d) /\ Seen(s, d)[i] = Seen(reg, d)[i]
    <3>1. i \in DOMAIN Seen(r, d) /\ Seen(r, d)[i] = Seen(reg, d)[i]
      BY <1>1, <2>3 DEF SeenGrows
    <3>2. Seen(m, d) = Seen(r, d)
      BY <1>5, <2>3
    <3> QED BY <2>2, <3>1, <3>2
  <2> QED BY <2>1, <2>3 DEF SeenGrows
<1>12. TableGrows(s, g, from, k, of)
  <2>1. New(g, from, k) = New(g, from, k - 1) \cup {e}
    BY NewCall, Zenon DEF e
  <2>2. Bound(s) \subseteq Bound(reg) \cup New(g, from, k)
    BY <1>1, <1>5, <1>10, <2>1 DEF TableGrows
  <2>3. \A x \in Bound(reg) : CallOf(of, x).type \notin NonStackable => x \in Bound(s)
    BY <1>1, <1>5, <1>10 DEF TableGrows
  <2>4. ASSUME NEW i \in from + 1 .. k, Stands(Plan[of[g]][i]) PROVE <<g, i>> \in Bound(s)
    <3>1. CASE i = k
      BY <1>10, <3>1 DEF e
    <3>2. CASE i # k
      <4>1. i \in from + 1 .. k - 1
        BY <3>2, CallTypes
      <4>2. <<g, i>> \in Bound(r)
        BY <1>1, <2>4, <4>1 DEF TableGrows
      <4>3. CallOf(of, <<g, i>>).type \notin NonStackable
        BY <2>4, CallOfIs DEF Stands
      <4> QED BY <1>5, <1>10, <4>2, <4>3
    <3> QED BY <3>1, <3>2
  <2>5. s.timers = {x \in Bound(s) : CallOf(of, x).type = "time"}
    <3>1. "time" \notin NonStackable
      BY DEF NonStackable
    <3>2. r.timers = {x \in Bound(r) : CallOf(of, x).type = "time"}
      BY <1>1 DEF TableGrows
    <3>3. m.timers = {x \in Bound(m) : CallOf(of, x).type = "time"}
      BY <1>5, <3>1, <3>2
    <3> QED BY <1>9, <1>10, <3>3 DEF timers, c
  <2> QED BY <2>2, <2>3, <2>4, <2>5 DEF TableGrows
<1>13. NamesGrow(s, g, from, k, of)
  BY <1>9, SameNames
<1> QED BY <1>9, <1>11, <1>12, <1>13 DEF Grows, s, w, e

LEMMA ApiGrows ==
    ASSUME NEW r, NEW g, NEW from, NEW k, NEW of, Calls1(r, g, from, k, of), NEW wrap
    PROVE  Grows(Api(r, <<g, k>>, of, wrap), g, from, k, of)
<1> DEFINE c == Plan[of[g]][k]
<1>1. c.op \in {"bind", "help", "setting", "change", "modes"}
  <2>1. c \in PlanCalls
    BY CallTypes
  <2> QED BY <2>1 DEF PlanCalls
<1>2. CallOf(of, <<g, k>>) = c /\ <<g, k>>[1] = g
  BY CallOfIs
<1>3. CASE c.op = "bind"
  <2>1. Api(r, <<g, k>>, of, wrap) = Bind(Remember(r, <<g, k>>, of, wrap), <<g, k>>, of)
    BY <1>2, <1>3 DEF Api
  <2> QED BY <1>3, <2>1, BindGrows
<1>4. CASE c.op = "help"
  <2>1. Api(r, <<g, k>>, of, wrap) = RegisterHelp(r, of[g])
    BY <1>2, <1>4 DEF Api
  <2> QED BY <1>4, <2>1, HelpGrows
<1>5. CASE c.op = "setting"
  <2>1. Api(r, <<g, k>>, of, wrap) = RegisterSetting(r, of[g], c.arg)
    BY <1>2, <1>5 DEF Api
  <2> QED BY <1>5, <2>1, SettingGrows
<1>6. CASE c.op = "change"
  <2>1. Api(r, <<g, k>>, of, wrap) = OnChange(r, of[g])
    BY <1>2, <1>6 DEF Api
  <2> QED BY <1>6, <2>1, ChangeGrows
<1>7. CASE c.op = "modes"
  <2>1. Api(r, <<g, k>>, of, wrap) = OnModesReady(r, of[g], <<g, k>>)
    BY <1>2, <1>7 DEF Api
  <2> QED BY <1>7, <2>1, ModesGrows
<1> QED BY <1>1, <1>3, <1>4, <1>5, <1>6, <1>7

(* A run of init() leaves, after each call, what its calls so far leave.         *)
LEMMA RanGrows ==
    ASSUME NEW g, NEW from, NEW of, Runs(g, from, of), NEW wrap,
           Grows(reg, g, from, from, of)
    PROVE  \A n \in from .. Len(Plan[of[g]]) : Grows(Ran(g, from, of, wrap)[n], g, from, n, of)
<1> DEFINE L == Len(Plan[of[g]])
           After(r, k) == Api(r, <<g, k>>, of, wrap)
           Typed(r, k) == IF k # from /\ After(r, k) \in Registries THEN After(r, k) ELSE reg
           s == [x \in (from .. L) \X Registries |-> Typed(x[2], x[1])]
           Eq(f) == f = [k \in from .. L |-> IF k = from THEN reg ELSE After(f[k - 1], k)]
           R == CHOOSE f : Eq(f)
<1>1. from \in Nat /\ L \in Nat /\ from <= L /\ reg \in Registries
  <2>1. of[g] \in Plugins
    BY DEF Runs
  <2>2. L \in Nat
    BY <2>1, PluginsAssumption
  <2> QED BY <2>2 DEF Runs
<1>2. Ran(g, from, of, wrap) = R
  BY DEF Ran
<1> HIDE DEF L, After
<1>3. \A k \in from .. L : \A r \in Registries : Typed(r, k) \in Registries
  BY <1>1
<1> HIDE DEF Typed
<1>4. /\ s \in [(from .. L) \X Registries -> Registries]
      /\ \A k \in from .. L : \A r \in Registries : s[<<k, r>>] = Typed(r, k)
  BY <1>3
<1> HIDE DEF s
<1>5. PICK f \in [from .. L -> Registries] : Unfolds(f, from, L, reg, s)
  <2>1. \E f \in [from .. L -> Registries] : Unfolds(f, from, L, reg, s)
    BY <1>1, <1>4, Recursion, Zenon
  <2> QED BY <2>1
<1>6. f[from] = reg
  <2>1. from \in from .. L
    BY <1>1
  <2> QED BY <1>5, <2>1 DEF Unfolds
<1> DEFINE S == {n \in Nat : n \in from .. L =>
                   /\ Grows(f[n], g, from, n, of)
                   /\ n # from => f[n] = After(f[n - 1], n)}
<1>7. 0 \in S
  BY <1>1, <1>6
<1>8. ASSUME NEW n \in Nat, n \in S PROVE n + 1 \in S
  <2> SUFFICES ASSUME n + 1 \in from .. L
               PROVE  /\ Grows(f[n + 1], g, from, n + 1, of)
                      /\ n + 1 # from => f[n + 1] = After(f[(n + 1) - 1], n + 1)
    OBVIOUS
  <2>1. CASE n + 1 = from
    BY <1>6, <2>1
  <2>2. CASE n + 1 # from
    <3>1. n \in from .. L /\ n + 1 \in from + 1 .. L /\ (n + 1) - 1 = n /\ f[n] \in Registries
      BY <1>1, <2>2
    <3>2. Grows(f[n], g, from, n, of)
      BY <1>8, <3>1
    <3>3. Calls1(f[n], g, from, n + 1, of)
      BY <3>1, <3>2 DEF Calls1, L
    <3>4. Grows(After(f[n], n + 1), g, from, n + 1, of)
      BY <3>3, ApiGrows DEF After
    <3>5. After(f[n], n + 1) \in Registries
      BY <3>4 DEF Grows
    <3>6. f[n + 1] = s[<<n + 1, f[n]>>]
      BY <1>5, <2>2, <3>1 DEF Unfolds
    <3>7. f[n + 1] = After(f[n], n + 1)
      BY <1>4, <2>2, <3>1, <3>5, <3>6 DEF Typed
    <3> QED BY <3>1, <3>4, <3>7
  <2> QED BY <2>1, <2>2
<1> HIDE DEF S
<1>9. Nat \subseteq S
  BY <1>7, <1>8, Induction
<1>10. \A n \in from .. L : Grows(f[n], g, from, n, of) /\ (n # from => f[n] = After(f[n - 1], n))
  BY <1>1, <1>9 DEF S
<1>11. Eq(f)
  BY <1>6, <1>10
<1>12. Eq(R)
  <2> HIDE DEF Eq
  <2> QED BY <1>11
<1> HIDE DEF R
<1>13. \A k \in from .. L : R[k] = IF k = from THEN reg ELSE After(R[k - 1], k)
  BY <1>12
<1> DEFINE T == {n \in Nat : n \in from .. L => R[n] = f[n]}
<1>14. 0 \in T
  BY <1>1, <1>6, <1>13
<1>15. ASSUME NEW n \in Nat, n \in T PROVE n + 1 \in T
  <2> SUFFICES ASSUME n + 1 \in from .. L PROVE R[n + 1] = f[n + 1]
    OBVIOUS
  <2>1. CASE n + 1 = from
    BY <1>6, <1>13, <2>1
  <2>2. CASE n + 1 # from
    <3>1. n \in from .. L /\ (n + 1) - 1 = n
      BY <1>1, <2>2
    <3> QED BY <1>10, <1>13, <1>15, <2>2, <3>1
  <2> QED BY <2>1, <2>2
<1> HIDE DEF T
<1>16. Nat \subseteq T
  BY <1>14, <1>15, Induction
<1>17. \A n \in from .. L : R[n] = f[n]
  BY <1>1, <1>16 DEF T
<1> QED BY <1>2, <1>10, <1>17 DEF L

-----------------------------------------------------------------------------
(* What takes binds out of the table                                        *)

LEMMA UnbindAllIs ==
    ASSUME NEW r \in Registries, NEW p, NEW of
    PROVE  LET s == UnbindAll(r, p, of)
               its == {e \in Bound(r) : of[e[1]] = p}
           IN /\ s \in Registries
              /\ Bound(s) = Bound(r) \ its
              /\ s.timers = r.timers \ its
              /\ s.help = r.help /\ s.changes = r.changes /\ s.defs = r.defs
              /\ s.bus = r.bus /\ s.known = r.known
              /\ \A d \in Dispatches : dis[d].phase = "idle" => s.view[d] = r.view[d]
              /\ \A d \in Dispatches : dis[d].phase # "idle" => Seen(s, d) = Seen(r, d)
<1> DEFINE its == {e \in Bound(r) : of[e[1]] = p}
           b == Without(r.binds, its)
           m == Replaced(r, b)
           s == UnbindAll(r, p, of)
<1>1. r.binds \in Seq(Entries) /\ r.timers \subseteq Entries
  BY DEF Registries
<1>2. b \in Seq(Entries) /\ Items(b) = Items(r.binds) \ its
  BY <1>1, WithoutType, WithoutItems
<1>3. s = [m EXCEPT !.timers = @ \ its]
  BY DEF UnbindAll
<1> HIDE DEF its, b, m, s
<1>4. /\ m \in Registries
      /\ m.binds = b
      /\ m.timers = r.timers /\ m.help = r.help /\ m.defs = r.defs
      /\ m.changes = r.changes /\ m.bus = r.bus /\ m.known = r.known
      /\ \A d \in Dispatches : dis[d].phase = "idle" => m.view[d] = r.view[d]
      /\ \A d \in Dispatches : dis[d].phase # "idle" => Seen(m, d) = Seen(r, d)
  BY <1>2, ReplacedIs DEF m
<1>5. /\ s \in Registries /\ s.binds = b /\ s.view = m.view /\ s.timers = m.timers \ its
      /\ s.help = m.help /\ s.defs = m.defs
      /\ s.changes = m.changes /\ s.bus = m.bus /\ s.known = m.known
  BY <1>1, <1>3, <1>4 DEF Registries
<1>6. \A d \in Dispatches : Seen(s, d) = Seen(m, d)
  BY <1>4, <1>5 DEF Seen
<1>7. Bound(s) = Bound(r) \ its
  BY <1>2, <1>5, BoundIs
<1> QED BY <1>4, <1>5, <1>6, <1>7 DEF its, s

LEMMA HandlerActsIs ==
    ASSUME NEW r \in Registries, NEW e
    PROVE  LET s == HandlerActs(r, e) IN
           /\ s \in Registries
           /\ s.view = r.view /\ s.help = r.help /\ s.changes = r.changes /\ s.defs = r.defs
           /\ s.bus = r.bus /\ s.known = r.known
           /\ \/ s = r
              \/ /\ Call(e).handler \in Once /\ e \in Bound(r)
                 /\ s.binds = Without(r.binds, {e})
                 /\ Bound(s) = Bound(r) \ {e}
                 /\ s.timers = r.timers \ {e}
<1> DEFINE b == Without(r.binds, {e})
           s == HandlerActs(r, e)
<1>1. r.binds \in Seq(Entries) /\ r.timers \subseteq Entries /\ r.wraps \subseteq Entries
  BY DEF Registries
<1>2. b \in Seq(Entries) /\ Items(b) = Items(r.binds) \ {e}
  BY <1>1, WithoutType, WithoutItems
<1>3. \/ s = r
      \/ /\ Call(e).handler \in Once /\ e \in Bound(r)
         /\ s = [[r EXCEPT !.binds = b, !.timers = @ \ {e}] EXCEPT !.wraps = @ \ {e}]
  BY DEF HandlerActs, SelfUnbind, Unbind
<1> HIDE DEF b, s
<1>4. CASE s = r
  BY <1>4 DEF s
<1>5. CASE /\ Call(e).handler \in Once /\ e \in Bound(r)
           /\ s = [[r EXCEPT !.binds = b, !.timers = @ \ {e}] EXCEPT !.wraps = @ \ {e}]
  <2>1. /\ s \in Registries
        /\ s.binds = b /\ s.timers = r.timers \ {e}
        /\ s.view = r.view /\ s.help = r.help /\ s.changes = r.changes /\ s.defs = r.defs
        /\ s.bus = r.bus /\ s.known = r.known
    BY <1>1, <1>2, <1>5 DEF Registries
  <2>2. Bound(s) = Bound(r) \ {e}
    BY <1>2, <2>1, BoundIs
  <2> QED BY <1>5, <2>1, <2>2 DEF s, b
<1> QED BY <1>3, <1>4, <1>5

LEMMA ForgottenIs ==
    ASSUME reg \in Registries, NEW p \in Plugins
    PROVE  LET s == Forgotten(reg, p)
               its == {e \in Bound(reg) : owner[e[1]] = p}
           IN /\ s \in Registries
              /\ Bound(s) = Bound(reg) \ its
              /\ s.timers = reg.timers \ its
              /\ s.help = reg.help \ {p} /\ s.changes = reg.changes \ {p}
              /\ s.defs = [k \in Keys |-> IF reg.defs[k] = p THEN "none" ELSE reg.defs[k]]
              /\ s.bus = reg.bus \ reg.known[p]
              /\ s.known = [reg.known EXCEPT ![p] = {}]
              /\ \A d \in Dispatches : dis[d].phase = "idle" => s.view[d] = reg.view[d]
              /\ \A d \in Dispatches : dis[d].phase # "idle" => Seen(s, d) = Seen(reg, d)
<1> DEFINE its == {e \in Bound(reg) : owner[e[1]] = p}
           u == UnbindAll(reg, p, owner)
           h == ForgetHelp(u, p)
           t == ForgetSettings(h, p)
           s == ForgetModesReady(t, p)
<1>1. /\ u \in Registries
      /\ Bound(u) = Bound(reg) \ its
      /\ u.timers = reg.timers \ its
      /\ u.help = reg.help /\ u.changes = reg.changes /\ u.defs = reg.defs
      /\ u.bus = reg.bus /\ u.known = reg.known
      /\ \A d \in Dispatches : dis[d].phase = "idle" => u.view[d] = reg.view[d]
      /\ \A d \in Dispatches : dis[d].phase # "idle" => Seen(u, d) = Seen(reg, d)
  BY UnbindAllIs
<1>2. Forgotten(reg, p) = s
  BY DEF Forgotten
<1> HIDE DEF u, its
<1>3. /\ h \in Registries
      /\ h.binds = u.binds /\ h.timers = u.timers /\ h.view = u.view /\ h.changes = u.changes
      /\ h.defs = u.defs /\ h.bus = u.bus /\ h.known = u.known /\ h.help = u.help \ {p}
  BY <1>1 DEF ForgetHelp, Registries
<1> HIDE DEF h
<1>4. h.defs \in [Keys -> Plugins \cup {"none"}]
  BY <1>3 DEF Registries
<1>5. /\ t \in Registries
      /\ t.binds = h.binds /\ t.timers = h.timers /\ t.view = h.view /\ t.help = h.help
      /\ t.bus = h.bus /\ t.known = h.known /\ t.changes = h.changes \ {p}
      /\ t.defs = [k \in Keys |-> IF h.defs[k] = p THEN "none" ELSE h.defs[k]]
  BY <1>3, <1>4 DEF ForgetSettings, Registries
<1> HIDE DEF t
<1>6. t.known \in [Plugins -> SUBSET Entries]
  BY <1>5 DEF Registries
<1>7. /\ s \in Registries
      /\ s.binds = t.binds /\ s.timers = t.timers /\ s.view = t.view /\ s.help = t.help
      /\ s.changes = t.changes /\ s.defs = t.defs
      /\ s.bus = t.bus \ t.known[p] /\ s.known = [t.known EXCEPT ![p] = {}]
  BY <1>5, <1>6 DEF ForgetModesReady, Registries
<1> HIDE DEF s
<1>8. Bound(s) = Bound(u) /\ \A d \in Dispatches : Seen(s, d) = Seen(u, d)
  BY <1>3, <1>5, <1>7 DEF Bound, Seen
<1> QED BY <1>1, <1>2, <1>3, <1>5, <1>7, <1>8 DEF its

-----------------------------------------------------------------------------
(* The invariant                                                            *)

(* Entry e has been made: by a load that there was, and by a call its init has got to. *)
Inits == {j \in Jobs : job[j].phase = "init"}
Made(e) ==
  /\ e[1] \in DOMAIN owner
  /\ \A j \in Inits : job[j].gen = e[1] => e[2] <= job[j].done

(* Each init under way is of its own load; what is registered has been made, and  *)
(* listeners are kept under the name of the plugin they are of.                  *)
Loads ==
  /\ \A j \in Inits : /\ job[j].gen \in DOMAIN owner
                      /\ owner[job[j].gen] = Head1(j).plugin
                      /\ job[j].done <= Len(Plan[Head1(j).plugin])
  /\ \A j, k \in Inits : job[j].gen = job[k].gen => j = k
  /\ \A e \in Bound(reg) : Made(e)
  /\ \A p \in Plugins : \A e \in reg.known[p] : e[1] \in DOMAIN owner /\ owner[e[1]] = p

(* A plugin that was never contended for is one job's, and its init finds nothing  *)
(* of an earlier load.                                                          *)
Single == \A p \in Plugins \ crossed : \A j, k \in Jobs : On(j, p) /\ On(k, p) => j = k
Recorded == \A p \in Plugins : loaded[p] # 0 => loaded[p] \in DOMAIN owner /\ owner[loaded[p]] = p
Alone(p, g) == \A e \in Bound(reg) : owner[e[1]] = p => e[1] = g
HasCalls(p, g, n) == \A i \in 1 .. n : Lasting(Plan[p][i]) => <<g, i>> \in Bound(reg)
Loading ==
  \A j \in Inits : Head1(j).plugin \notin crossed =>
    /\ loaded[Head1(j).plugin] = 0
    /\ Alone(Head1(j).plugin, job[j].gen)
    /\ HasCalls(Head1(j).plugin, job[j].gen, job[j].done)

(* An event is owed binds it takes; those still in the table are ahead of it.      *)
Owing(d, e) ==
  /\ Made(e)
  /\ Takes(dis[d].event, e)
  /\ e \in Bound(reg) =>
       \/ dis[d].phase = "verify" /\ e = dis[d].entry
       \/ \E i \in DOMAIN Seen(reg, d) : i > dis[d].at /\ Seen(reg, d)[i] = e
Debts == \A d \in Dispatches : \A e \in owed[d] : Owing(d, e)

PluginsInv ==
  /\ NothingLeft /\ Loads
  /\ LoadedWorks /\ Single /\ Recorded /\ Loading
  /\ Delivered /\ Debts

JobStates == [phase : {"idle", "ready", "import", "init", "teardown"},
              todo : Seq(Steps), gen : 0 .. MaxGens, done : Nat]
DispatchStates == [phase : {"idle", "verify", "handler"}, event : Events \cup {NoEvent.event},
                   at : Nat, entry : Entries \cup {NoEvent.entry}]

LEMMA LowestOf ==
    ASSUME NEW S, S \subseteq Nat, S # {}
    PROVE  LET m == CHOOSE a \in S : \A b \in S : a <= b IN m \in S /\ \A b \in S : m <= b
<1>1. PICK m \in S : \A k \in S : ~ (<<k, m>> \in OpToRel(<, Nat))
  BY WFMin, NatLessThanWellFounded, Zenon
<1>2. \A k \in S : k < m => <<k, m>> \in OpToRel(<, Nat)
  BY Zenon DEF OpToRel
<1>3. \A k \in S : ~ (k < m)
  BY <1>1, <1>2, Zenon
<1>4. \A k \in S : m <= k
  BY <1>3
<1> QED BY <1>4

LEMMA BeginIs ==
    ASSUME NEW q \in Seq(Steps)
    PROVE  /\ Begin(q) \in JobStates
           /\ Begin(q).phase \in {"idle", "ready"}
           /\ Begin(q).todo = q
           /\ Begin(q).phase = "idle" <=> q = <<>>
<1>1. Idle \in JobStates /\ Idle.todo = <<>> /\ Idle.phase = "idle"
  BY PluginsAssumption DEF Idle, JobStates
<1>2. CASE q = <<>>
  BY <1>1, <1>2 DEF Begin
<1>3. CASE q # <<>>
  <2>1. Begin(q) = [Idle EXCEPT !.phase = "ready", !.todo = q]
    BY <1>3 DEF Begin
  <2>2. Begin(q) = [phase |-> "ready", todo |-> q, gen |-> 0, done |-> 0]
    BY <2>1 DEF Idle
  <2> QED BY <1>3, <2>2, PluginsAssumption DEF JobStates
<1> QED BY <1>2, <1>3

(* What the rest of a job's steps is about.                                  *)
LEMMA TailIs ==
    ASSUME NEW q \in Seq(Steps), q # <<>>
    PROVE  /\ Tail(q) \in Seq(Steps)
           /\ Head(q) \in Steps
           /\ 1 \in DOMAIN q /\ Head(q) = q[1]
           /\ \A i \in DOMAIN Tail(q) : i + 1 \in DOMAIN q /\ Tail(q)[i] = q[i + 1]
<1>1. Len(q) \in Nat \ {0}
  BY EmptySeq
<1> QED BY <1>1, HeadTailProperties

-----------------------------------------------------------------------------
(* A piece of init(), the first one of a load or a later one                   *)

Turn(j, g, from) ==
  /\ j \in Jobs /\ job[j].phase \in {"import", "init"}
  /\ owner' \in Seq(Plugins) /\ Len(owner') <= MaxGens /\ scoped' \subseteq Gens
  /\ \A i \in DOMAIN owner : i \in DOMAIN owner' /\ owner'[i] = owner[i]
  /\ Runs(g, from, owner')
  /\ owner'[g] = Head1(j).plugin
  /\ \A k \in Inits : job[k].gen = g => k = j
  /\ \A e : Made(e) /\ e[1] = g => e[2] <= from
  /\ job[j].phase = "import" => loaded[owner'[g]] = 0 /\ from = 0 /\ g \notin DOMAIN owner
  /\ job[j].phase = "init" => job[j].gen = g /\ job[j].done = from
  /\ UNCHANGED <<dis, owed, crossed>>

Ends(j, g, from) ==
  /\ Grows(reg', g, from, Len(Plan[owner'[g]]), owner')
  /\ loaded' = [loaded EXCEPT ![owner'[g]] = g]
  /\ job' = NextStep(j)
  /\ failed' = failed

Waits(j, g, from, to) ==
  /\ to \in from + 1 .. Len(Plan[owner'[g]])
  /\ Grows(reg', g, from, to, owner')
  /\ job' = [job EXCEPT ![j] = [@ EXCEPT !.phase = "init", !.gen = g, !.done = to]]
  /\ loaded' = loaded /\ failed' = failed

Throws(j, g, from, n, r) ==
  /\ n \in from .. Len(Plan[owner'[g]])
  /\ Grows(r, g, from, n, owner')
  /\ reg' = UnbindAll(r, owner'[g], owner')
  /\ job' = NextStep(j)
  /\ failed' = failed \cup {owner'[g]}
  /\ loaded' = loaded

Piece(j, g, from) ==
  \/ Ends(j, g, from)
  \/ \E to : Waits(j, g, from, to)
  \/ \E n, r : Throws(j, g, from, n, r)

LEMMA TypesOf ==
    ASSUME PluginsTypeOK
    PROVE  /\ owner \in Seq(Plugins) /\ Len(owner) <= MaxGens /\ Len(owner) \in Nat
           /\ DOMAIN owner = 1 .. Len(owner) /\ DOMAIN owner \subseteq Gens
           /\ reg \in Registries /\ reg.binds \in Seq(Entries) /\ Bound(reg) \subseteq Entries
           /\ job \in [Jobs -> JobStates] /\ dis \in [Dispatches -> DispatchStates]
<1>1. /\ owner \in Seq(Plugins) /\ Len(owner) <= MaxGens /\ reg \in Registries
      /\ job \in [Jobs -> JobStates] /\ dis \in [Dispatches -> DispatchStates]
  BY DEF PluginsTypeOK, JobStates, DispatchStates
<1>2. Len(owner) \in Nat /\ DOMAIN owner = 1 .. Len(owner)
  BY <1>1
<1>3. DOMAIN owner \subseteq Gens
  BY <1>1, <1>2, PluginsAssumption DEF Gens
<1>4. reg.binds \in Seq(Entries)
  BY <1>1 DEF Registries
<1>5. Bound(reg) \subseteq Entries
  BY <1>4 DEF Bound
<1> QED BY <1>1, <1>2, <1>3, <1>4, <1>5

(* A load is not affected by a later one.                                     *)
LEMMA SameCall ==
    ASSUME NEW e, e[1] \in DOMAIN owner,
           \A i \in DOMAIN owner : i \in DOMAIN owner' /\ owner'[i] = owner[i]
    PROVE  CallOf(owner', e) = Call(e)
BY DEF CallOf, Call

LEMMA TurnStarts ==
    ASSUME PluginsInv, NEW j, NEW g, NEW from, Turn(j, g, from)
    PROVE  Grows(reg, g, from, from, owner')
<1>1. \A e \in Bound(reg) : CallOf(owner', e) = Call(e)
  BY SameCall DEF PluginsInv, Loads, Made, Turn
<1>2. reg.timers = {e \in Bound(reg) : CallOf(owner', e).type = "time"}
  BY <1>1 DEF PluginsInv, NothingLeft
<1>3. reg.bus = AllKnown(reg.known)
  BY DEF PluginsInv, NothingLeft, AllKnown
<1> QED BY <1>2, <1>3, GrowsStart DEF Turn

LEMMA PieceIs ==
    ASSUME PluginsInv, NEW j, NEW g, NEW from, Turn(j, g, from), NEW wrap,
           RunInit(j, g, from, owner', wrap)
    PROVE  Piece(j, g, from)
<1> DEFINE p == owner'[g]
           stops == {a \in Awaits[p] : a > from}
           to == IF stops = {} THEN Len(Plan[p]) ELSE CHOOSE a \in stops : \A b \in stops : a <= b
           ran == Ran(g, from, owner', wrap)
<1>1. p \in Plugins /\ from \in 0 .. Len(Plan[p]) /\ Len(Plan[p]) \in Nat
  <2>1. p \in Plugins
    BY DEF Turn, Runs
  <2> QED BY <2>1, PluginsAssumption DEF Turn, Runs
<1>2. DOMAIN Plan[p] = 1 .. Len(Plan[p])
  BY <1>1, PluginsAssumption
<1>3. Awaits[p] \subseteq DOMAIN Plan[p]
  BY <1>1, PluginsAssumption
<1>4. /\ stops = {} => to = Len(Plan[p])
      /\ stops # {} => to \in from + 1 .. Len(Plan[p])
  <2>1. CASE stops # {}
    <3>1. stops \subseteq from + 1 .. Len(Plan[p]) /\ stops \subseteq Nat
      BY <1>1, <1>2, <1>3
    <3>2. to = CHOOSE a \in stops : \A b \in stops : a <= b
      BY <2>1
    <3> HIDE DEF stops, to
    <3>3. to \in stops
      BY <2>1, <3>1, <3>2, LowestOf
    <3> QED BY <2>1, <3>1, <3>3
  <2> QED BY <2>1
<1>5. \A n \in from .. Len(Plan[p]) : Grows(ran[n], g, from, n, owner')
  BY TurnStarts, RanGrows DEF Turn
<1>6. \/ /\ stops = {}
         /\ reg' = ran[to]
         /\ loaded' = [loaded EXCEPT ![p] = g]
         /\ job' = NextStep(j)
         /\ UNCHANGED failed
      \/ /\ stops # {}
         /\ reg' = ran[to]
         /\ job' = [job EXCEPT ![j] = [@ EXCEPT !.phase = "init", !.gen = g, !.done = to]]
         /\ UNCHANGED <<loaded, failed>>
      \/ /\ p \in Faulty
         /\ \E n \in from .. to : reg' = UnbindAll(ran[n], p, owner')
         /\ job' = NextStep(j)
         /\ failed' = failed \cup {p}
         /\ UNCHANGED loaded
  BY DEF RunInit
<1>7. to \in from .. Len(Plan[p])
  BY <1>1, <1>4
<1>8. \A n \in from .. to : n \in from .. Len(Plan[p])
  BY <1>1, <1>7
<1> HIDE DEF p, stops, to, ran
<1>9. CASE /\ stops = {}
           /\ reg' = ran[to]
           /\ loaded' = [loaded EXCEPT ![p] = g]
           /\ job' = NextStep(j)
           /\ UNCHANGED failed
  <2>1. Grows(reg', g, from, Len(Plan[p]), owner')
    BY <1>4, <1>5, <1>7, <1>9
  <2> QED BY <1>9, <2>1 DEF Piece, Ends, p
<1>10. CASE /\ stops # {}
            /\ reg' = ran[to]
            /\ job' = [job EXCEPT ![j] = [@ EXCEPT !.phase = "init", !.gen = g, !.done = to]]
            /\ UNCHANGED <<loaded, failed>>
  <2>1. Waits(j, g, from, to)
    BY <1>4, <1>5, <1>7, <1>10 DEF Waits, p
  <2> QED BY <2>1 DEF Piece
<1>11. CASE /\ p \in Faulty
            /\ \E n \in from .. to : reg' = UnbindAll(ran[n], p, owner')
            /\ job' = NextStep(j)
            /\ failed' = failed \cup {p}
            /\ UNCHANGED loaded
  <2>1. PICK n \in from .. to : reg' = UnbindAll(ran[n], p, owner')
    BY <1>11
  <2>2. Throws(j, g, from, n, ran[n])
    BY <1>5, <1>8, <1>11, <2>1 DEF Throws, p
  <2> QED BY <2>2 DEF Piece
<1> QED BY <1>6, <1>9, <1>10, <1>11

LEMMA StepOf ==
    ASSUME PluginsTypeOK, NEW j \in Jobs, job[j].phase # "idle"
    PROVE  /\ job[j] \in JobStates
           /\ job[j].todo \in Seq(Steps) /\ job[j].todo # <<>>
           /\ Head1(j) \in Steps /\ Head1(j).plugin \in Plugins
           /\ On(j, Head1(j).plugin)
<1>1. job[j] \in JobStates /\ job[j].todo # <<>>
  BY TypesOf DEF PluginsTypeOK
<1>2. job[j].todo \in Seq(Steps)
  BY <1>1 DEF JobStates
<1>3. Head1(j) \in Steps /\ 1 \in DOMAIN job[j].todo /\ Head1(j) = job[j].todo[1]
  BY <1>1, <1>2, TailIs DEF Head1
<1>4. Head1(j).plugin \in Plugins
  BY <1>3 DEF Steps
<1> QED BY <1>1, <1>2, <1>3, <1>4 DEF On

LEMMA LoadTurn ==
    ASSUME PluginsInv, NEW j \in Jobs, Load(j)
    PROVE  Turn(j, Len(owner) + 1, 0) /\ Piece(j, Len(owner) + 1, 0)
<1> DEFINE g == Len(owner) + 1
           p == Head1(j).plugin
           wrap == Head1(j).cfg /\ p \in Scoped
<1>1. PluginsTypeOK /\ Loads
  BY DEF PluginsInv, NothingLeft
<1>2. /\ job[j].phase = "import" /\ loaded[p] = 0 /\ Len(owner) < MaxGens
      /\ owner' = Append(owner, p)
      /\ scoped' = IF wrap THEN scoped \cup {g} ELSE scoped
      /\ RunInit(j, g, 0, owner', wrap)
      /\ UNCHANGED <<dis, owed, crossed>>
  BY DEF Load, Duplicate
<1>3. p \in Plugins
  BY <1>1, <1>2, StepOf
<1>4. owner \in Seq(Plugins) /\ Len(owner) \in Nat /\ DOMAIN owner = 1 .. Len(owner)
  BY <1>1, TypesOf
<1>5. g \in Nat /\ g > 0 /\ g <= MaxGens /\ g \in Gens /\ g \notin DOMAIN owner
  BY <1>2, <1>4, PluginsAssumption DEF Gens
<1> HIDE DEF p, wrap
<1>6. /\ owner' \in Seq(Plugins) /\ Len(owner') = g /\ g \in DOMAIN owner' /\ owner'[g] = p
      /\ \A i \in DOMAIN owner : i \in DOMAIN owner' /\ owner'[i] = owner[i]
  BY <1>2, <1>3, <1>4
<1> HIDE DEF g
<1>7. scoped' \subseteq Gens
  BY <1>1, <1>2, <1>5 DEF PluginsTypeOK
<1>8. Runs(g, 0, owner')
  <2>1. Len(Plan[p]) \in Nat
    BY <1>3, PluginsAssumption
  <2>2. 0 \in 0 .. Len(Plan[p])
    BY <2>1
  <2> QED BY <1>1, <1>5, <1>6, <2>2 DEF Runs, PluginsTypeOK
<1>9. /\ \A k \in Inits : job[k].gen # g
      /\ \A e : Made(e) => e[1] # g
  BY <1>1, <1>5 DEF Loads, Made
<1>10. Turn(j, g, 0)
  BY <1>2, <1>5, <1>6, <1>7, <1>8, <1>9 DEF Turn, p
<1>11. Piece(j, g, 0)
  BY <1>2, <1>10, PieceIs
<1> QED BY <1>10, <1>11 DEF g

LEMMA GoesOnTurn ==
    ASSUME PluginsInv, NEW j \in Jobs, InitGoesOn(j)
    PROVE  Turn(j, job[j].gen, job[j].done) /\ Piece(j, job[j].gen, job[j].done)
<1> DEFINE g == job[j].gen
           from == job[j].done
           wrap == g \in scoped
<1>1. PluginsTypeOK /\ Loads
  BY DEF PluginsInv, NothingLeft
<1>2. /\ job[j].phase = "init"
      /\ RunInit(j, g, from, owner, wrap)
      /\ UNCHANGED <<owner, scoped, dis, owed, crossed>>
  BY DEF InitGoesOn
<1>3. RunInit(j, g, from, owner', wrap)
  BY <1>2
<1>4. owner \in Seq(Plugins) /\ Len(owner) <= MaxGens /\ DOMAIN owner \subseteq Gens /\ reg \in Registries
  BY <1>1, TypesOf
<1>5. j \in Inits
  BY <1>2 DEF Inits
<1>6. /\ g \in DOMAIN owner /\ owner[g] = Head1(j).plugin
      /\ from <= Len(Plan[Head1(j).plugin])
      /\ \A k \in Inits : job[k].gen = g => k = j
      /\ \A e : Made(e) /\ e[1] = g => e[2] <= from
  BY <1>1, <1>5 DEF Loads, Made
<1>7. from \in Nat
  BY <1>1, TypesOf DEF JobStates
<1>8. Head1(j).plugin \in Plugins
  BY <1>1, <1>2, StepOf
<1>9. from \in 0 .. Len(Plan[Head1(j).plugin])
  <2>1. Len(Plan[Head1(j).plugin]) \in Nat
    BY <1>8, PluginsAssumption
  <2> QED BY <1>6, <1>7, <2>1
<1> HIDE DEF g, from, wrap
<1>10. Runs(g, from, owner')
  BY <1>2, <1>4, <1>6, <1>9 DEF Runs
<1>11. scoped' \subseteq Gens
  BY <1>1, <1>2 DEF PluginsTypeOK
<1>12. Turn(j, g, from)
  BY <1>2, <1>4, <1>6, <1>10, <1>11 DEF Turn, g, from
<1>13. Piece(j, g, from)
  BY <1>3, <1>12, PieceIs
<1> QED BY <1>12, <1>13 DEF g, from

-----------------------------------------------------------------------------
(* Types                                                                    *)

(* A job moves on: another one's turn is as it was.                           *)
Moves(j) ==
  /\ job' \in [Jobs -> JobStates]
  /\ \A k \in Jobs : k # j => job'[k] = job[k]
  /\ job'[j].phase = "idle" <=> job'[j].todo = <<>>

LEMMA NextStepMoves ==
    ASSUME PluginsTypeOK, NEW j \in Jobs, job[j].phase # "idle", job' = NextStep(j)
    PROVE  /\ Moves(j)
           /\ job'[j].phase \in {"idle", "ready"}
           /\ job'[j].todo = Tail(job[j].todo)
<1>1. job \in [Jobs -> JobStates]
  BY TypesOf
<1>2. Tail(job[j].todo) \in Seq(Steps)
  BY StepOf, TailIs
<1> DEFINE b == Begin(Tail(job[j].todo))
<1>3. /\ b \in JobStates /\ b.phase \in {"idle", "ready"} /\ b.todo = Tail(job[j].todo)
      /\ b.phase = "idle" <=> b.todo = <<>>
  BY <1>2, BeginIs
<1>4. job' = [job EXCEPT ![j] = b]
  BY DEF NextStep
<1> HIDE DEF b
<1> QED BY <1>1, <1>3, <1>4 DEF Moves

LEMMA WaitsMoves ==
    ASSUME PluginsInv, NEW j, NEW g, NEW from, NEW to, Turn(j, g, from), Waits(j, g, from, to)
    PROVE  /\ Moves(j)
           /\ job'[j].phase = "init" /\ job'[j].gen = g /\ job'[j].done = to
           /\ job'[j].todo = job[j].todo
<1>1. PluginsTypeOK
  BY DEF PluginsInv, NothingLeft
<1>2. j \in Jobs /\ job[j].phase # "idle"
  BY DEF Turn
<1>3. job \in [Jobs -> JobStates] /\ job[j].todo # <<>>
  BY <1>1, <1>2, TypesOf, StepOf
<1>4. g \in 0 .. MaxGens /\ to \in Nat
  <2>1. g \in Gens /\ from \in 0 .. Len(Plan[owner'[g]]) /\ owner'[g] \in Plugins
    BY DEF Turn, Runs
  <2>2. Len(Plan[owner'[g]]) \in Nat
    BY <2>1, PluginsAssumption
  <2>3. to \in from + 1 .. Len(Plan[owner'[g]])
    BY DEF Waits
  <2>4. to \in Nat
    BY <2>1, <2>2, <2>3
  <2> QED BY <2>1, <2>4, PluginsAssumption DEF Gens
<1> DEFINE b == [job[j] EXCEPT !.phase = "init", !.gen = g, !.done = to]
<1>5. /\ b \in JobStates /\ b.phase = "init" /\ b.gen = g /\ b.done = to /\ b.todo = job[j].todo
  BY <1>2, <1>3, <1>4 DEF JobStates
<1>6. job' = [job EXCEPT ![j] = b]
  BY DEF Waits
<1> HIDE DEF b
<1> QED BY <1>2, <1>3, <1>5, <1>6 DEF Moves

LEMMA MovesTyped ==
    ASSUME PluginsTypeOK, NEW j \in Jobs, Moves(j)
    PROVE  /\ job' \in [Jobs -> JobStates]
           /\ \A k \in Jobs : job'[k].phase = "idle" <=> job'[k].todo = <<>>
BY DEF Moves, PluginsTypeOK

(* What a piece of init() does to the registries, thrown or not.                *)
Left(g, from, k) ==
  /\ reg' \in Registries
  /\ SeenGrows(reg')
  /\ Bound(reg') \subseteq Bound(reg) \cup New(g, from, k)
  /\ \A e \in Bound(reg) : /\ e \notin Bound(reg') => \/ CallOf(owner', e).type \in NonStackable
                                                        \/ owner'[e[1]] = owner'[g]
  /\ reg'.timers = {e \in Bound(reg') : CallOf(owner', e).type = "time"}
  /\ NamesGrow(reg', g, from, k, owner')

LEMMA GrownLeft ==
    ASSUME NEW g, NEW from, NEW k, Grows(reg', g, from, k, owner')
    PROVE  Left(g, from, k)
BY DEF Grows, TableGrows, Left

LEMMA ThrownLeft ==
    ASSUME NEW g, NEW from, NEW n, NEW r, Grows(r, g, from, n, owner'),
           reg' = UnbindAll(r, owner'[g], owner')
    PROVE  /\ Left(g, from, n)
           /\ \A e \in Bound(reg') : owner'[e[1]] # owner'[g]
<1> DEFINE its == {e \in Bound(r) : owner'[e[1]] = owner'[g]}
<1>1. r \in Registries /\ SeenGrows(r) /\ TableGrows(r, g, from, n, owner') /\ NamesGrow(r, g, from, n, owner')
  BY DEF Grows
<1>2. /\ reg' \in Registries
      /\ Bound(reg') = Bound(r) \ its
      /\ reg'.timers = r.timers \ its
      /\ reg'.help = r.help /\ reg'.changes = r.changes /\ reg'.defs = r.defs
      /\ reg'.bus = r.bus /\ reg'.known = r.known
      /\ \A d \in Dispatches : dis[d].phase = "idle" => reg'.view[d] = r.view[d]
      /\ \A d \in Dispatches : dis[d].phase # "idle" => Seen(reg', d) = Seen(r, d)
  BY <1>1, UnbindAllIs
<1>3. SeenGrows(reg')
  BY <1>1, <1>2 DEF SeenGrows
<1>4. NamesGrow(reg', g, from, n, owner')
  BY <1>1, <1>2 DEF NamesGrow
<1>5. /\ Bound(reg') \subseteq Bound(reg) \cup New(g, from, n)
      /\ \A e \in Bound(reg) : /\ e \notin Bound(reg') => \/ CallOf(owner', e).type \in NonStackable
                                                            \/ owner'[e[1]] = owner'[g]
      /\ reg'.timers = {e \in Bound(reg') : CallOf(owner', e).type = "time"}
  BY <1>1, <1>2 DEF TableGrows
<1> QED BY <1>2, <1>3, <1>4, <1>5 DEF Left

LEMMA LeftTyped ==
    ASSUME PluginsInv, NEW j, NEW g, NEW from, NEW k, Turn(j, g, from), Left(g, from, k), Moves(j),
           loaded' \in [Plugins -> 0 .. MaxGens], failed' \subseteq Plugins
    PROVE  PluginsTypeOK'
<1>1. PluginsTypeOK
  BY DEF PluginsInv, NothingLeft
<1>2. /\ job' \in [Jobs -> JobStates]
      /\ \A i \in Jobs : job'[i].phase = "idle" <=> job'[i].todo = <<>>
  BY <1>1, MovesTyped DEF Turn
<1>3. ASSUME NEW d \in Dispatches, dis'[d].phase = "idle" PROVE dis'[d] = NoEvent /\ reg'.view[d] = Live
  <2>1. dis' = dis /\ reg'.view[d] = reg.view[d]
    BY <1>3 DEF Left, SeenGrows, Turn
  <2>2. dis[d] = NoEvent /\ reg.view[d] = Live
    BY <1>1, <1>3, <2>1 DEF PluginsTypeOK
  <2> QED BY <2>1, <2>2
<1>4. /\ reg' \in Registries /\ owner' \in Seq(Plugins) /\ Len(owner') <= MaxGens /\ scoped' \subseteq Gens
      /\ dis' = dis /\ owed' = owed /\ crossed' = crossed
  BY DEF Left, Turn
<1> QED BY <1>1, <1>2, <1>3, <1>4 DEF PluginsTypeOK, JobStates

-----------------------------------------------------------------------------
(* A piece of init() and what is left behind                                 *)

LEMMA NewIs ==
    ASSUME NEW g, NEW from, NEW k, NEW e \in New(g, from, k)
    PROVE  e[1] = g /\ e[2] \in from + 1 .. k /\ e = <<g, e[2]>>
BY DEF New

LEMMA SpanTypes ==
    ASSUME NEW j, NEW g, NEW from, Turn(j, g, from), NEW k \in from .. Len(Plan[owner'[g]])
    PROVE  from \in Nat /\ k \in Nat /\ from <= k /\ k <= Len(Plan[owner'[g]]) /\ owner'[g] \in Plugins
<1>1. owner'[g] \in Plugins /\ from \in 0 .. Len(Plan[owner'[g]])
  BY DEF Turn, Runs
<1>2. Len(Plan[owner'[g]]) \in Nat
  BY <1>1, PluginsAssumption
<1> QED BY <1>1, <1>2

LEMMA LeftNothing ==
    ASSUME PluginsInv, NEW j, NEW g, NEW from, NEW k, Turn(j, g, from), Left(g, from, k), Moves(j),
           PluginsTypeOK',
           \A p \in Plugins : p # owner'[g] => loaded'[p] = loaded[p],
           failed \subseteq failed',
           \/ loaded'[owner'[g]] # 0
           \/ job'[j].phase = "init" /\ job'[j].todo = job[j].todo
           \/ owner'[g] \in failed' /\ \A e \in Bound(reg') : owner'[e[1]] # owner'[g]
    PROVE  NothingLeft'
<1>1. reg'.timers = {e \in Bound(reg') : Call(e)'.type = "time"}
  BY DEF Left, Call
<1>2. reg'.bus = UNION {reg'.known[p] : p \in Plugins}
  BY DEF Left, NamesGrow, AllKnown
<1>3. j \in Jobs /\ Head1(j).plugin = owner'[g]
  BY DEF Turn
<1>4. \A p \in Plugins : p # owner'[g] /\ Working(p) => Working(p)'
  BY <1>3 DEF Working, Moves, Head1
<1>5. \A p \in Plugins : p = owner'[g] /\ job'[j].phase = "init" /\ job'[j].todo = job[j].todo => Working(p)'
  BY <1>3 DEF Working, Head1
<1>6. ASSUME NEW p \in Plugins, loaded'[p] = 0, ~Working(p)', p # owner'[g]
      PROVE  /\ \A e \in Bound(reg') : owner'[e[1]] # p
             /\ p \in failed' \/ /\ p \notin reg'.help \cup reg'.changes
                                 /\ reg'.known[p] = {}
                                 /\ \A x \in Keys : reg'.defs[x] # p
  <2>1. loaded[p] = 0 /\ ~Working(p)
    BY <1>4, <1>6
  <2>2. /\ \A e \in Bound(reg) : owner[e[1]] # p
        /\ p \in failed \/ /\ p \notin reg.help \cup reg.changes
                           /\ reg.known[p] = {}
                           /\ \A x \in Keys : reg.defs[x] # p
    BY <2>1 DEF PluginsInv, NothingLeft
  <2>3. ASSUME NEW e \in Bound(reg') PROVE owner'[e[1]] # p
    <3>1. CASE e \in Bound(reg)
      <4>1. e[1] \in DOMAIN owner
        BY <3>1 DEF PluginsInv, Loads, Made
      <4> QED BY <2>2, <3>1, <4>1 DEF Turn
    <3>2. CASE e \in New(g, from, k)
      BY <1>6, <3>2, NewIs
    <3> QED BY <3>1, <3>2 DEF Left
  <2> QED BY <1>6, <2>2, <2>3 DEF Left, NamesGrow
<1>7. ASSUME NEW p \in Plugins, loaded'[p] = 0, ~Working(p)', p = owner'[g]
      PROVE  /\ \A e \in Bound(reg') : owner'[e[1]] # p
             /\ p \in failed' \/ /\ p \notin reg'.help \cup reg'.changes
                                 /\ reg'.known[p] = {}
                                 /\ \A x \in Keys : reg'.defs[x] # p
  BY <1>5, <1>7
<1> QED BY <1>1, <1>2, <1>6, <1>7 DEF NothingLeft

LEMMA LeftMade ==
    ASSUME PluginsInv, NEW j, NEW g, NEW from, Turn(j, g, from),
           NEW k \in from .. Len(Plan[owner'[g]]), Left(g, from, k), Moves(j),
           job'[j].phase = "init" => job'[j].gen = g /\ job'[j].done = k
    PROVE  /\ \A e \in Entries : Made(e) => Made(e)'
           /\ \A e \in New(g, from, k) : Made(e)'
<1>1. from \in Nat /\ k \in Nat /\ from <= k
  BY SpanTypes
<1>2. \A i \in Inits' : i # j => i \in Inits /\ job'[i] = job[i]
  BY DEF Inits, Moves
<1>3. j \in Inits' => job'[j].gen = g /\ job'[j].done = k
  BY DEF Inits
<1>4. ASSUME NEW e \in Entries, Made(e) PROVE Made(e)'
  <2>1. e[1] \in DOMAIN owner'
    BY <1>4 DEF Made, Turn
  <2>2. ASSUME NEW i \in Inits', job'[i].gen = e[1] PROVE e[2] <= job'[i].done
    <3>1. CASE i # j
      BY <1>2, <1>4, <2>2, <3>1 DEF Made
    <3>2. CASE i = j
      <4>1. e[2] <= from
        BY <1>3, <1>4, <2>2, <3>2 DEF Turn
      <4>2. e[2] \in Nat
        BY DEF Entries
      <4> QED BY <1>1, <1>3, <3>2, <4>1, <4>2
    <3> QED BY <3>1, <3>2
  <2> QED BY <2>1, <2>2 DEF Made
<1>5. ASSUME NEW e \in New(g, from, k) PROVE Made(e)'
  <2>1. e[1] = g /\ e[2] \in from + 1 .. k
    BY NewIs
  <2>2. e[1] \in DOMAIN owner'
    BY <2>1 DEF Turn, Runs
  <2>3. ASSUME NEW i \in Inits', job'[i].gen = e[1] PROVE e[2] <= job'[i].done
    <3>1. i = j
      BY <1>2, <2>1, <2>3 DEF Turn
    <3> QED BY <1>1, <1>3, <2>1, <3>1
  <2> QED BY <2>2, <2>3 DEF Made
<1> QED BY <1>4, <1>5

LEMMA LeftLoads ==
    ASSUME PluginsInv, NEW j, NEW g, NEW from, Turn(j, g, from),
           NEW k \in from .. Len(Plan[owner'[g]]), Left(g, from, k), Moves(j),
           job'[j].phase = "init" => /\ job'[j].gen = g /\ job'[j].done = k
                                     /\ job'[j].todo = job[j].todo
    PROVE  Loads'
<1>1. /\ \A e \in Entries : Made(e) => Made(e)'
      /\ \A e \in New(g, from, k) : Made(e)'
  BY LeftMade
<1>2. PluginsTypeOK /\ Loads
  BY DEF PluginsInv, NothingLeft
<1>3. \A i \in Inits' : i # j => i \in Inits /\ job'[i] = job[i] /\ Head1(i)' = Head1(i)
  BY DEF Inits, Moves, Head1
<1>4. j \in Inits' => job'[j].gen = g /\ job'[j].done = k /\ Head1(j)' = Head1(j)
  BY DEF Inits, Head1
<1>5. ASSUME NEW i \in Inits'
      PROVE  /\ job'[i].gen \in DOMAIN owner'
             /\ owner'[job'[i].gen] = Head1(i)'.plugin
             /\ job'[i].done <= Len(Plan[Head1(i)'.plugin])
  <2>1. CASE i # j
    BY <1>2, <1>3, <2>1 DEF Loads, Turn
  <2>2. CASE i = j
    <3>1. k <= Len(Plan[owner'[g]])
      BY SpanTypes
    <3> QED BY <1>4, <2>2, <3>1 DEF Turn, Runs
  <2> QED BY <2>1, <2>2
<1>6. ASSUME NEW i \in Inits', NEW h \in Inits', job'[i].gen = job'[h].gen PROVE i = h
  <2>1. CASE i # j /\ h # j
    BY <1>2, <1>3, <1>6, <2>1 DEF Loads
  <2>2. CASE i = j \/ h = j
    BY <1>3, <1>4, <1>6, <2>2 DEF Turn
  <2> QED BY <2>1, <2>2
<1>7. \A e \in Bound(reg') : Made(e)'
  <2>1. Bound(reg) \subseteq Entries
    BY <1>2, TypesOf
  <2> QED BY <1>1, <1>2, <2>1 DEF Loads, Left
<1>8. ASSUME NEW p \in Plugins, NEW e \in reg'.known[p]
      PROVE  e[1] \in DOMAIN owner' /\ owner'[e[1]] = p
  <2>1. CASE e \in reg.known[p]
    BY <1>2, <2>1 DEF Loads, Turn
  <2>2. CASE e \in New(g, from, k) /\ p = owner'[g]
    BY <2>2, NewIs DEF Turn, Runs
  <2> QED BY <1>8, <2>1, <2>2 DEF Left, NamesGrow
<1> QED BY <1>5, <1>6, <1>7, <1>8 DEF Loads

-----------------------------------------------------------------------------
(* A piece of init() and the plugins that work                               *)

(* Nothing of an earlier load is in the way of an init.                        *)
LEMMA ReadyToLoad ==
    ASSUME PluginsInv, NEW j, NEW g, NEW from, Turn(j, g, from), NEW p, p = owner'[g], p \notin crossed
    PROVE  /\ p \in Plugins /\ loaded[p] = 0
           /\ Alone(p, g) /\ HasCalls(p, g, from)
           /\ \A i \in Inits : Head1(i).plugin = p => i = j
<1>1. /\ j \in Jobs /\ Head1(j).plugin = p /\ p \in Plugins /\ job[j].phase \in {"import", "init"}
      /\ PluginsTypeOK
  BY DEF Turn, Runs, PluginsInv, NothingLeft
<1>2. On(j, p)
  BY <1>1, StepOf
<1>3. ASSUME NEW i \in Inits, Head1(i).plugin = p PROVE i = j
  <2>1. i \in Jobs /\ job[i].phase # "idle"
    BY DEF Inits
  <2>2. On(i, p)
    BY <1>1, <1>3, <2>1, StepOf
  <2> QED BY <1>1, <1>2, <2>1, <2>2 DEF PluginsInv, Single
<1>4. CASE job[j].phase = "import"
  <2>1. loaded[p] = 0 /\ from = 0
    BY <1>4 DEF Turn
  <2>2. ~Working(p)
    BY <1>3, <1>4 DEF Working, Inits
  <2>3. \A e \in Bound(reg) : owner[e[1]] # p
    BY <1>1, <2>1, <2>2 DEF PluginsInv, NothingLeft
  <2>4. 1 .. from = {}
    BY <2>1
  <2> QED BY <1>1, <1>3, <2>1, <2>3, <2>4 DEF Alone, HasCalls
<1>5. CASE job[j].phase = "init"
  <2>1. j \in Inits /\ job[j].gen = g /\ job[j].done = from
    BY <1>1, <1>5 DEF Inits, Turn
  <2> QED BY <1>1, <1>3, <2>1 DEF PluginsInv, Loading
<1> QED BY <1>1, <1>4, <1>5

(* The others keep what they have that lasts, and get nothing.                 *)
LEMMA OthersKeep ==
    ASSUME PluginsInv, NEW j, NEW g, NEW from, NEW k, Turn(j, g, from), Left(g, from, k),
           NEW p, p # owner'[g]
    PROVE  /\ \A e \in Bound(reg') : owner'[e[1]] = p => e \in Bound(reg) /\ owner[e[1]] = p
           /\ \A h \in DOMAIN owner : \A n : owner[h] = p /\ Lasting(Plan[p][n]) /\ <<h, n>> \in Bound(reg)
                                               => <<h, n>> \in Bound(reg')
<1>1. ASSUME NEW e \in Bound(reg'), owner'[e[1]] = p PROVE e \in Bound(reg) /\ owner[e[1]] = p
  <2>1. e \in Bound(reg)
    BY <1>1, NewIs DEF Left
  <2>2. e[1] \in DOMAIN owner
    BY <2>1 DEF PluginsInv, Loads, Made
  <2> QED BY <1>1, <2>1, <2>2 DEF Turn
<1>2. ASSUME NEW h \in DOMAIN owner, NEW n, owner[h] = p, Lasting(Plan[p][n]), <<h, n>> \in Bound(reg)
      PROVE  <<h, n>> \in Bound(reg')
  <2>1. owner'[h] = p
    BY <1>2 DEF Turn
  <2>2. CallOf(owner', <<h, n>>).type \notin NonStackable
    BY <1>2, <2>1, CallOfIs DEF Lasting
  <2>3. <<h, n>>[1] = h
    OBVIOUS
  <2> QED BY <1>2, <2>1, <2>2, <2>3 DEF Left
<1> QED BY <1>1, <1>2

(* A generation that was alone, with its calls up to `from`, is it with those up to k. *)
LEMMA GenerationGrows ==
    ASSUME PluginsInv, NEW j, NEW g, NEW from, Turn(j, g, from), NEW k \in from .. Len(Plan[owner'[g]]),
           Grows(reg', g, from, k, owner'), NEW p, p = owner'[g], Alone(p, g), HasCalls(p, g, from)
    PROVE  /\ \A e \in Bound(reg') : owner'[e[1]] = p => e[1] = g
           /\ \A i \in 1 .. k : Lasting(Plan[p][i]) => <<g, i>> \in Bound(reg')
<1>1. from \in Nat /\ k \in Nat /\ from <= k
  BY SpanTypes
<1>2. TableGrows(reg', g, from, k, owner')
  BY DEF Grows
<1>3. ASSUME NEW e \in Bound(reg'), owner'[e[1]] = p PROVE e[1] = g
  <2>1. CASE e \in Bound(reg)
    <3>1. e[1] \in DOMAIN owner
      BY <2>1 DEF PluginsInv, Loads, Made
    <3> QED BY <1>3, <2>1, <3>1 DEF Turn, Alone
  <2>2. CASE e \in New(g, from, k)
    BY <2>2, NewIs
  <2> QED BY <1>2, <2>1, <2>2 DEF TableGrows
<1>4. ASSUME NEW i \in 1 .. k, Lasting(Plan[p][i]) PROVE <<g, i>> \in Bound(reg')
  <2>1. CASE i <= from
    <3>1. i \in 1 .. from
      BY <1>1, <2>1
    <3>2. <<g, i>> \in Bound(reg)
      BY <1>4, <3>1 DEF HasCalls
    <3>3. CallOf(owner', <<g, i>>).type \notin NonStackable
      BY <1>4, CallOfIs DEF Lasting
    <3> QED BY <1>2, <3>2, <3>3 DEF TableGrows
  <2>2. CASE i > from
    <3>1. i \in from + 1 .. k
      BY <1>1, <2>2
    <3>2. Stands(Plan[owner'[g]][i])
      BY <1>4 DEF Stands, Lasting
    <3> QED BY <1>2, <3>1, <3>2 DEF TableGrows
  <2> QED BY <1>1, <2>1, <2>2
<1> QED BY <1>3, <1>4

LEMMA LeftSingle ==
    ASSUME PluginsInv, NEW j \in Jobs, job[j].phase # "idle", Moves(j),
           job'[j].todo \in {job[j].todo, Tail(job[j].todo), <<>>}, crossed' = crossed
    PROVE  Single'
<1>1. PluginsTypeOK
  BY DEF PluginsInv, NothingLeft
<1>2. \A i \in Jobs, p \in Plugins : On(i, p)' => On(i, p)
  <2> SUFFICES ASSUME NEW i \in Jobs, NEW p \in Plugins, On(i, p)' PROVE On(i, p)
    OBVIOUS
  <2>1. CASE i # j
    BY <2>1 DEF Moves, On
  <2>2. CASE i = j
    <3>1. PICK x \in DOMAIN job'[j].todo : job'[j].todo[x].plugin = p
      BY <2>2 DEF On
    <3>2. job[j].todo \in Seq(Steps) /\ job[j].todo # <<>>
      BY <1>1, StepOf
    <3>3. \E y \in DOMAIN job[j].todo : job[j].todo[y] = job'[j].todo[x]
      <4>1. CASE job'[j].todo = job[j].todo
        BY <3>1, <4>1
      <4>2. CASE job'[j].todo = Tail(job[j].todo)
        <5>1. x + 1 \in DOMAIN job[j].todo /\ Tail(job[j].todo)[x] = job[j].todo[x + 1]
          BY <3>1, <3>2, <4>2, TailIs
        <5> QED BY <4>2, <5>1
      <4>3. job'[j].todo # <<>>
        BY <3>1
      <4> QED BY <4>1, <4>2, <4>3
    <3> QED BY <2>2, <3>1, <3>3 DEF On
  <2> QED BY <2>1, <2>2
<1> QED BY <1>2 DEF PluginsInv, Single

(* Whatever a piece of init() comes to, the other plugins work as they did.       *)
WorksOf(p) ==
  loaded[p] # 0 /\ p \notin crossed =>
    /\ Alone(p, loaded[p])
    /\ \A n \in DOMAIN Plan[p] : Lasting(Plan[p][n]) => <<loaded[p], n>> \in Bound(reg)
LoadingOf(i) ==
  Head1(i).plugin \notin crossed =>
    /\ loaded[Head1(i).plugin] = 0
    /\ Alone(Head1(i).plugin, job[i].gen)
    /\ HasCalls(Head1(i).plugin, job[i].gen, job[i].done)
RecordedOf(p) == loaded[p] # 0 => loaded[p] \in DOMAIN owner /\ owner[loaded[p]] = p

LEMMA WorksParts ==
    /\ LoadedWorks <=> \A p \in Plugins : WorksOf(p)
    /\ Loading <=> \A i \in Inits : LoadingOf(i)
    /\ Recorded <=> \A p \in Plugins : RecordedOf(p)
BY DEF LoadedWorks, WorksOf, Loading, LoadingOf, Recorded, RecordedOf, Alone

LEMMA WorksPartsNext ==
    /\ LoadedWorks' <=> \A p \in Plugins : WorksOf(p)'
    /\ Loading' <=> \A i \in Inits' : LoadingOf(i)'
    /\ Recorded' <=> \A p \in Plugins : RecordedOf(p)'
BY DEF LoadedWorks, WorksOf, Loading, LoadingOf, Recorded, RecordedOf, Alone

LEMMA OthersWork ==
    ASSUME PluginsInv, NEW j, NEW g, NEW from, NEW k, Turn(j, g, from), Left(g, from, k), Moves(j),
           \A p \in Plugins : p # owner'[g] => loaded'[p] = loaded[p]
    PROVE  /\ \A p \in Plugins : p # owner'[g] => WorksOf(p)' /\ RecordedOf(p)'
           /\ \A i \in Inits' : i # j /\ Head1(i)'.plugin # owner'[g] => LoadingOf(i)'
<1>1. /\ LoadedWorks /\ Loading /\ Recorded /\ Loads /\ PluginsTypeOK
      /\ crossed' = crossed
  BY DEF PluginsInv, NothingLeft, Turn
<1>2. ASSUME NEW p \in Plugins, p # owner'[g] PROVE RecordedOf(p)'
  BY <1>1, <1>2 DEF Recorded, RecordedOf, Turn
<1>3. ASSUME NEW p \in Plugins, p # owner'[g] PROVE WorksOf(p)'
  <2> SUFFICES ASSUME loaded'[p] # 0, p \notin crossed
               PROVE  /\ \A e \in Bound(reg') : owner'[e[1]] = p => e[1] = loaded'[p]
                      /\ \A n \in DOMAIN Plan[p] : Lasting(Plan[p][n]) => <<loaded'[p], n>> \in Bound(reg')
    BY <1>1 DEF WorksOf, Alone
  <2>1. loaded'[p] = loaded[p] /\ loaded[p] \in DOMAIN owner /\ owner[loaded[p]] = p
    BY <1>1, <1>3 DEF Recorded
  <2>2. /\ \A e \in Bound(reg) : owner[e[1]] = p => e[1] = loaded[p]
        /\ \A n \in DOMAIN Plan[p] : Lasting(Plan[p][n]) => <<loaded[p], n>> \in Bound(reg)
    BY <1>1, <2>1 DEF LoadedWorks
  <2>3. /\ \A e \in Bound(reg') : owner'[e[1]] = p => e \in Bound(reg) /\ owner[e[1]] = p
        /\ \A h \in DOMAIN owner : \A n : owner[h] = p /\ Lasting(Plan[p][n]) /\ <<h, n>> \in Bound(reg)
                                            => <<h, n>> \in Bound(reg')
    BY <1>3, OthersKeep
  <2> QED BY <2>1, <2>2, <2>3
<1>4. ASSUME NEW i \in Inits', i # j, Head1(i)'.plugin # owner'[g] PROVE LoadingOf(i)'
  <2> DEFINE p == Head1(i).plugin
  <2>1. i \in Inits /\ job'[i] = job[i] /\ Head1(i)' = Head1(i)
    BY <1>4 DEF Inits, Moves, Head1
  <2>2. p \in Plugins /\ p # owner'[g] /\ loaded'[p] = loaded[p]
    BY <1>1, <1>4, <2>1, StepOf DEF Inits
  <2>3. job[i].gen \in DOMAIN owner /\ owner[job[i].gen] = p
    BY <1>1, <2>1 DEF Loads
  <2> SUFFICES ASSUME p \notin crossed
               PROVE  /\ loaded'[p] = 0
                      /\ \A e \in Bound(reg') : owner'[e[1]] = p => e[1] = job[i].gen
                      /\ \A n \in 1 .. job[i].done : Lasting(Plan[p][n]) => <<job[i].gen, n>> \in Bound(reg')
    BY <1>1, <2>1 DEF LoadingOf, Alone, HasCalls
  <2>4. /\ loaded[p] = 0
        /\ \A e \in Bound(reg) : owner[e[1]] = p => e[1] = job[i].gen
        /\ \A n \in 1 .. job[i].done : Lasting(Plan[p][n]) => <<job[i].gen, n>> \in Bound(reg)
    BY <1>1, <2>1 DEF Loading, Alone, HasCalls
  <2>5. /\ \A e \in Bound(reg') : owner'[e[1]] = p => e \in Bound(reg) /\ owner[e[1]] = p
        /\ \A h \in DOMAIN owner : \A n : owner[h] = p /\ Lasting(Plan[p][n]) /\ <<h, n>> \in Bound(reg)
                                            => <<h, n>> \in Bound(reg')
    BY <2>2, OthersKeep
  <2> QED BY <2>2, <2>3, <2>4, <2>5
<1> QED BY <1>2, <1>3, <1>4

LEMMA LeftDebts ==
    ASSUME PluginsInv, NEW j, NEW g, NEW from, Turn(j, g, from),
           NEW k \in from .. Len(Plan[owner'[g]]), Left(g, from, k), Moves(j),
           job'[j].phase = "init" => job'[j].gen = g /\ job'[j].done = k
    PROVE  Delivered' /\ Debts'
<1>1. /\ Delivered /\ Debts /\ PluginsTypeOK
      /\ dis' = dis /\ owed' = owed
  BY DEF PluginsInv, NothingLeft, Turn
<1>2. Delivered'
  BY <1>1 DEF Delivered
<1>3. ASSUME NEW d \in Dispatches, NEW e \in owed[d] PROVE Owing(d, e)'
  <2>1. Owing(d, e) /\ e \in Entries /\ dis[d].phase # "idle"
    BY <1>1, <1>3 DEF Debts, Delivered, PluginsTypeOK
  <2>2. Made(e)' /\ Made(e)
    BY <2>1, LeftMade DEF Owing
  <2>3. Call(e)' = Call(e)
    BY <2>2 DEF Made, Turn, Call, CallOf
  <2>4. Takes(dis[d].event, e)'
    BY <1>1, <2>1, <2>3 DEF Owing, Takes
  <2>5. ASSUME e \in Bound(reg')
        PROVE  \/ dis[d].phase = "verify" /\ e = dis[d].entry
               \/ \E i \in DOMAIN Seen(reg', d) : i > dis[d].at /\ Seen(reg', d)[i] = e
    <3>1. e \notin New(g, from, k)
      <4> SUFFICES ASSUME e \in New(g, from, k) PROVE FALSE
        OBVIOUS
      <4>1. e[1] = g /\ e[2] \in from + 1 .. k
        BY NewIs
      <4>2. e[2] <= from
        BY <2>2, <4>1 DEF Turn
      <4>3. from \in Nat /\ k \in Nat
        BY SpanTypes
      <4> QED BY <4>1, <4>2, <4>3
    <3>2. e \in Bound(reg)
      BY <2>5, <3>1 DEF Left
    <3>3. CASE dis[d].phase = "verify" /\ e = dis[d].entry
      BY <3>3
    <3>4. CASE \E i \in DOMAIN Seen(reg, d) : i > dis[d].at /\ Seen(reg, d)[i] = e
      BY <2>1, <3>4 DEF Left, SeenGrows
    <3> QED BY <2>1, <3>2, <3>3, <3>4 DEF Owing
  <2> QED BY <1>1, <2>2, <2>4, <2>5 DEF Owing
<1> QED BY <1>1, <1>2, <1>3 DEF Debts

LEMMA EndsKeeps ==
    ASSUME PluginsInv, NEW j, NEW g, NEW from, Turn(j, g, from), Ends(j, g, from)
    PROVE  PluginsInv'
<1> DEFINE p == owner'[g]
           k == Len(Plan[p])
<1>1. /\ PluginsTypeOK /\ j \in Jobs /\ job[j].phase # "idle" /\ p \in Plugins /\ g \in Gens
      /\ crossed' = crossed
  BY DEF PluginsInv, NothingLeft, Turn, Runs
<1>2. /\ Moves(j) /\ job'[j].phase \in {"idle", "ready"} /\ job'[j].todo = Tail(job[j].todo)
  BY <1>1, NextStepMoves DEF Ends
<1>3. k \in from .. k
  <2>1. k \in Nat
    BY <1>1, PluginsAssumption
  <2>2. from \in 0 .. k
    BY DEF Turn, Runs
  <2> QED BY <2>1, <2>2
<1>4. Grows(reg', g, from, k, owner') /\ Left(g, from, k)
  BY GrownLeft DEF Ends
<1>5. loaded \in [Plugins -> 0 .. MaxGens] /\ loaded' = [loaded EXCEPT ![p] = g] /\ failed' = failed
  BY <1>1 DEF Ends, PluginsTypeOK
<1>6. g \in 0 .. MaxGens /\ g # 0
  BY <1>1, PluginsAssumption DEF Gens
<1> HIDE DEF p, k
<1>7. /\ loaded' \in [Plugins -> 0 .. MaxGens] /\ loaded'[p] = g
      /\ \A q \in Plugins : q # p => loaded'[q] = loaded[q]
  BY <1>1, <1>5, <1>6
<1>8. PluginsTypeOK'
  BY <1>1, <1>2, <1>4, <1>5, <1>7, LeftTyped DEF PluginsTypeOK
<1>9. NothingLeft'
  BY <1>2, <1>4, <1>5, <1>6, <1>7, <1>8, LeftNothing DEF p
<1>10. Loads' /\ Delivered' /\ Debts'
  <2>1. job'[j].phase = "init" => /\ job'[j].gen = g /\ job'[j].done = k
                                  /\ job'[j].todo = job[j].todo
    BY <1>2
  <2>k. k \in from .. Len(Plan[owner'[g]])
    BY <1>3 DEF p, k
  <2>2. Loads'
    BY <1>2, <1>4, <2>k, <2>1, LeftLoads
  <2>3. Delivered' /\ Debts'
    BY <1>2, <1>4, <2>k, <2>1, LeftDebts
  <2> QED BY <2>2, <2>3
<1>11. Single'
  BY <1>1, <1>2, LeftSingle
<1>12. /\ \A q \in Plugins : q # p => WorksOf(q)' /\ RecordedOf(q)'
       /\ \A i \in Inits' : i # j /\ Head1(i)'.plugin # p => LoadingOf(i)'
  BY <1>2, <1>4, <1>7, OthersWork DEF p
<1>13. ASSUME NEW q, q = p PROVE WorksOf(q)' /\ RecordedOf(q)'
  <2>1. RecordedOf(q)'
    BY <1>7, <1>13 DEF RecordedOf, Turn, Runs, p
  <2>2. ASSUME q \notin crossed PROVE WorksOf(q)'
    <3>1. Alone(q, g) /\ HasCalls(q, g, from)
      BY <1>13, <2>2, ReadyToLoad DEF p
    <3>2. /\ \A e \in Bound(reg') : owner'[e[1]] = q => e[1] = g
          /\ \A i \in 1 .. k : Lasting(Plan[q][i]) => <<g, i>> \in Bound(reg')
      <4>1. k \in from .. Len(Plan[owner'[g]]) /\ q = owner'[g]
        BY <1>3, <1>13 DEF p, k
      <4> QED BY <1>4, <3>1, <4>1, GenerationGrows
    <3>3. DOMAIN Plan[q] = 1 .. k
      BY <1>1, <1>13, PluginsAssumption DEF k
    <3> QED BY <1>7, <1>13, <3>2, <3>3 DEF WorksOf, Alone
  <2>3. CASE q \in crossed
    BY <1>1, <2>1, <2>3 DEF WorksOf
  <2> QED BY <2>1, <2>2, <2>3
<1>14. ASSUME NEW i \in Inits' PROVE LoadingOf(i)'
  <2>1. i # j /\ i \in Inits /\ Head1(i)' = Head1(i)
    BY <1>2, <1>14 DEF Inits, Moves, Head1
  <2>2. ASSUME Head1(i).plugin = p, p \notin crossed PROVE FALSE
    BY <2>1, <2>2, ReadyToLoad DEF p
  <2>3. CASE Head1(i).plugin = p
    BY <1>1, <2>1, <2>2, <2>3 DEF LoadingOf
  <2>4. CASE Head1(i).plugin # p
    BY <1>12, <1>14, <2>1, <2>4
  <2> QED BY <2>3, <2>4
<1>15. LoadedWorks' /\ Loading' /\ Recorded'
  BY <1>12, <1>13, <1>14, WorksPartsNext
<1> QED BY <1>9, <1>10, <1>11, <1>15 DEF PluginsInv

LEMMA WaitsKeeps ==
    ASSUME PluginsInv, NEW j, NEW g, NEW from, NEW to, Turn(j, g, from), Waits(j, g, from, to)
    PROVE  PluginsInv'
<1> DEFINE p == owner'[g]
<1>1. /\ PluginsTypeOK /\ j \in Jobs /\ job[j].phase # "idle" /\ p \in Plugins
      /\ Head1(j).plugin = p /\ crossed' = crossed
  BY DEF PluginsInv, NothingLeft, Turn, Runs
<1>2. /\ Moves(j)
      /\ job'[j].phase = "init" /\ job'[j].gen = g /\ job'[j].done = to
      /\ job'[j].todo = job[j].todo
  BY WaitsMoves
<1>3. to \in from .. Len(Plan[owner'[g]])
  <2>1. Len(Plan[p]) \in Nat
    BY <1>1, PluginsAssumption
  <2>2. from \in 0 .. Len(Plan[p]) /\ to \in from + 1 .. Len(Plan[p])
    BY DEF Turn, Runs, Waits
  <2> QED BY <2>1, <2>2
<1>4. Grows(reg', g, from, to, owner') /\ Left(g, from, to)
  BY GrownLeft DEF Waits
<1>5. loaded' = loaded /\ failed' = failed
  BY DEF Waits
<1>8. PluginsTypeOK'
  <2>1. loaded' \in [Plugins -> 0 .. MaxGens] /\ failed' \subseteq Plugins
    BY <1>1, <1>5 DEF PluginsTypeOK
  <2> QED BY <1>2, <1>4, <2>1, LeftTyped
<1>9. NothingLeft'
  BY <1>2, <1>4, <1>5, <1>8, LeftNothing
<1>10. Loads' /\ Delivered' /\ Debts'
  <2>2. Loads'
    BY <1>2, <1>3, <1>4, LeftLoads
  <2>3. Delivered' /\ Debts'
    BY <1>2, <1>3, <1>4, LeftDebts
  <2> QED BY <2>2, <2>3
<1>11. Single'
  BY <1>1, <1>2, LeftSingle
<1> HIDE DEF p
<1>12. /\ \A q \in Plugins : q # p => WorksOf(q)' /\ RecordedOf(q)'
       /\ \A i \in Inits' : i # j /\ Head1(i)'.plugin # p => LoadingOf(i)'
  BY <1>2, <1>4, <1>5, OthersWork DEF p
<1>13. ASSUME NEW q, q = p PROVE WorksOf(q)' /\ RecordedOf(q)'
  <2>1. RecordedOf(q)'
    BY <1>1, <1>5, <1>13 DEF PluginsInv, Recorded, RecordedOf, Turn
  <2>2. q \notin crossed => loaded[q] = 0
    BY <1>13, ReadyToLoad DEF p
  <2>3. WorksOf(q)'
    BY <1>1, <1>5, <2>2 DEF WorksOf
  <2> QED BY <2>1, <2>3
<1>14. ASSUME NEW i \in Inits' PROVE LoadingOf(i)'
  <2>1. CASE i = j
    <3>1. Head1(i)'.plugin = p /\ job'[i].gen = g /\ job'[i].done = to
      BY <1>1, <1>2, <2>1 DEF Head1
    <3>2. CASE p \in crossed
      BY <1>1, <3>1, <3>2 DEF LoadingOf
    <3>3. ASSUME p \notin crossed PROVE LoadingOf(i)'
      <4>1. loaded[p] = 0 /\ Alone(p, g) /\ HasCalls(p, g, from)
        BY <3>3, ReadyToLoad DEF p
      <4>2. p = owner'[g]
        BY DEF p
      <4>3. /\ \A e \in Bound(reg') : owner'[e[1]] = p => e[1] = g
            /\ \A x \in 1 .. to : Lasting(Plan[p][x]) => <<g, x>> \in Bound(reg')
        BY <1>3, <1>4, <4>1, <4>2, GenerationGrows
      <4> QED BY <1>5, <3>1, <4>1, <4>3 DEF LoadingOf, Alone, HasCalls
    <3> QED BY <3>2, <3>3
  <2>2. CASE i # j
    <3>1. i \in Inits /\ Head1(i)' = Head1(i)
      BY <1>2, <1>14, <2>2 DEF Inits, Moves, Head1
    <3>2. ASSUME Head1(i).plugin = p, p \notin crossed PROVE FALSE
      BY <2>2, <3>1, <3>2, ReadyToLoad DEF p
    <3>3. CASE Head1(i).plugin = p
      BY <1>1, <3>1, <3>2, <3>3 DEF LoadingOf
    <3>4. CASE Head1(i).plugin # p
      BY <1>12, <1>14, <2>2, <3>1, <3>4
    <3> QED BY <3>3, <3>4
  <2> QED BY <2>1, <2>2
<1>15. LoadedWorks' /\ Loading' /\ Recorded'
  BY <1>12, <1>13, <1>14, WorksPartsNext
<1> QED BY <1>9, <1>10, <1>11, <1>15 DEF PluginsInv

LEMMA ThrowsKeeps ==
    ASSUME PluginsInv, NEW j, NEW g, NEW from, NEW n, NEW r, Turn(j, g, from), Throws(j, g, from, n, r)
    PROVE  PluginsInv'
<1> DEFINE p == owner'[g]
<1>1. /\ PluginsTypeOK /\ j \in Jobs /\ job[j].phase # "idle" /\ p \in Plugins
      /\ crossed' = crossed
  BY DEF PluginsInv, NothingLeft, Turn, Runs
<1>2. /\ Moves(j) /\ job'[j].phase \in {"idle", "ready"} /\ job'[j].todo = Tail(job[j].todo)
  BY <1>1, NextStepMoves DEF Throws
<1>3. n \in from .. Len(Plan[owner'[g]])
  BY DEF Throws
<1>4. Left(g, from, n) /\ \A e \in Bound(reg') : owner'[e[1]] # owner'[g]
  BY ThrownLeft DEF Throws
<1>5. loaded' = loaded /\ failed' = failed \cup {p}
  BY DEF Throws
<1>8. PluginsTypeOK'
  <2>1. loaded' \in [Plugins -> 0 .. MaxGens] /\ failed' \subseteq Plugins
    BY <1>1, <1>5 DEF PluginsTypeOK
  <2> QED BY <1>2, <1>4, <2>1, LeftTyped
<1>9. NothingLeft'
  <2>1. owner'[g] \in failed' /\ failed \subseteq failed'
    BY <1>5
  <2> QED BY <1>2, <1>4, <1>5, <1>8, <2>1, LeftNothing
<1>10. Loads' /\ Delivered' /\ Debts'
  <2>1. job'[j].phase = "init" => /\ job'[j].gen = g /\ job'[j].done = n
                                  /\ job'[j].todo = job[j].todo
    BY <1>2
  <2>2. Loads'
    BY <1>2, <1>3, <1>4, <2>1, LeftLoads
  <2>3. Delivered' /\ Debts'
    BY <1>2, <1>3, <1>4, <2>1, LeftDebts
  <2> QED BY <2>2, <2>3
<1>11. Single'
  BY <1>1, <1>2, LeftSingle
<1> HIDE DEF p
<1>12. /\ \A q \in Plugins : q # p => WorksOf(q)' /\ RecordedOf(q)'
       /\ \A i \in Inits' : i # j /\ Head1(i)'.plugin # p => LoadingOf(i)'
  BY <1>2, <1>4, <1>5, OthersWork DEF p
<1>13. ASSUME NEW q, q = p PROVE WorksOf(q)' /\ RecordedOf(q)'
  <2>1. RecordedOf(q)'
    BY <1>1, <1>5, <1>13 DEF PluginsInv, Recorded, RecordedOf, Turn
  <2>2. q \notin crossed => loaded[q] = 0
    BY <1>13, ReadyToLoad DEF p
  <2>3. WorksOf(q)'
    BY <1>1, <1>5, <2>2 DEF WorksOf
  <2> QED BY <2>1, <2>3
<1>14. ASSUME NEW i \in Inits' PROVE LoadingOf(i)'
  <2>1. i # j /\ i \in Inits /\ Head1(i)' = Head1(i)
    BY <1>2, <1>14 DEF Inits, Moves, Head1
  <2>2. ASSUME Head1(i).plugin = p, p \notin crossed PROVE FALSE
    BY <2>1, <2>2, ReadyToLoad DEF p
  <2>3. CASE Head1(i).plugin = p
    BY <1>1, <2>1, <2>2, <2>3 DEF LoadingOf
  <2>4. CASE Head1(i).plugin # p
    BY <1>12, <1>14, <2>1, <2>4
  <2> QED BY <2>3, <2>4
<1>15. LoadedWorks' /\ Loading' /\ Recorded'
  BY <1>12, <1>13, <1>14, WorksPartsNext
<1> QED BY <1>9, <1>10, <1>11, <1>15 DEF PluginsInv

-----------------------------------------------------------------------------
(* The loader between one plugin and the next                                *)

LEMMA JobKeeps ==
    ASSUME PluginsInv, NEW j \in Jobs, Moves(j), job[j].phase # "init", job'[j].phase # "init",
           UNCHANGED <<owner, scoped, loaded, reg, dis, owed, failed>>,
           crossed \subseteq crossed', crossed' \subseteq Plugins, Single'
    PROVE  PluginsInv'
<1>1. PluginsTypeOK /\ NothingLeft
  BY DEF PluginsInv, NothingLeft
<1>2. PluginsTypeOK'
  <2>1. /\ job' \in [Jobs -> JobStates]
        /\ \A i \in Jobs : job'[i].phase = "idle" <=> job'[i].todo = <<>>
    BY <1>1, MovesTyped
  <2> QED BY <1>1, <2>1 DEF PluginsTypeOK, JobStates
<1>3. /\ Inits' = Inits
      /\ \A i \in Inits : job'[i] = job[i] /\ Head1(i)' = Head1(i)
  BY DEF Inits, Moves, Head1
<1>4. \A p \in Plugins : Working(p) => Working(p)'
  BY DEF Working, Moves, Head1
<1>5. NothingLeft'
  BY <1>1, <1>2, <1>4 DEF NothingLeft, Bound, Call, CallOf
<1>6. Bound(reg') = Bound(reg)
  OBVIOUS
<1>7. \A e : Made(e) => Made(e)'
  BY <1>3 DEF Made
<1>8. Loads'
  BY <1>3, <1>6, <1>7 DEF PluginsInv, Loads
<1>9. LoadedWorks' /\ Recorded'
  BY <1>6 DEF PluginsInv, LoadedWorks, Recorded
<1>10. Loading'
  BY <1>3, <1>6 DEF PluginsInv, Loading, Alone, HasCalls
<1>11. Delivered'
  BY DEF PluginsInv, Delivered
<1>12. Debts'
  BY <1>7 DEF PluginsInv, Debts, Owing, Takes, Call, CallOf, Seen, Bound
<1> QED BY <1>5, <1>8, <1>9, <1>10, <1>11, <1>12 DEF PluginsInv

(* Steps of a job that leave everything but the job as it is.                    *)
LEMMA StepKeeps ==
    ASSUME PluginsInv, NEW j \in Jobs, job[j].phase \in {"ready", "import"}, Moves(j),
           job'[j].phase # "init",
           job'[j].todo \in {job[j].todo, Tail(job[j].todo), <<>>},
           UNCHANGED <<owner, scoped, loaded, reg, dis, owed, failed, crossed>>
    PROVE  PluginsInv'
<1>1. Single'
  BY LeftSingle
<1>2. crossed' = crossed /\ crossed \subseteq Plugins
  BY DEF PluginsInv, NothingLeft, PluginsTypeOK
<1> QED BY <1>1, <1>2, JobKeeps

(* A phase is taken up, with the steps that are left.                           *)
LEMMA PhaseMoves ==
    ASSUME PluginsTypeOK, NEW j \in Jobs, job[j].phase # "idle",
           NEW ph \in {"import", "teardown"}, job' = [job EXCEPT ![j].phase = ph]
    PROVE  Moves(j) /\ job'[j].phase = ph /\ job'[j].todo = job[j].todo
<1>1. job \in [Jobs -> JobStates] /\ job[j].todo # <<>> /\ job[j] \in JobStates
  BY TypesOf, StepOf
<1> DEFINE b == [job[j] EXCEPT !.phase = ph]
<1>2. b \in JobStates /\ b.phase = ph /\ b.todo = job[j].todo
  BY <1>1 DEF JobStates
<1>3. job' = [job EXCEPT ![j] = b]
  OBVIOUS
<1> HIDE DEF b
<1> QED BY <1>1, <1>2, <1>3 DEF Moves

LEMMA IdleMoves ==
    ASSUME PluginsTypeOK, NEW j \in Jobs, NEW q \in Seq(Steps), job' = [job EXCEPT ![j] = Begin(q)]
    PROVE  Moves(j) /\ job'[j].phase \in {"idle", "ready"} /\ job'[j].todo = q
<1>1. job \in [Jobs -> JobStates]
  BY TypesOf
<1> DEFINE b == Begin(q)
<1>2. b \in JobStates /\ b.phase \in {"idle", "ready"} /\ b.todo = q /\ (b.phase = "idle" <=> q = <<>>)
  BY BeginIs
<1>3. job' = [job EXCEPT ![j] = b]
  OBVIOUS
<1> HIDE DEF b
<1> QED BY <1>1, <1>2, <1>3 DEF Moves

LEMMA OrderKeeps ==
    ASSUME PluginsInv, NEW j \in Jobs, NEW o \in Orders, Order(j, o)
    PROVE  PluginsInv'
<1> DEFINE its == {o[i].plugin : i \in DOMAIN o}
<1>1. PluginsTypeOK /\ Single /\ crossed \subseteq Plugins
  BY DEF PluginsInv, NothingLeft, PluginsTypeOK
<1>2. /\ job[j].phase = "idle"
      /\ job' = [job EXCEPT ![j] = Begin(o)]
      /\ crossed' = crossed \cup {p \in its : \E k \in Jobs : On(k, p)}
      /\ UNCHANGED <<owner, scoped, loaded, reg, dis, owed, failed>>
  BY DEF Order
<1>3. o \in Seq(Steps)
  BY PluginsAssumption
<1>4. Moves(j) /\ job'[j].phase \in {"idle", "ready"} /\ job'[j].todo = o
  BY <1>1, <1>2, <1>3, IdleMoves
<1>5. its \subseteq Plugins
  <2>1. \A i \in DOMAIN o : o[i] \in Steps
    BY <1>3
  <2> QED BY <2>1 DEF Steps
<1>6. \A p : On(j, p)' => p \in its
  BY <1>4 DEF On
<1>7. \A k \in Jobs : \A p : k # j /\ On(k, p)' => On(k, p)
  BY <1>4 DEF On, Moves
<1> HIDE DEF its
<1>8. ASSUME NEW p \in Plugins \ crossed', NEW k \in Jobs, NEW h \in Jobs, On(k, p)', On(h, p)'
      PROVE  k = h
  <2>1. p \notin crossed /\ (p \in its => \A i \in Jobs : ~On(i, p))
    BY <1>2, <1>8
  <2>2. CASE k = j \/ h = j
    BY <1>6, <1>7, <1>8, <2>1, <2>2
  <2>3. CASE k # j /\ h # j
    BY <1>1, <1>7, <1>8, <2>1, <2>3 DEF Single
  <2> QED BY <2>2, <2>3
<1>9. Single'
  BY <1>8 DEF Single
<1>10. crossed \subseteq crossed' /\ crossed' \subseteq Plugins
  BY <1>1, <1>2, <1>5
<1> QED BY <1>2, <1>4, <1>9, <1>10, JobKeeps

LEMMA LoaderSteps ==
    ASSUME PluginsInv, NEW j \in Jobs,
           StartLoad(j) \/ ImportFails(j) \/ AlreadyLoaded(j)
    PROVE  PluginsInv'
<1>1. PluginsTypeOK
  BY DEF PluginsInv, NothingLeft
<1>2. CASE StartLoad(j)
  <2>1. /\ job[j].phase = "ready" /\ job' = [job EXCEPT ![j].phase = "import"]
        /\ UNCHANGED <<owner, scoped, loaded, reg, dis, owed, failed, crossed>>
    BY <1>2 DEF StartLoad
  <2>2. Moves(j) /\ job'[j].phase = "import" /\ job'[j].todo = job[j].todo
    BY <1>1, <2>1, PhaseMoves
  <2> QED BY <2>1, <2>2, StepKeeps
<1>3. CASE ImportFails(j) \/ AlreadyLoaded(j)
  <2>1. /\ job[j].phase = "import" /\ job' = NextStep(j)
        /\ UNCHANGED <<owner, scoped, loaded, reg, dis, owed, failed, crossed>>
    BY <1>3 DEF ImportFails, AlreadyLoaded
  <2>2. Moves(j) /\ job'[j].phase \in {"idle", "ready"} /\ job'[j].todo = Tail(job[j].todo)
    BY <1>1, <2>1, NextStepMoves
  <2> QED BY <2>1, <2>2, StepKeeps
<1> QED BY <1>2, <1>3

LEMMA UnloadedKeeps ==
    ASSUME PluginsInv, NEW j \in Jobs, job[j].phase \in {"ready", "teardown"}, Unloaded(j)
    PROVE  PluginsInv'
<1> DEFINE p == Head1(j).plugin
           its == {e \in Bound(reg) : owner[e[1]] = p}
<1>1. PluginsTypeOK /\ NothingLeft /\ reg \in Registries
  BY TypesOf DEF PluginsInv, NothingLeft
<1>2. /\ reg' = Forgotten(reg, p)
      /\ loaded' = [loaded EXCEPT ![p] = 0]
      /\ failed' = failed \ {p}
      /\ job' = NextStep(j)
      /\ UNCHANGED <<owner, scoped, dis, owed, crossed>>
  BY DEF Unloaded
<1>3. p \in Plugins /\ On(j, p)
  BY <1>1, StepOf
<1>4. Moves(j) /\ job'[j].phase \in {"idle", "ready"} /\ job'[j].todo = Tail(job[j].todo)
  BY <1>1, <1>2, NextStepMoves
<1>5. /\ reg' \in Registries
      /\ Bound(reg') = Bound(reg) \ its
      /\ reg'.timers = reg.timers \ its
      /\ reg'.help = reg.help \ {p} /\ reg'.changes = reg.changes \ {p}
      /\ reg'.defs = [k \in Keys |-> IF reg.defs[k] = p THEN "none" ELSE reg.defs[k]]
      /\ reg'.bus = reg.bus \ reg.known[p]
      /\ reg'.known = [reg.known EXCEPT ![p] = {}]
      /\ \A d \in Dispatches : dis[d].phase = "idle" => reg'.view[d] = reg.view[d]
      /\ \A d \in Dispatches : dis[d].phase # "idle" => Seen(reg', d) = Seen(reg, d)
  BY <1>1, <1>2, <1>3, ForgottenIs
<1>6. loaded \in [Plugins -> 0 .. MaxGens] /\ reg.known \in [Plugins -> SUBSET Entries]
  BY <1>1 DEF PluginsTypeOK, Registries
<1>s. \A e \in its : e \in Bound(reg) /\ owner[e[1]] = p
  OBVIOUS
<1>i. \A e \in Bound(reg) : owner[e[1]] = p => e \in its
  OBVIOUS
<1> HIDE DEF p, its
<1>7. /\ loaded' \in [Plugins -> 0 .. MaxGens] /\ loaded'[p] = 0
      /\ \A q \in Plugins : q # p => loaded'[q] = loaded[q]
  <2>1. 0 \in 0 .. MaxGens
    BY PluginsAssumption
  <2> QED BY <1>2, <1>3, <1>6, <2>1
<1>8. /\ reg'.known[p] = {}
      /\ \A q \in Plugins : q # p => reg'.known[q] = reg.known[q]
  BY <1>3, <1>5, <1>6
<1>9. PluginsTypeOK'
  <2>1. /\ job' \in [Jobs -> JobStates]
        /\ \A i \in Jobs : job'[i].phase = "idle" <=> job'[i].todo = <<>>
    BY <1>1, <1>4, MovesTyped
  <2>2. \A d \in Dispatches : dis'[d].phase = "idle" => dis'[d] = NoEvent /\ reg'.view[d] = Live
    BY <1>1, <1>2, <1>5 DEF PluginsTypeOK
  <2> QED BY <1>1, <1>2, <1>5, <1>7, <2>1, <2>2 DEF PluginsTypeOK, JobStates
<1>10. /\ Inits' = Inits
       /\ \A i \in Inits : job'[i] = job[i] /\ Head1(i)' = Head1(i)
  BY <1>4 DEF Inits, Moves, Head1
<1>11. \A q \in Plugins : Working(q) => Working(q)'
  BY <1>4 DEF Working, Moves, Head1
<1>12. \A e : Call(e)' = Call(e) /\ (Made(e) => Made(e)')
  BY <1>2, <1>10 DEF Made, Call, CallOf
<1>13. NothingLeft'
  <2>1. reg'.timers = {e \in Bound(reg') : Call(e)'.type = "time"}
    BY <1>1, <1>5, <1>12 DEF NothingLeft
  <2>2. reg'.bus = AllKnown(reg'.known)
    <3>1. reg.bus = AllKnown(reg.known)
      BY <1>1 DEF NothingLeft, AllKnown
    <3>2. \A q \in Plugins : q # p => reg.known[q] \cap reg.known[p] = {}
      BY <1>3 DEF PluginsInv, Loads
    <3>3. \A e : e \in AllKnown(reg'.known) <=> e \in AllKnown(reg.known) \ reg.known[p]
      BY <1>3, <1>8, <3>2, InAllKnown
    <3> QED BY <1>5, <3>1, <3>3
  <2>3. ASSUME NEW q \in Plugins, loaded'[q] = 0, ~Working(q)'
        PROVE  /\ \A e \in Bound(reg') : owner'[e[1]] # q
               /\ q \in failed' \/ /\ q \notin reg'.help \cup reg'.changes
                                   /\ reg'.known[q] = {}
                                   /\ \A x \in Keys : reg'.defs[x] # q
    <3>1. CASE q = p
      <4>1. \A e \in Bound(reg') : owner'[e[1]] # q
        BY <1>2, <1>5, <1>i, <3>1
      <4>2. \A x \in Keys : reg'.defs[x] # q
        BY <1>3, <1>5, <3>1, PluginsAssumption
      <4>3. q \notin reg'.help \cup reg'.changes /\ reg'.known[q] = {}
        BY <1>5, <1>8, <3>1
      <4> QED BY <4>1, <4>2, <4>3
    <3>2. CASE q # p
      <4>1. loaded[q] = 0 /\ ~Working(q)
        BY <1>7, <1>11, <2>3, <3>2
      <4>2. /\ \A e \in Bound(reg) : owner[e[1]] # q
            /\ q \in failed \/ /\ q \notin reg.help \cup reg.changes
                               /\ reg.known[q] = {}
                               /\ \A x \in Keys : reg.defs[x] # q
        BY <1>1, <4>1 DEF NothingLeft
      <4>3. \A e \in Bound(reg') : owner'[e[1]] # q
        BY <1>2, <1>5, <4>2
      <4>4. \A x \in Keys : reg.defs[x] # q => reg'.defs[x] # q
        BY <1>5, PluginsAssumption
      <4> QED BY <1>2, <1>5, <1>8, <3>2, <4>2, <4>3, <4>4
    <3> QED BY <3>1, <3>2
  <2> QED BY <1>9, <2>1, <2>2, <2>3 DEF NothingLeft, AllKnown
<1>14. Loads'
  <2>1. \A e \in Bound(reg') : Made(e)'
    BY <1>5, <1>12 DEF PluginsInv, Loads
  <2>2. \A q \in Plugins : \A e \in reg'.known[q] : e[1] \in DOMAIN owner' /\ owner'[e[1]] = q
    BY <1>2, <1>8 DEF PluginsInv, Loads
  <2> QED BY <1>2, <1>10, <2>1, <2>2 DEF PluginsInv, Loads
<1>15. Single'
  BY <1>2, <1>4, LeftSingle
<1>16. \A q \in Plugins : RecordedOf(q)'
  BY <1>2, <1>7 DEF PluginsInv, Recorded, RecordedOf
<1>17. \A h \in DOMAIN owner : \A n : owner[h] # p /\ <<h, n>> \in Bound(reg) => <<h, n>> \in Bound(reg')
  BY <1>5, <1>s
<1>18. ASSUME NEW q \in Plugins PROVE WorksOf(q)'
  <2>1. CASE q = p
    BY <1>7, <2>1 DEF WorksOf
  <2> SUFFICES ASSUME loaded'[q] # 0, q \notin crossed, q # p
               PROVE  /\ \A e \in Bound(reg') : owner'[e[1]] = q => e[1] = loaded'[q]
                      /\ \A n \in DOMAIN Plan[q] : Lasting(Plan[q][n]) => <<loaded'[q], n>> \in Bound(reg')
    BY <1>2, <2>1 DEF WorksOf, Alone
  <2>2. loaded'[q] = loaded[q] /\ loaded[q] \in DOMAIN owner /\ owner[loaded[q]] = q
    BY <1>7 DEF PluginsInv, Recorded
  <2>3. /\ \A e \in Bound(reg) : owner[e[1]] = q => e[1] = loaded[q]
        /\ \A n \in DOMAIN Plan[q] : Lasting(Plan[q][n]) => <<loaded[q], n>> \in Bound(reg)
    BY <2>2 DEF PluginsInv, LoadedWorks
  <2> QED BY <1>2, <1>5, <1>17, <2>2, <2>3
<1>19. ASSUME NEW i \in Inits' PROVE LoadingOf(i)'
  <2> DEFINE q == Head1(i).plugin
  <2>1. i \in Inits /\ job'[i] = job[i] /\ Head1(i)' = Head1(i) /\ i \in Jobs /\ job[i].phase = "init"
    BY <1>10, <1>19 DEF Inits
  <2>2. q \in Plugins /\ On(i, q) /\ job[i].gen \in DOMAIN owner /\ owner[job[i].gen] = q
    BY <1>1, <2>1, StepOf DEF PluginsInv, Loads
  <2> SUFFICES ASSUME q \notin crossed
               PROVE  /\ loaded'[q] = 0
                      /\ \A e \in Bound(reg') : owner'[e[1]] = q => e[1] = job[i].gen
                      /\ \A n \in 1 .. job[i].done : Lasting(Plan[q][n]) => <<job[i].gen, n>> \in Bound(reg')
    BY <1>2, <2>1 DEF LoadingOf, Alone, HasCalls
  <2>3. q # p
    <3>1. i # j
      BY <2>1
    <3> QED BY <1>3, <2>1, <2>2, <3>1 DEF PluginsInv, Single
  <2>4. /\ loaded[q] = 0
        /\ \A e \in Bound(reg) : owner[e[1]] = q => e[1] = job[i].gen
        /\ \A n \in 1 .. job[i].done : Lasting(Plan[q][n]) => <<job[i].gen, n>> \in Bound(reg)
    BY <2>1 DEF PluginsInv, Loading, Alone, HasCalls
  <2> HIDE DEF q
  <2> QED BY <1>2, <1>5, <1>7, <1>17, <2>2, <2>3, <2>4
<1>20. LoadedWorks' /\ Loading' /\ Recorded'
  BY <1>16, <1>18, <1>19, WorksPartsNext
<1>21. Delivered'
  BY <1>2 DEF PluginsInv, Delivered
<1>22. ASSUME NEW d \in Dispatches, NEW e \in owed[d] PROVE Owing(d, e)'
  <2>1. Owing(d, e) /\ dis[d].phase # "idle"
    BY <1>22 DEF PluginsInv, Debts, Delivered
  <2>2. Made(e)' /\ Takes(dis[d].event, e)'
    BY <1>2, <1>12, <2>1 DEF Owing, Takes
  <2>3. Seen(reg', d) = Seen(reg, d)
    BY <1>5, <2>1
  <2> QED BY <1>2, <1>5, <2>1, <2>2, <2>3 DEF Owing
<1>23. Debts'
  BY <1>2, <1>22 DEF Debts
<1> QED BY <1>13, <1>14, <1>15, <1>20, <1>21, <1>23 DEF PluginsInv

LEMMA UnloadKeeps ==
    ASSUME PluginsInv, NEW j \in Jobs, StartUnload(j) \/ TeardownEnds(j)
    PROVE  PluginsInv'
<1>1. PluginsTypeOK
  BY DEF PluginsInv, NothingLeft
<1>2. CASE TeardownEnds(j)
  BY <1>2, UnloadedKeeps DEF TeardownEnds
<1>3. CASE StartUnload(j)
  <2>1. job[j].phase = "ready"
    BY <1>3 DEF StartUnload
  <2>2. CASE /\ job' = [job EXCEPT ![j] = Idle]
             /\ UNCHANGED <<owner, scoped, loaded, reg, dis, owed, failed, crossed>>
    <3>1. Begin(<<>>) = Idle /\ <<>> \in Seq(Steps)
      BY DEF Begin
    <3>2. job' = [job EXCEPT ![j] = Begin(<<>>)]
      BY <2>2, <3>1
    <3>3. Moves(j) /\ job'[j].phase \in {"idle", "ready"} /\ job'[j].todo = <<>>
      BY <1>1, <3>1, <3>2, IdleMoves
    <3> QED BY <2>1, <2>2, <3>3, StepKeeps
  <2>3. CASE /\ job' = [job EXCEPT ![j].phase = "teardown"]
             /\ UNCHANGED <<owner, scoped, loaded, reg, dis, owed, failed, crossed>>
    <3>1. Moves(j) /\ job'[j].phase = "teardown" /\ job'[j].todo = job[j].todo
      BY <1>1, <2>1, <2>3, PhaseMoves
    <3> QED BY <2>1, <2>3, <3>1, StepKeeps
  <2>4. CASE Unloaded(j)
    BY <2>1, <2>4, UnloadedKeeps
  <2> QED BY <1>3, <2>2, <2>3, <2>4 DEF StartUnload
<1> QED BY <1>2, <1>3

LEMMA PieceKeeps ==
    ASSUME PluginsInv, NEW j \in Jobs, Load(j) \/ InitGoesOn(j)
    PROVE  PluginsInv'
<1>1. PICK g, from : Turn(j, g, from) /\ Piece(j, g, from)
  BY LoadTurn, GoesOnTurn
<1>2. CASE Ends(j, g, from)
  BY <1>1, <1>2, EndsKeeps
<1>3. ASSUME NEW to, Waits(j, g, from, to) PROVE PluginsInv'
  BY <1>1, <1>3, WaitsKeeps
<1>4. ASSUME NEW n, NEW r, Throws(j, g, from, n, r) PROVE PluginsInv'
  BY <1>1, <1>4, ThrowsKeeps
<1> QED BY <1>1, <1>2, <1>3, <1>4 DEF Piece

-----------------------------------------------------------------------------
(* Dispatches                                                               *)

(* Steps that leave the loader alone, and the table but for a bind that takes itself *)
(* out, keep all but what events are owed.                                     *)
LEMMA TableKeeps ==
    ASSUME PluginsInv, NEW s \in Registries,
           UNCHANGED <<owner, scoped, loaded, job, failed, crossed>>,
           reg'.binds = s.binds, reg'.timers = s.timers, reg'.help = s.help, reg'.changes = s.changes,
           reg'.defs = s.defs, reg'.bus = s.bus, reg'.known = s.known,
           s.help = reg.help, s.changes = reg.changes, s.defs = reg.defs, s.bus = reg.bus,
           s.known = reg.known,
           \/ s = reg
           \/ \E e : /\ Call(e).handler \in Once
                     /\ Bound(s) = Bound(reg) \ {e}
                     /\ s.timers = reg.timers \ {e},
           PluginsTypeOK'
    PROVE  /\ NothingLeft' /\ Loads' /\ LoadedWorks' /\ Single' /\ Recorded' /\ Loading'
           /\ Bound(reg') \subseteq Bound(reg)
           /\ \A e : Call(e)' = Call(e) /\ (Made(e) => Made(e)')
<1>1. NothingLeft /\ Loads /\ LoadedWorks /\ Single /\ Recorded /\ Loading
  BY DEF PluginsInv
<1>2. Bound(reg') = Bound(s)
  BY DEF Bound
<1>3. /\ Bound(reg') \subseteq Bound(reg)
      /\ \A e \in Bound(reg) : Call(e).handler \notin Once => e \in Bound(reg')
      /\ reg'.timers = {e \in Bound(reg') : Call(e).type = "time"}
  <2>1. reg.timers = {e \in Bound(reg) : Call(e).type = "time"}
    BY <1>1 DEF NothingLeft
  <2>2. CASE s = reg
    BY <1>2, <2>1, <2>2
  <2>3. CASE \E e : /\ Call(e).handler \in Once
                    /\ Bound(s) = Bound(reg) \ {e}
                    /\ s.timers = reg.timers \ {e}
    BY <1>2, <2>1, <2>3
  <2> QED BY <2>2, <2>3
<1>4. /\ Inits' = Inits /\ \A i : Head1(i)' = Head1(i) /\ \A p : On(i, p)' = On(i, p)
      /\ \A p : Working(p)' = Working(p)
  BY DEF Inits, Head1, On, Working
<1>5. \A e : Call(e)' = Call(e) /\ (Made(e) => Made(e)')
  BY <1>4 DEF Call, CallOf, Made
<1>6. NothingLeft'
  BY <1>1, <1>3, <1>4, <1>5 DEF NothingLeft
<1>7. Loads'
  BY <1>1, <1>3, <1>4, <1>5 DEF Loads
<1>8. Single' /\ Recorded'
  BY <1>1, <1>4 DEF Single, Recorded
<1>9. \A h \in DOMAIN owner : \A p, n : owner[h] = p /\ Lasting(Plan[p][n]) /\ <<h, n>> \in Bound(reg)
                                          => <<h, n>> \in Bound(reg')
  <2> SUFFICES ASSUME NEW h \in DOMAIN owner, NEW p, NEW n, owner[h] = p, Lasting(Plan[p][n]),
                      <<h, n>> \in Bound(reg)
               PROVE  <<h, n>> \in Bound(reg')
    OBVIOUS
  <2>1. Call(<<h, n>>) = Plan[p][n]
    BY CallOfIs DEF Call
  <2> QED BY <1>3, <2>1 DEF Lasting
<1>10. LoadedWorks'
  <2> SUFFICES ASSUME NEW p \in Plugins, loaded[p] # 0, p \notin crossed
               PROVE  /\ \A e \in Bound(reg') : owner[e[1]] = p => e[1] = loaded[p]
                      /\ \A n \in DOMAIN Plan[p] : Lasting(Plan[p][n]) => <<loaded[p], n>> \in Bound(reg')
    BY DEF LoadedWorks
  <2>1. loaded[p] \in DOMAIN owner /\ owner[loaded[p]] = p
    BY <1>1 DEF Recorded
  <2> QED BY <1>1, <1>3, <1>9, <2>1 DEF LoadedWorks
<1>11. Loading'
  <2> SUFFICES ASSUME NEW i \in Inits, Head1(i).plugin \notin crossed
               PROVE  /\ loaded[Head1(i).plugin] = 0
                      /\ \A e \in Bound(reg') : owner[e[1]] = Head1(i).plugin => e[1] = job[i].gen
                      /\ \A n \in 1 .. job[i].done : Lasting(Plan[Head1(i).plugin][n])
                                                       => <<job[i].gen, n>> \in Bound(reg')
    BY <1>4 DEF Loading, Alone, HasCalls
  <2>1. job[i].gen \in DOMAIN owner /\ owner[job[i].gen] = Head1(i).plugin
    BY <1>1 DEF Loads
  <2> QED BY <1>1, <1>3, <1>9, <2>1 DEF Loading, Alone, HasCalls
<1> QED BY <1>3, <1>5, <1>6, <1>7, <1>8, <1>10, <1>11

(* Bind e is ahead of event d at index `at`; event d, in state t, can still come to  *)
(* bind e, if that is in table r at all.                                        *)
IsAhead(r, d, at, e) == Lies(Seen(r, d), at, e)
StillOwing(r, d, t, e) ==
  e \in Bound(r) => (t.phase = "verify" /\ e = t.entry) \/ IsAhead(r, d, t.at, e)

LEMMA SeenSeq ==
    ASSUME NEW r \in Registries, NEW d \in Dispatches
    PROVE  Seen(r, d) \in Seq(Entries)
<1>1. r.binds \in Seq(Entries) /\ r.view[d] \in Seq(Seq(Entries))
  BY DEF Registries
<1>2. ASSUME r.view[d] # <<>> PROVE r.view[d][1] \in Seq(Entries)
  <2>1. Len(r.view[d]) \in Nat \ {0}
    BY <1>1, <1>2, EmptySeq
  <2>2. 1 \in 1 .. Len(r.view[d])
    BY <2>1
  <2> QED BY <1>1, <2>2, ElementOfSeq
<1> QED BY <1>1, <1>2 DEF Seen, Live

LEMMA CutOwing ==
    ASSUME PluginsInv, NEW x, NEW d \in Dispatches, NEW e \in Cut(x)[d]
    PROVE  e \in owed[d] /\ StillOwing(HandlerActs(reg, x), d, dis[d], e)
<1> DEFINE s == HandlerActs(reg, x)
<1>1. PluginsTypeOK /\ reg \in Registries /\ reg.binds \in Seq(Entries)
      /\ owed \in [Dispatches -> SUBSET Entries]
  BY TypesOf DEF PluginsInv, NothingLeft, PluginsTypeOK
<1>2. /\ s \in Registries /\ s.view = reg.view
      /\ \/ s = reg
         \/ /\ s.binds = Without(reg.binds, {x})
            /\ Bound(s) = Bound(reg) \ {x}
  BY <1>1, HandlerActsIs
<1>3. CASE s.binds = reg.binds
  <2>1. e \in owed[d]
    BY <1>3 DEF Cut
  <2>2. StillOwing(reg, d, dis[d], e)
    BY <2>1 DEF PluginsInv, Debts, Owing, StillOwing, IsAhead, Lies
  <2> HIDE DEF s
  <2>3. Bound(s) = Bound(reg) /\ Seen(s, d) = Seen(reg, d)
    BY <1>2, <1>3 DEF Bound, Seen
  <2>4. StillOwing(s, d, dis[d], e)
    BY <2>2, <2>3 DEF StillOwing, IsAhead
  <2> QED BY <2>1, <2>4 DEF s
<1>4. CASE s.binds # reg.binds
  <2>1. /\ e \in owed[d]
        /\ ~ (reg.view[d] = Live /\ \E i \in DOMAIN reg.binds : i <= dis[d].at /\ reg.binds[i] = x)
    BY <1>4 DEF Cut
  <2> HIDE DEF s
  <2>2. s.binds = Without(reg.binds, {x}) /\ Bound(s) = Bound(reg) \ {x}
    BY <1>2, <1>4
  <2>3. e \in Bound(reg) => (dis[d].phase = "verify" /\ e = dis[d].entry) \/ IsAhead(reg, d, dis[d].at, e)
    BY <2>1 DEF PluginsInv, Debts, Owing, IsAhead, Lies
  <2>4. ASSUME e \in Bound(s), IsAhead(reg, d, dis[d].at, e) PROVE IsAhead(s, d, dis[d].at, e)
    <3>1. CASE reg.view[d] # Live
      <4>1. Seen(s, d) = Seen(reg, d)
        BY <1>2, <3>1 DEF Seen
      <4> QED BY <2>4, <4>1 DEF IsAhead
    <3>2. CASE reg.view[d] = Live
      <4>1. Seen(s, d) = Without(reg.binds, {x}) /\ Seen(reg, d) = reg.binds
        BY <1>2, <2>2, <3>2 DEF Seen
      <4> DEFINE b == reg.binds
                 at == dis[d].at
                 X == {x}
      <4>2. Clear(b, X, at)
        BY <2>1, <3>2 DEF Clear
      <4>3. Lies(b, at, e)
        BY <2>4, <4>1 DEF IsAhead
      <4>4. e \notin X
        BY <2>2, <2>4
      <4>5. at \in Nat /\ b \in Seq(Entries)
        BY <1>1, TypesOf DEF DispatchStates
      <4> HIDE DEF b, at, X
      <4>6. Lies(Without(b, X), at, e)
        BY <4>2, <4>3, <4>4, <4>5, WithoutBehind
      <4> QED BY <4>1, <4>6 DEF IsAhead, b, at, X
    <3> QED BY <3>1, <3>2
  <2>5. StillOwing(s, d, dis[d], e)
    BY <2>2, <2>3, <2>4 DEF StillOwing
  <2> QED BY <2>1, <2>5 DEF s
<1> QED BY <1>3, <1>4

LEMMA CutType ==
    ASSUME PluginsInv, NEW x
    PROVE  Cut(x) \in [Dispatches -> SUBSET Entries]
BY DEF PluginsInv, NothingLeft, PluginsTypeOK, Cut

(* The iteration goes on behind `at`: it ends owing nothing, or stops at the next   *)
(* bind, with the rest ahead.                                                 *)
LEMMA ContinueIs ==
    ASSUME NEW d \in Dispatches, NEW s \in Registries, NEW ev, NEW at \in Nat, NEW debt,
           dis \in [Dispatches -> DispatchStates], ev \in Events \cup {NoEvent.event},
           debt \in [Dispatches -> SUBSET Entries],
           \A e \in debt[d] : Takes(ev, e) /\ (e \in Bound(s) => IsAhead(s, d, at, e)),
           Continue(d, s, ev, at, debt)
    PROVE  /\ dis' \in [Dispatches -> DispatchStates]
           /\ owed' \in [Dispatches -> SUBSET Entries]
           /\ \A h \in Dispatches : h # d => dis'[h] = dis[h] /\ owed'[h] = debt[h]
           /\ reg' \in Registries
           /\ reg'.binds = s.binds /\ reg'.timers = s.timers /\ reg'.help = s.help
           /\ reg'.changes = s.changes /\ reg'.defs = s.defs /\ reg'.bus = s.bus /\ reg'.known = s.known
           /\ \A h \in Dispatches : h # d => reg'.view[h] = s.view[h]
           /\ \/ dis'[d] = NoEvent /\ reg'.view[d] = Live /\ owed'[d] = {}
              \/ /\ dis'[d].phase = "verify" /\ dis'[d].event = ev
                 /\ reg'.view[d] = s.view[d]
                 /\ owed'[d] = debt[d]
                 /\ \A e \in debt[d] : e \in Bound(s) =>
                      e = dis'[d].entry \/ IsAhead(s, d, dis'[d].at, e)
<1> DEFINE next == Ahead(s, d, ev, at)
<1>1. Seen(s, d) \in Seq(Entries)
  BY SeenSeq
<1>2. s.view \in [Dispatches -> Seq(Seq(Entries))]
  BY DEF Registries
<1>3. CASE next = {}
  <2>1. /\ dis' = [dis EXCEPT ![d] = NoEvent]
        /\ reg' = [s EXCEPT !.view[d] = Live]
        /\ owed' = [debt EXCEPT ![d] = @ \cap Bound(s)]
    BY <1>3 DEF Continue
  <2>2. NoEvent \in DispatchStates
    BY DEF NoEvent, DispatchStates
  <2>3. debt[d] \cap Bound(s) = {}
    BY <1>3 DEF Ahead, IsAhead, Lies
  <2>4. Live \in Seq(Seq(Entries))
    BY DEF Live
  <2> DEFINE v == [s.view EXCEPT ![d] = Live]
  <2>5. v \in [Dispatches -> Seq(Seq(Entries))] /\ v[d] = Live
        /\ \A h \in Dispatches : h # d => v[h] = s.view[h]
    BY <1>2, <2>4
  <2>6. reg' = [s EXCEPT !.view = v]
    BY <2>1
  <2> HIDE DEF v
  <2>7. /\ reg' \in Registries /\ reg'.view = v
        /\ reg'.binds = s.binds /\ reg'.timers = s.timers /\ reg'.help = s.help
        /\ reg'.changes = s.changes /\ reg'.defs = s.defs /\ reg'.bus = s.bus /\ reg'.known = s.known
    BY <2>5, <2>6 DEF Registries
  <2>8. /\ owed' \in [Dispatches -> SUBSET Entries] /\ owed'[d] = {}
        /\ \A h \in Dispatches : h # d => owed'[h] = debt[h]
    BY <2>1, <2>3
  <2>9. /\ dis' \in [Dispatches -> DispatchStates] /\ dis'[d] = NoEvent
        /\ \A h \in Dispatches : h # d => dis'[h] = dis[h]
    BY <2>1, <2>2
  <2> QED BY <2>5, <2>7, <2>8, <2>9
<1>4. CASE next # {}
  <2> DEFINE i == CHOOSE i \in next : \A k \in next : i <= k
             t == [phase |-> "verify", event |-> ev, at |-> i, entry |-> Seen(s, d)[i]]
  <2>1. /\ dis' = [dis EXCEPT ![d] = t]
        /\ reg' = s /\ owed' = debt
    BY <1>4 DEF Continue
  <2>2. next \subseteq Nat
    BY <1>1 DEF Ahead
  <2> HIDE DEF next
  <2>3. i \in next /\ \A k \in next : i <= k
    BY <1>4, <2>2, LowestOf
  <2> HIDE DEF i
  <2>4. i \in DOMAIN Seen(s, d) /\ i \in Nat
    BY <2>2, <2>3 DEF next, Ahead
  <2>5. Seen(s, d)[i] \in Entries
    BY <1>1, <2>4
  <2>6. t \in DispatchStates /\ t.phase = "verify" /\ t.event = ev /\ t.at = i /\ t.entry = Seen(s, d)[i]
    BY <2>4, <2>5 DEF DispatchStates
  <2> HIDE DEF t
  <2>7. dis' \in [Dispatches -> DispatchStates] /\ dis'[d] = t
        /\ \A h \in Dispatches : h # d => dis'[h] = dis[h]
    BY <2>1, <2>6
  <2>8. ASSUME NEW e \in debt[d], e \in Bound(s) PROVE e = t.entry \/ IsAhead(s, d, t.at, e)
    <3>1. Takes(ev, e) /\ IsAhead(s, d, at, e)
      BY <2>8
    <3>2. PICK k \in DOMAIN Seen(s, d) : k > at /\ Seen(s, d)[k] = e
      BY <3>1 DEF IsAhead, Lies
    <3>3. k \in next
      BY <3>1, <3>2 DEF next, Ahead
    <3>4. i <= k /\ k \in Nat
      BY <2>2, <2>3, <3>3
    <3>5. CASE k = i
      BY <2>6, <3>2, <3>5
    <3>6. CASE k # i
      <4>1. k > i
        BY <2>4, <3>4, <3>6
      <4> QED BY <2>6, <3>2, <4>1 DEF IsAhead, Lies
    <3> QED BY <3>5, <3>6
  <2> QED BY <2>1, <2>6, <2>7, <2>8
<1> QED BY <1>3, <1>4

(* Table s is the one in use, or that without a bind that took itself out.        *)
Acted(s) ==
  /\ s \in Registries
  /\ s.view = reg.view /\ s.help = reg.help /\ s.changes = reg.changes /\ s.defs = reg.defs
  /\ s.bus = reg.bus /\ s.known = reg.known
  /\ \/ s = reg
     \/ \E e : /\ Call(e).handler \in Once
               /\ Bound(s) = Bound(reg) \ {e}
               /\ s.timers = reg.timers \ {e}

(* What a step of a dispatch or of an interval keeps, when it leaves table s.      *)
LEMMA ActedKeeps ==
    ASSUME PluginsInv, NEW s, Acted(s),
           UNCHANGED <<owner, scoped, loaded, job, failed, crossed>>,
           reg'.binds = s.binds, reg'.timers = s.timers, reg'.help = s.help, reg'.changes = s.changes,
           reg'.defs = s.defs, reg'.bus = s.bus, reg'.known = s.known,
           PluginsTypeOK', Delivered',
           \A d \in Dispatches : \A e \in owed'[d] :
             /\ reg'.view[d] = s.view[d]
             /\ Made(e) /\ Takes(dis'[d].event, e) /\ StillOwing(s, d, dis'[d], e)
    PROVE  PluginsInv'
<1>1. s \in Registries
  BY DEF Acted
<1>2. /\ NothingLeft' /\ Loads' /\ LoadedWorks' /\ Single' /\ Recorded' /\ Loading'
      /\ \A e : Call(e)' = Call(e) /\ (Made(e) => Made(e)')
  BY <1>1, TableKeeps DEF Acted
<1>3. ASSUME NEW d \in Dispatches, NEW e \in owed'[d] PROVE Owing(d, e)'
  <2>1. /\ reg'.view[d] = s.view[d]
        /\ Made(e) /\ Takes(dis'[d].event, e) /\ StillOwing(s, d, dis'[d], e)
    BY <1>3
  <2>2. Bound(reg') = Bound(s) /\ Seen(reg', d) = Seen(s, d)
    BY <2>1 DEF Bound, Seen
  <2>3. Made(e)' /\ Takes(dis[d].event, e)'
    BY <1>2, <2>1 DEF Takes
  <2> QED BY <2>1, <2>2, <2>3 DEF Owing, StillOwing, IsAhead, Lies
<1>4. Debts'
  BY <1>3 DEF Debts
<1> QED BY <1>2, <1>4 DEF PluginsInv

(* The iteration of event d goes on behind `at`.                              *)
LEMMA GoesOnKeeps ==
    ASSUME PluginsInv, NEW d \in Dispatches, NEW s, Acted(s),
           NEW ev \in Events \cup {NoEvent.event}, NEW at \in Nat,
           NEW debt \in [Dispatches -> SUBSET Entries],
           UNCHANGED <<owner, scoped, loaded, job, failed, crossed>>,
           \A h \in Dispatches \ {d} : \A e \in debt[h] : e \in owed[h] /\ StillOwing(s, h, dis[h], e),
           \A e \in debt[d] : Made(e) /\ Takes(ev, e) /\ (e \in Bound(s) => IsAhead(s, d, at, e)),
           Continue(d, s, ev, at, debt)
    PROVE  PluginsInv'
<1>1. PluginsTypeOK /\ s \in Registries /\ s.view = reg.view /\ dis \in [Dispatches -> DispatchStates]
  BY TypesOf DEF PluginsInv, NothingLeft, Acted
<1>2. /\ dis' \in [Dispatches -> DispatchStates]
      /\ owed' \in [Dispatches -> SUBSET Entries]
      /\ \A h \in Dispatches : h # d => dis'[h] = dis[h] /\ owed'[h] = debt[h]
      /\ reg' \in Registries
      /\ reg'.binds = s.binds /\ reg'.timers = s.timers /\ reg'.help = s.help
      /\ reg'.changes = s.changes /\ reg'.defs = s.defs /\ reg'.bus = s.bus /\ reg'.known = s.known
      /\ \A h \in Dispatches : h # d => reg'.view[h] = s.view[h]
  BY <1>1, ContinueIs
<1>3. \/ dis'[d] = NoEvent /\ reg'.view[d] = Live /\ owed'[d] = {}
      \/ /\ dis'[d].phase = "verify" /\ dis'[d].event = ev
         /\ reg'.view[d] = s.view[d]
         /\ owed'[d] = debt[d]
         /\ \A e \in debt[d] : e \in Bound(s) =>
              e = dis'[d].entry \/ IsAhead(s, d, dis'[d].at, e)
  BY <1>1, ContinueIs
<1>4. ASSUME NEW h \in Dispatches, dis'[h].phase = "idle" PROVE dis'[h] = NoEvent /\ reg'.view[h] = Live
  <2>1. CASE h = d
    BY <1>3, <1>4, <2>1
  <2>2. CASE h # d
    <3>1. dis[h].phase = "idle" => dis[h] = NoEvent /\ reg.view[h] = Live
      BY <1>1 DEF PluginsTypeOK
    <3> QED BY <1>1, <1>2, <1>4, <2>2, <3>1
  <2> QED BY <2>1, <2>2
<1>5. PluginsTypeOK'
  BY <1>1, <1>2, <1>4 DEF PluginsTypeOK, DispatchStates
<1>6. Delivered'
  <2> SUFFICES ASSUME NEW h \in Dispatches, dis'[h].phase = "idle" PROVE owed'[h] = {}
    BY DEF Delivered
  <2>1. CASE h = d
    BY <1>3, <2>1
  <2>2. CASE h # d
    BY <1>2, <2>2 DEF PluginsInv, Delivered
  <2> QED BY <2>1, <2>2
<1>7. ASSUME NEW h \in Dispatches, NEW e \in owed'[h]
      PROVE  /\ reg'.view[h] = s.view[h]
             /\ Made(e) /\ Takes(dis'[h].event, e) /\ StillOwing(s, h, dis'[h], e)
  <2>1. CASE h = d
    BY <1>3, <1>7, <2>1 DEF StillOwing
  <2>2. CASE h # d
    <3>1. e \in owed[h] /\ StillOwing(s, h, dis[h], e) /\ dis'[h] = dis[h]
      BY <1>2, <1>7, <2>2
    <3>2. Owing(h, e)
      BY <3>1 DEF PluginsInv, Debts
    <3> QED BY <1>2, <2>2, <3>1, <3>2 DEF Owing
  <2> QED BY <2>1, <2>2
<1> QED BY <1>2, <1>5, <1>6, <1>7, ActedKeeps

LEMMA ActsActed ==
    ASSUME PluginsInv, NEW e
    PROVE  Acted(HandlerActs(reg, e))
<1>1. reg \in Registries
  BY DEF PluginsInv, NothingLeft, PluginsTypeOK
<1> QED BY <1>1, HandlerActsIs DEF Acted

LEMMA NotActed ==
    ASSUME PluginsInv
    PROVE  /\ Acted(reg)
           /\ \A d \in Dispatches : \A e \in owed[d] : StillOwing(reg, d, dis[d], e)
<1>1. reg \in Registries
  BY DEF PluginsInv, NothingLeft, PluginsTypeOK
<1> QED BY <1>1 DEF Acted, PluginsInv, Debts, Owing, StillOwing, IsAhead, Lies

LEMMA DispatchKeeps ==
    ASSUME PluginsInv, NEW d \in Dispatches, NEW ev \in Events, Dispatch(d, ev)
    PROVE  PluginsInv'
<1> DEFINE debt == [owed EXCEPT ![d] = {e \in Bound(reg) : Takes(ev, e)}]
<1>1. /\ PluginsTypeOK /\ owed \in [Dispatches -> SUBSET Entries] /\ Bound(reg) \subseteq Entries
      /\ reg.binds \in Seq(Entries)
  BY TypesOf DEF PluginsInv, NothingLeft, PluginsTypeOK
<1>2. /\ dis[d].phase = "idle"
      /\ Continue(d, reg, ev, 0, debt)
      /\ UNCHANGED <<owner, scoped, loaded, job, failed, crossed>>
  BY DEF Dispatch
<1>3. /\ debt \in [Dispatches -> SUBSET Entries]
      /\ debt[d] = {e \in Bound(reg) : Takes(ev, e)}
      /\ \A h \in Dispatches \ {d} : debt[h] = owed[h]
  BY <1>1
<1>4. Seen(reg, d) = reg.binds
  BY <1>1, <1>2 DEF PluginsTypeOK, Seen
<1> HIDE DEF debt
<1>5. ASSUME NEW e \in debt[d]
      PROVE  Made(e) /\ Takes(ev, e) /\ (e \in Bound(reg) => IsAhead(reg, d, 0, e))
  <2>1. e \in Bound(reg) /\ Takes(ev, e)
    BY <1>3, <1>5
  <2>2. PICK i \in DOMAIN reg.binds : reg.binds[i] = e
    BY <2>1 DEF Bound
  <2>3. i > 0
    BY <1>1, <2>2
  <2>4. Made(e)
    BY <2>1 DEF PluginsInv, Loads
  <2> QED BY <1>4, <2>1, <2>2, <2>3, <2>4 DEF IsAhead, Lies
<1>6. \A h \in Dispatches \ {d} : \A e \in debt[h] : e \in owed[h] /\ StillOwing(reg, h, dis[h], e)
  BY <1>3, NotActed
<1>7. Acted(reg) /\ 0 \in Nat /\ ev \in Events \cup {NoEvent.event}
  BY NotActed
<1> QED BY <1>2, <1>3, <1>5, <1>6, <1>7, GoesOnKeeps

LEMMA HandlerEndsKeeps ==
    ASSUME PluginsInv, NEW d \in Dispatches, HandlerEnds(d)
    PROVE  PluginsInv'
<1>1. /\ owed \in [Dispatches -> SUBSET Entries]
      /\ dis[d].event \in Events \cup {NoEvent.event} /\ dis[d].at \in Nat
  BY DEF PluginsInv, NothingLeft, PluginsTypeOK
<1>2. /\ dis[d].phase = "handler"
      /\ Continue(d, reg, dis[d].event, dis[d].at, owed)
      /\ UNCHANGED <<owner, scoped, loaded, job, failed, crossed>>
  BY DEF HandlerEnds
<1>3. PICK ev, at, s : ev = dis[d].event /\ at = dis[d].at /\ s = reg
  OBVIOUS
<1>4. Acted(s) /\ \A h \in Dispatches : \A e \in owed[h] : StillOwing(s, h, dis[h], e)
  BY <1>3, NotActed
<1>5. \A e \in owed[d] : Made(e) /\ Takes(ev, e) /\ (e \in Bound(s) => IsAhead(s, d, at, e))
  BY <1>2, <1>3, <1>4 DEF PluginsInv, Debts, Owing, StillOwing
<1>6. PICK debt : debt = owed
  OBVIOUS
<1>7. Continue(d, s, ev, at, debt)
  BY <1>2, <1>3, <1>6
<1> QED BY <1>1, <1>2, <1>3, <1>4, <1>5, <1>6, <1>7, GoesOnKeeps

(* The interval of a timer bind, whose handler may take it out.                  *)
LEMMA TimerKeeps ==
    ASSUME PluginsInv, NEW x, TimerFires(x)
    PROVE  PluginsInv'
<1>1. /\ PluginsTypeOK /\ reg' = HandlerActs(reg, x) /\ owed' = Cut(x)
      /\ UNCHANGED <<owner, scoped, loaded, job, dis, failed, crossed>>
  BY DEF PluginsInv, NothingLeft, TimerFires
<1>2. PICK s : s = HandlerActs(reg, x)
  OBVIOUS
<1>3. Acted(s) /\ reg' = s
  BY <1>1, <1>2, ActsActed
<1>4. PluginsTypeOK'
  <2>1. owed' \in [Dispatches -> SUBSET Entries]
    BY <1>1, CutType
  <2>2. reg' \in Registries /\ reg'.view = reg.view
    BY <1>3 DEF Acted
  <2> QED BY <1>1, <2>1, <2>2 DEF PluginsTypeOK
<1>5. \A d \in Dispatches : \A e \in owed'[d] : e \in owed[d] /\ StillOwing(s, d, dis[d], e)
  BY <1>1, <1>2, CutOwing
<1>6. Delivered'
  BY <1>1, <1>5 DEF PluginsInv, Delivered
<1>7. ASSUME NEW d \in Dispatches, NEW e \in owed'[d]
      PROVE  /\ reg'.view[d] = s.view[d]
             /\ Made(e) /\ Takes(dis'[d].event, e) /\ StillOwing(s, d, dis'[d], e)
  BY <1>1, <1>3, <1>5, <1>7 DEF PluginsInv, Debts, Owing
<1> QED BY <1>1, <1>3, <1>4, <1>6, <1>7, ActedKeeps

LEMMA VerifiedKeeps ==
    ASSUME PluginsInv, NEW d \in Dispatches, NEW ok \in BOOLEAN, Verified(d, ok)
    PROVE  PluginsInv'
<1>1. /\ PluginsTypeOK /\ owed \in [Dispatches -> SUBSET Entries]
      /\ dis \in [Dispatches -> DispatchStates]
      /\ dis[d].event \in Events \cup {NoEvent.event} /\ dis[d].at \in Nat
  BY TypesOf DEF PluginsInv, NothingLeft, PluginsTypeOK
<1>2. PICK x, s, cut, debt :
        /\ x = dis[d].entry
        /\ s = IF ok THEN HandlerActs(reg, x) ELSE reg
        /\ cut = IF ok THEN Cut(x) ELSE owed
        /\ debt = [cut EXCEPT ![d] = @ \ {x}]
  OBVIOUS
<1>3. /\ dis[d].phase = "verify"
      /\ \/ dis' = [dis EXCEPT ![d].phase = "handler"] /\ reg' = s /\ owed' = debt
         \/ Continue(d, s, dis[d].event, dis[d].at, debt)
      /\ UNCHANGED <<owner, scoped, loaded, job, failed, crossed>>
  BY <1>2 DEF Verified
<1>4. Acted(s)
  BY <1>2, ActsActed, NotActed
<1>5. cut \in [Dispatches -> SUBSET Entries]
  BY <1>1, <1>2, CutType
<1>6. \A h \in Dispatches : \A e \in cut[h] : e \in owed[h] /\ StillOwing(s, h, dis[h], e)
  BY <1>2, CutOwing, NotActed
<1>7. /\ debt \in [Dispatches -> SUBSET Entries]
      /\ debt[d] = cut[d] \ {x}
      /\ \A h \in Dispatches \ {d} : debt[h] = cut[h]
  BY <1>2, <1>5
<1>8. ASSUME NEW e \in debt[d]
      PROVE  Made(e) /\ Takes(dis[d].event, e) /\ (e \in Bound(s) => IsAhead(s, d, dis[d].at, e))
  <2>1. e \in owed[d] /\ StillOwing(s, d, dis[d], e) /\ e # dis[d].entry
    BY <1>2, <1>6, <1>7, <1>8
  <2> QED BY <2>1 DEF PluginsInv, Debts, Owing, StillOwing
<1>9. \A h \in Dispatches \ {d} : \A e \in debt[h] : e \in owed[h] /\ StillOwing(s, h, dis[h], e)
  BY <1>6, <1>7
<1>10. CASE Continue(d, s, dis[d].event, dis[d].at, debt)
  <2>1. PICK ev, at : ev = dis[d].event /\ at = dis[d].at
    OBVIOUS
  <2>2. Continue(d, s, ev, at, debt)
    BY <1>10, <2>1
  <2>3. \A e \in debt[d] : Made(e) /\ Takes(ev, e) /\ (e \in Bound(s) => IsAhead(s, d, at, e))
    BY <1>8, <2>1
  <2> QED BY <1>1, <1>3, <1>4, <1>7, <1>9, <2>1, <2>2, <2>3, GoesOnKeeps
<1>11. CASE dis' = [dis EXCEPT ![d].phase = "handler"] /\ reg' = s /\ owed' = debt
  <2>1. /\ dis' \in [Dispatches -> DispatchStates]
        /\ \A h \in Dispatches : h # d => dis'[h] = dis[h]
        /\ dis'[d].phase = "handler" /\ dis'[d].event = dis[d].event /\ dis'[d].at = dis[d].at
    BY <1>1, <1>11 DEF DispatchStates
  <2>2. reg' \in Registries /\ reg'.view = reg.view
    BY <1>4, <1>11 DEF Acted
  <2>3. \A h \in Dispatches : dis'[h].phase = "idle" => dis'[h] = NoEvent /\ reg'.view[h] = Live
    <3> SUFFICES ASSUME NEW h \in Dispatches, dis'[h].phase = "idle"
                 PROVE  dis'[h] = NoEvent /\ reg'.view[h] = Live
      OBVIOUS
    <3>1. dis'[h] = dis[h]
      BY <2>1
    <3> QED BY <1>1, <2>2, <3>1 DEF PluginsTypeOK
  <2>4. PluginsTypeOK'
    BY <1>1, <1>3, <1>7, <1>11, <2>1, <2>2, <2>3 DEF PluginsTypeOK, DispatchStates
  <2>5. Delivered'
    <3> SUFFICES ASSUME NEW h \in Dispatches, dis'[h].phase = "idle" PROVE owed'[h] = {}
      BY DEF Delivered
    <3>1. h # d /\ dis'[h] = dis[h]
      BY <2>1
    <3> QED BY <1>9, <1>11, <3>1 DEF PluginsInv, Delivered
  <2>6. ASSUME NEW h \in Dispatches, NEW e \in owed'[h]
        PROVE  /\ reg'.view[h] = s.view[h]
               /\ Made(e) /\ Takes(dis'[h].event, e) /\ StillOwing(s, h, dis'[h], e)
    <3>1. CASE h = d
      BY <1>8, <1>11, <2>1, <2>6, <3>1 DEF StillOwing
    <3>2. CASE h # d
      <4>1. e \in owed[h] /\ StillOwing(s, h, dis[h], e) /\ dis'[h] = dis[h]
        BY <1>9, <1>11, <2>1, <2>6, <3>2
      <4> QED BY <1>11, <4>1 DEF PluginsInv, Debts, Owing
    <3> QED BY <3>1, <3>2
  <2> QED BY <1>3, <1>4, <1>11, <2>4, <2>5, <2>6, ActedKeeps
<1> QED BY <1>3, <1>10, <1>11

-----------------------------------------------------------------------------
(* The theorems                                                             *)

(* It holds when the bot starts: nothing is loaded, and the plugins of the        *)
(* configuration are one job's.                                              *)
THEOREM PluginsInitial == PluginsInit => PluginsInv
<1> SUFFICES ASSUME PluginsInit PROVE PluginsInv
  OBVIOUS
<1>1. /\ owner = <<>> /\ scoped = {} /\ loaded = [p \in Plugins |-> 0] /\ reg = Nothing
      /\ job = [j \in Jobs |-> IF j = Boot THEN Begin(LoadAll) ELSE Idle]
      /\ dis = [d \in Dispatches |-> NoEvent] /\ owed = [d \in Dispatches |-> {}]
      /\ failed = {} /\ crossed = {}
  BY DEF PluginsInit
<1>2. LoadAll \in Seq(Steps)
  <2>1. Configured \in Seq(Plugins) /\ DOMAIN Configured = 1 .. Len(Configured) /\ Len(Configured) \in Nat
    BY PluginsAssumption
  <2>2. \A i \in 1 .. Len(Configured) : Step("load", Configured[i], TRUE) \in Steps
    BY <2>1 DEF Step, Steps
  <2>3. LoadAll \in [1 .. Len(Configured) -> Steps]
    BY <2>1, <2>2 DEF LoadAll
  <2> QED BY <2>1, <2>3, SeqDef
<1>3. /\ \A j \in Jobs : /\ job[j] \in JobStates /\ job[j].phase \in {"idle", "ready"}
                         /\ job[j].phase = "idle" <=> job[j].todo = <<>>
      /\ \A j \in Jobs : job[j].phase # "idle" => j = Boot
  <2>1. Begin(<<>>) = Idle /\ <<>> \in Seq(Steps)
    BY DEF Begin
  <2>2. \A j \in Jobs : job[j] = Begin(LoadAll) \/ job[j] = Begin(<<>>)
    BY <1>1, <2>1
  <2>3. \A j \in Jobs : j # Boot => job[j] = Begin(<<>>)
    BY <1>1, <2>1
  <2> QED BY <1>2, <2>1, <2>2, <2>3, BeginIs
<1>4. reg.binds = <<>> /\ Bound(reg) = {} /\ reg \in Registries
  BY <1>1 DEF Nothing, Bound, Registries, Live
<1>5. NoEvent \in DispatchStates
  BY DEF NoEvent, DispatchStates
<1>6. PluginsTypeOK
  <2>1. /\ job \in [Jobs -> JobStates]
        /\ \A j \in Jobs : job[j].phase = "idle" <=> job[j].todo = <<>>
    BY <1>1, <1>3
  <2>2. /\ dis \in [Dispatches -> DispatchStates]
        /\ \A d \in Dispatches : dis[d] = NoEvent /\ reg.view[d] = Live
    BY <1>1, <1>5 DEF Nothing
  <2>3. /\ owner \in Seq(Plugins) /\ Len(owner) <= MaxGens
        /\ loaded \in [Plugins -> 0 .. MaxGens] /\ owed \in [Dispatches -> SUBSET Entries]
    BY <1>1, PluginsAssumption
  <2> QED BY <1>1, <1>4, <2>1, <2>2, <2>3 DEF PluginsTypeOK, JobStates, DispatchStates
<1>7. NothingLeft
  <2>1. /\ reg.timers = {} /\ reg.bus = {} /\ reg.help = {} /\ reg.changes = {}
        /\ \A p \in Plugins : reg.known[p] = {}
        /\ \A k \in Keys : reg.defs[k] = "none"
    BY <1>1 DEF Nothing
  <2>2. reg.bus = UNION {reg.known[p] : p \in Plugins}
    BY <2>1
  <2>3. \A p \in Plugins : p # "none"
    BY PluginsAssumption
  <2> QED BY <1>4, <1>6, <2>1, <2>2, <2>3 DEF NothingLeft
<1>8. Inits = {}
  BY <1>3 DEF Inits
<1>9. Loads /\ Loading /\ LoadedWorks /\ Recorded
  BY <1>1, <1>4, <1>8 DEF Loads, Loading, LoadedWorks, Recorded, Nothing
<1>10. Single
  BY <1>3 DEF Single, On
<1>11. Delivered /\ Debts
  BY <1>1 DEF Delivered, Debts
<1> QED BY <1>7, <1>9, <1>10, <1>11 DEF PluginsInv

(* Every step of a job, of a dispatch and of an interval keeps it.               *)
THEOREM PluginsInductive == PluginsInv /\ [PluginsNext]_pluginVars => PluginsInv'
<1> SUFFICES ASSUME PluginsInv, [PluginsNext]_pluginVars PROVE PluginsInv'
  OBVIOUS
<1>1. CASE UNCHANGED pluginVars
  <2>1. /\ owner' = owner /\ scoped' = scoped /\ loaded' = loaded /\ reg' = reg /\ job' = job
        /\ dis' = dis /\ owed' = owed /\ failed' = failed /\ crossed' = crossed
    BY <1>1 DEF pluginVars
  <2>2. PICK s : s = reg
    OBVIOUS
  <2>3. Acted(s) /\ \A d \in Dispatches : \A e \in owed[d] : StillOwing(s, d, dis[d], e)
    BY <2>2, NotActed
  <2>4. PluginsTypeOK'
    BY <2>1 DEF PluginsInv, NothingLeft, PluginsTypeOK
  <2>5. Delivered'
    BY <2>1 DEF PluginsInv, Delivered
  <2>6. \A d \in Dispatches : \A e \in owed'[d] :
          /\ reg'.view[d] = s.view[d]
          /\ Made(e) /\ Takes(dis'[d].event, e) /\ StillOwing(s, d, dis'[d], e)
    BY <2>1, <2>2, <2>3 DEF PluginsInv, Debts, Owing
  <2> QED BY <2>1, <2>2, <2>3, <2>4, <2>5, <2>6, ActedKeeps
<1>2. ASSUME NEW j \in Jobs, NEW o \in Orders, Order(j, o) PROVE PluginsInv'
  BY <1>2, OrderKeeps
<1>3. ASSUME NEW j \in Jobs, StartLoad(j) \/ ImportFails(j) \/ AlreadyLoaded(j) PROVE PluginsInv'
  BY <1>3, LoaderSteps
<1>4. ASSUME NEW j \in Jobs, Load(j) \/ InitGoesOn(j) PROVE PluginsInv'
  BY <1>4, PieceKeeps
<1>5. ASSUME NEW j \in Jobs, StartUnload(j) \/ TeardownEnds(j) PROVE PluginsInv'
  BY <1>5, UnloadKeeps
<1>6. ASSUME NEW d \in Dispatches, NEW ev \in Events, Dispatch(d, ev) PROVE PluginsInv'
  BY <1>6, DispatchKeeps
<1>7. ASSUME NEW d \in Dispatches, NEW ok \in BOOLEAN, Verified(d, ok) PROVE PluginsInv'
  BY <1>7, VerifiedKeeps
<1>8. ASSUME NEW d \in Dispatches, HandlerEnds(d) PROVE PluginsInv'
  BY <1>8, HandlerEndsKeeps
<1>9. ASSUME NEW e \in reg.timers, TimerFires(e) PROVE PluginsInv'
  BY <1>9, TimerKeeps
<1> QED BY <1>1, <1>2, <1>3, <1>4, <1>5, <1>6, <1>7, <1>8, <1>9 DEF PluginsNext

(* Whatever is loaded, unloaded, dispatched and thrown, and however the awaits of it   *)
(* interleave, a plugin that is not there has left nothing.                    *)
THEOREM NothingLeftAlways == PluginsSpec => []NothingLeft
<1>1. PluginsInv => NothingLeft
  BY DEF PluginsInv
<1> QED BY PluginsInitial, PluginsInductive, <1>1, PTL DEF PluginsSpec

(* A loaded plugin that no two jobs worked on at once has the binds its init asked    *)
(* for, all of the generation that is loaded.                                *)
THEOREM LoadedWorksAlways == PluginsSpec => []LoadedWorks
<1>1. PluginsInv => LoadedWorks
  BY DEF PluginsInv
<1> QED BY PluginsInitial, PluginsInductive, <1>1, PTL DEF PluginsSpec

(* An event has reached every bind that was there when it came and is there when it   *)
(* has been dispatched, but for those behind a bind that a handler took out.     *)
THEOREM DeliveredAlways == PluginsSpec => []Delivered
<1>1. PluginsInv => Delivered
  BY DEF PluginsInv
<1> QED BY PluginsInitial, PluginsInductive, <1>1, PTL DEF PluginsSpec

-----------------------------------------------------------------------------
(* Lifecycle                                                                *)

USE LifecycleAssumption

(* What OneLife needs to be inductive.  GivenUp does not exit when a reconnection *)
(* is expected: it never is, since 'close' follows 'reconnecting' at once.  A bot  *)
(* that is not registered has nothing of a session; the timer that touches the    *)
(* health file ends with the connection even during the shutdown; and what the    *)
(* policy of the start says is what Connect finds.                                *)
IInv ==
  /\ OneLife
  /\ expecting = FALSE
  /\ ~Alive => conn = "off" /\ retryTimers = 0
  /\ conn = "up" => registered
  /\ beat => conn = "up"
  /\ proc = "booting" => policy = bound

-----------------------------------------------------------------------------
(* The process that is gone, or new, has nothing.                          *)
LEMMA FreshStart ==
    ASSUME Fresh, proc' \in {"booting", "exited"}, starts' \in 1 .. MaxStarts,
           tls' \in BOOLEAN, {policy', bound'} \subseteq {"none", "port", "noport"},
           proc' = "booting" => policy' = bound'
    PROVE  IInv'
<1>1. TypeOK'
  <2>1. retries' \in 0 .. MaxRetries /\ startupAttempt' \in 0 .. MaxStartup
        /\ retryTimers' \in Nat /\ beats' \in Nat
    BY DEF Fresh
  <2>2. /\ proc' \in {"booting", "starting", "running", "stopping", "exited"}
        /\ conn' \in {"off", "waiting", "dialing", "registering", "up"}
        /\ reason' \in Reasons /\ kept' \subseteq Leftover
        /\ tracked' \subseteq Channels /\ inside' \subseteq tracked' /\ asked' \subseteq Channels
    BY DEF Fresh, Reasons
  <2>3. {quitting', wire', registered', expecting', presence', invites', tls', beat'} \subseteq BOOLEAN
    BY DEF Fresh
  <2> QED BY <2>1, <2>2, <2>3 DEF TypeOK
<1>2. ~Alive' /\ OneAttempt'
  BY DEF Fresh, Alive, OneAttempt
<1>3. Healthy'
  BY DEF Fresh, Healthy
<1>4. NoLeftovers' /\ PolicyHonoured'
  BY <1>2 DEF Fresh, NoLeftovers, PolicyHonoured
<1> QED BY <1>1, <1>2, <1>3, <1>4 DEF IInv, OneLife, Fresh

(* A process that starts has nothing of an earlier one.                     *)
THEOREM Initial == Init => IInv
<1> SUFFICES ASSUME Init PROVE IInv
  OBVIOUS
<1>1. TypeOK
  <2>1. starts \in 1 .. MaxStarts /\ retries \in 0 .. MaxRetries /\ startupAttempt \in 0 .. MaxStartup
        /\ retryTimers \in Nat /\ beats \in Nat
    BY DEF Init
  <2>2. /\ proc \in {"booting", "starting", "running", "stopping", "exited"}
        /\ conn \in {"off", "waiting", "dialing", "registering", "up"}
        /\ reason \in Reasons /\ {policy, bound} \subseteq {"none", "port", "noport"}
        /\ kept \subseteq Leftover
        /\ tracked \subseteq Channels /\ inside \subseteq tracked /\ asked \subseteq Channels
    BY DEF Init, Reasons
  <2>3. {quitting, wire, registered, expecting, presence, invites, tls, beat} \subseteq BOOLEAN
    BY DEF Init
  <2> QED BY <2>1, <2>2, <2>3 DEF TypeOK
<1>2. ~Alive /\ OneAttempt
  BY DEF Init, Alive, OneAttempt
<1>3. Healthy
  BY DEF Init, Healthy
<1>4. NoLeftovers /\ PolicyHonoured
  BY <1>2 DEF Init, NoLeftovers, PolicyHonoured
<1> QED BY <1>1, <1>2, <1>3, <1>4 DEF IInv, OneLife, Init

LEMMA ExitKeeps == IInv /\ Exit => IInv'
<1> SUFFICES ASSUME IInv, Exit PROVE IInv'
  OBVIOUS
<1>1. starts' \in 1 .. MaxStarts /\ tls' \in BOOLEAN /\ {policy', bound'} \subseteq {"none", "port", "noport"}
  BY DEF IInv, OneLife, TypeOK, Exit, sts
<1>2. Fresh /\ proc' = "exited"
  BY DEF Exit
<1> QED BY <1>1, <1>2, FreshStart

-----------------------------------------------------------------------------
(* The timer of the health file                                            *)

LEMMA TimerStops ==
    ASSUME IInv, StopHeartbeat
    PROVE  beats' = 0 /\ beat' = FALSE
<1>1. CASE beat
  <2>1. beats = 1
    BY <1>1 DEF IInv, OneLife, Healthy
  <2> QED BY <1>1, <2>1 DEF StopHeartbeat
<1>2. CASE ~beat
  <2>1. beats = 0
    BY <1>2 DEF IInv, OneLife, Healthy
  <2> QED BY <1>2, <2>1 DEF StopHeartbeat
<1> QED BY <1>1, <1>2

LEMMA TimerStarts ==
    ASSUME IInv, StartHeartbeat, conn # "up"
    PROVE  beats' = 1 /\ beat' = TRUE
<1>1. ~beat
  BY DEF IInv
<1>2. beats = 0
  BY <1>1 DEF IInv, OneLife, Healthy
<1> QED BY <1>2 DEF StartHeartbeat

-----------------------------------------------------------------------------
(* A connection that is lost                                               *)

(* The library tries again: the handlers of 'reconnecting' and of 'close'.   *)
LEMMA TriesKeeps ==
    ASSUME IInv, Alive, conn # "off", Tries,
           conn' = "waiting", retries' = retries + 1, quitting' = FALSE,
           inside' = {}, asked' = {}, wire' = wire, tracked' = tracked, Reconnecting
    PROVE  IInv'
<1>1. TypeOK'
  <2>1. retries' \in 0 .. MaxRetries
    BY DEF IInv, OneLife, TypeOK, Tries
  <2>2. beats' \in Nat /\ beat' \in BOOLEAN
    BY TimerStops DEF Reconnecting
  <2> QED BY <2>1, <2>2 DEF IInv, OneLife, TypeOK, Reconnecting, Reasons, Leftover, process, sts
<1>2. OneAttempt' /\ Alive'
  <2>1. retryTimers = 0
    BY DEF IInv, OneLife, OneAttempt, TypeOK
  <2> QED BY <2>1 DEF Reconnecting, OneAttempt, Alive, process
<1>3. Healthy'
  BY TimerStops DEF Reconnecting, Healthy
<1>4. NoLeftovers' /\ PolicyHonoured'
  BY DEF IInv, OneLife, Reconnecting, NoLeftovers, PolicyHonoured, Alive, process, sts
<1>5. beat' = FALSE
  BY TimerStops DEF Reconnecting
<1> QED BY <1>1, <1>2, <1>3, <1>4, <1>5 DEF IInv, OneLife, Reconnecting, Alive, process

(* It does not: the bot retries, if it never registered, or ends.             *)
LEMMA GivenUpKeeps ==
    ASSUME IInv, Alive, conn # "off", GivenUp
    PROVE  IInv'
<1>1. CASE Fatal
  BY <1>1, ExitKeeps DEF GivenUp
<1>2. CASE ~Fatal
  <2>1. ~registered /\ conn # "up" /\ startupAttempt < MaxStartup
    BY <1>2 DEF Fatal, IInv, OneLife, TypeOK
  <2>2. /\ startupAttempt' = startupAttempt + 1 /\ reason' = "none"
        /\ retryTimers' = retryTimers + 1 /\ expecting' = expecting
        /\ StopHeartbeat
        /\ conn' = "off" /\ retries' = 0 /\ quitting' = FALSE /\ inside' = {} /\ asked' = {}
        /\ wire' = wire /\ tracked' = tracked /\ registered' = registered /\ presence' = presence
        /\ invites' = invites /\ process' = process /\ sts' = sts /\ kept' = kept
    BY <1>2, <2>1 DEF GivenUp
  <2>3. retryTimers' = 1
    BY <2>2 DEF IInv, OneLife, OneAttempt, TypeOK
  <2>4. beats' = 0 /\ beat' = FALSE
    BY <2>2, TimerStops
  <2>5. TypeOK'
    <3>1. startupAttempt' \in 0 .. MaxStartup
      BY <2>1, <2>2 DEF IInv, OneLife, TypeOK
    <3>2. {quitting', wire', registered', expecting', presence', invites', tls', beat'} \subseteq BOOLEAN
      BY <2>2, <2>4 DEF IInv, OneLife, TypeOK, sts
    <3>3. inside' \subseteq tracked' /\ asked' \subseteq Channels /\ tracked' \subseteq Channels
      BY <2>2 DEF IInv, OneLife, TypeOK
    <3> QED BY <3>1, <3>2, <3>3, <2>2, <2>3, <2>4 DEF IInv, OneLife, TypeOK, Reasons, process, sts
  <2>6. OneAttempt' /\ Alive'
    BY <2>2, <2>3 DEF OneAttempt, Alive, process
  <2>7. Healthy' /\ NoLeftovers'
    BY <2>1, <2>2, <2>4 DEF IInv, OneLife, Healthy, NoLeftovers
  <2>8. PolicyHonoured'
    BY <2>2 DEF IInv, OneLife, PolicyHonoured, Alive, process, sts
  <2> QED BY <2>1, <2>2, <2>4, <2>5, <2>6, <2>7, <2>8 DEF IInv, OneLife, Alive, process
<1> QED BY <1>1, <1>2

LEMMA LostKeeps ==
    ASSUME IInv, Alive, conn # "off", Lost
    PROVE  IInv'
<1>1. CASE Tries /\ conn' = "waiting" /\ retries' = retries + 1 /\ quitting' = FALSE
           /\ inside' = {} /\ asked' = {} /\ wire' = wire /\ tracked' = tracked /\ Reconnecting
  BY <1>1, TriesKeeps
<1>2. CASE GivenUp
  BY <1>2, GivenUpKeeps
<1> QED BY <1>1, <1>2 DEF Lost

-----------------------------------------------------------------------------
(* Registration, and the end                                               *)

LEMMA RegisteredKeeps == IInv /\ Registered => IInv'
<1> SUFFICES ASSUME IInv, Registered PROVE IInv'
  OBVIOUS
<1>1. conn = "registering" /\ conn' = "up" /\ beats' = 1 /\ beat' = TRUE
  BY TimerStarts DEF Registered
<1>2. {policy', bound'} \subseteq {"none", "port", "noport"}
  BY DEF Registered, IInv, OneLife, TypeOK, Ingested
<1>3. tls' \in BOOLEAN /\ quitting' \in BOOLEAN
  BY DEF Registered, IInv, OneLife, TypeOK, Directives, Upgrades
<1>4. TypeOK'
  <2>1. /\ proc' \in {"booting", "starting", "running", "stopping", "exited"}
        /\ starts' \in 1 .. MaxStarts /\ retries' \in 0 .. MaxRetries
        /\ startupAttempt' \in 0 .. MaxStartup /\ retryTimers' \in Nat
    BY DEF Registered, IInv, OneLife, TypeOK
  <2>2. {quitting', wire', registered', expecting', presence', invites', tls', beat'} \subseteq BOOLEAN
    BY <1>1, <1>3 DEF Registered, IInv, OneLife, TypeOK
  <2>3. /\ kept' \subseteq Leftover /\ reason' \in Reasons
        /\ tracked' \subseteq Channels /\ inside' \subseteq tracked' /\ asked' \subseteq Channels
    BY DEF Registered, IInv, OneLife, TypeOK, Reasons
  <2> QED BY <1>1, <1>2, <2>1, <2>2, <2>3 DEF TypeOK
<1>5. OneAttempt' /\ Alive /\ Alive'
  BY <1>1 DEF Registered, IInv, OneLife, TypeOK, OneAttempt, Alive
<1>6. Healthy' /\ NoLeftovers'
  BY <1>1 DEF Healthy, NoLeftovers
<1>7. PolicyHonoured'
  BY <1>5 DEF Registered, IInv, OneLife, PolicyHonoured
<1> QED BY <1>1, <1>4, <1>5, <1>6, <1>7 DEF Registered, IInv, OneLife, Alive

LEMMA ConnectKeeps == IInv /\ Connect => IInv'
<1> SUFFICES ASSUME IInv, Connect PROVE IInv'
  OBVIOUS
<1>1. CASE Refused
  BY <1>1, ExitKeeps DEF Connect
<1>2. CASE ~Refused
  <2>1. /\ proc' = "starting" /\ conn' = "dialing" /\ tls' = Upgraded /\ wire' = Upgraded
        /\ invites' = TRUE /\ retryTimers' = retryTimers /\ bound' = bound /\ policy' = policy
        /\ starts' = starts /\ retries' = retries /\ quitting' = quitting /\ health' = health
        /\ kept' = kept /\ rooms' = rooms /\ registered' = registered /\ expecting' = expecting
        /\ reason' = reason /\ startupAttempt' = startupAttempt /\ presence' = presence
    BY <1>2 DEF Connect
  <2>2. ~Alive /\ conn = "off" /\ retryTimers = 0 /\ policy = bound
    BY DEF Connect, IInv, Alive
  <2>3. Upgraded \in BOOLEAN
    BY DEF Upgraded, IInv, OneLife, TypeOK
  <2>4. TypeOK'
    BY <2>1, <2>3 DEF IInv, OneLife, TypeOK, health, rooms
  <2>5. OneAttempt' /\ Alive'
    BY <2>1, <2>2 DEF OneAttempt, Alive
  <2>6. Healthy'
    BY <2>1, <2>2 DEF IInv, OneLife, Healthy, health, Connect
  <2>7. NoLeftovers'
    BY <2>1, <2>2 DEF IInv, OneLife, NoLeftovers
  <2>8. PolicyHonoured'
    BY <1>2, <2>1, <2>2 DEF PolicyHonoured, Refused, Upgraded, IInv, OneLife, TypeOK
  <2> QED BY <2>1, <2>2, <2>4, <2>5, <2>6, <2>7, <2>8 DEF IInv, OneLife, health
<1> QED BY <1>1, <1>2

LEMMA SignalKeeps == IInv /\ Signal => IInv'
<1> SUFFICES ASSUME IInv, Signal PROVE IInv'
  OBVIOUS
<1>1. CASE conn # "up"
  BY <1>1, ExitKeeps DEF Signal
<1>2. CASE conn = "up"
  <2>1. /\ proc' = "stopping" /\ quitting' = TRUE /\ presence' = FALSE /\ invites' = FALSE
        /\ kept' = kept \ {"queue"} /\ StopHeartbeat
        /\ starts' = starts /\ conn' = conn /\ retries' = retries /\ wire' = wire
        /\ registered' = registered /\ expecting' = expecting /\ reason' = reason
        /\ startupAttempt' = startupAttempt /\ retryTimers' = retryTimers
        /\ sts' = sts /\ rooms' = rooms
    BY <1>2 DEF Signal
  <2>2. beats' = 0 /\ beat' = FALSE
    BY <2>1, TimerStops
  <2>3. TypeOK'
    BY <2>1, <2>2 DEF IInv, OneLife, TypeOK, sts, rooms
  <2>4. OneAttempt' /\ Alive /\ Alive'
    BY <2>1 DEF Signal, IInv, OneLife, OneAttempt, Alive
  <2>5. Healthy' /\ NoLeftovers'
    BY <1>2, <2>1, <2>2 DEF Healthy, NoLeftovers
  <2>6. PolicyHonoured'
    BY <2>1, <2>4 DEF IInv, OneLife, PolicyHonoured, sts
  <2> QED BY <1>2, <2>1, <2>2, <2>3, <2>4, <2>5, <2>6 DEF IInv, OneLife
<1> QED BY <1>1, <1>2

-----------------------------------------------------------------------------
(* One life: what the timers and handlers leave, the process over.          *)

(* Steps that touch neither the process nor what it holds of the connection but   *)
(* how far the attempt has come.                                            *)
LEMMA AttemptKeeps ==
    ASSUME IInv, Alive, conn \notin {"off", "up"}, conn' \in {"waiting", "dialing", "registering"},
           UNCHANGED <<process, retries, quitting, wire, handlers, sts, health, kept, rooms>>
    PROVE  IInv'
<1> USE DEF process, handlers, sts, health, rooms
<1>1. TypeOK'
  BY DEF IInv, OneLife, TypeOK
<1>2. OneAttempt' /\ Alive'
  BY DEF IInv, OneLife, OneAttempt, Alive
<1>3. beat' = FALSE /\ Healthy'
  BY DEF IInv, OneLife, Healthy
<1>4. NoLeftovers' /\ PolicyHonoured'
  BY DEF IInv, OneLife, NoLeftovers, PolicyHonoured, Alive
<1> QED BY <1>1, <1>2, <1>3, <1>4 DEF IInv, OneLife, Alive

LEMMA StartupRetryKeeps == IInv /\ StartupRetry => IInv'
<1> SUFFICES ASSUME IInv, StartupRetry PROVE IInv'
  OBVIOUS
<1> USE DEF StartupRetry, process, sts, health, rooms
<1>1. retryTimers = 1 /\ conn = "off" /\ retryTimers' = 0 /\ conn' = "dialing"
  BY DEF IInv, OneLife, OneAttempt, TypeOK
<1>2. TypeOK'
  BY <1>1 DEF IInv, OneLife, TypeOK
<1>3. OneAttempt' /\ Alive'
  BY <1>1 DEF OneAttempt, Alive
<1>4. Healthy' /\ beat' = FALSE
  BY <1>1 DEF IInv, OneLife, Healthy
<1>5. NoLeftovers' /\ PolicyHonoured'
  BY <1>1 DEF IInv, OneLife, NoLeftovers, PolicyHonoured, Alive
<1> QED BY <1>1, <1>2, <1>3, <1>4, <1>5 DEF IInv, OneLife

(* Steps on channels, of the message queue, and what the server says of its reasons. *)
LEMMA TalkKeeps ==
    ASSUME IInv, UNCHANGED <<process, library, registered, expecting, startupAttempt, retryTimers,
                             presence, invites, sts, health>>,
           reason' \in Reasons, kept' \subseteq Leftover, conn # "up" => kept' = kept,
           tracked' \subseteq Channels, inside' \subseteq tracked', asked' \subseteq Channels
    PROVE  IInv'
<1> USE DEF process, library, sts, health
<1>1. TypeOK'
  BY DEF IInv, OneLife, TypeOK
<1>2. OneAttempt' /\ Healthy' /\ Alive' = Alive
  BY DEF IInv, OneLife, OneAttempt, Healthy, Alive
<1>3. NoLeftovers' /\ PolicyHonoured'
  BY DEF IInv, OneLife, NoLeftovers, PolicyHonoured, Alive
<1> QED BY <1>1, <1>2, <1>3 DEF IInv, OneLife

(* Every step of the lifecycle keeps the invariant.                         *)
THEOREM Inductive == IInv /\ [Next]_vars => IInv'
<1> SUFFICES ASSUME IInv, [Next]_vars PROVE IInv'
  OBVIOUS
<1>r. reason \in Reasons /\ kept \subseteq Leftover /\ tracked \subseteq Channels
      /\ inside \subseteq tracked /\ asked \subseteq Channels
  BY DEF IInv, OneLife, TypeOK
<1>1. CASE Restart
  <2>1. starts' \in 1 .. MaxStarts /\ policy' \in {"none", "port", "noport"}
    BY <1>1 DEF Restart, Stored, IInv, OneLife, TypeOK
  <2> QED BY <1>1, <2>1, FreshStart DEF Restart
<1>2. CASE Connect
  BY <1>2, ConnectKeeps
<1>3. CASE DialDone
  BY <1>3, AttemptKeeps DEF DialDone
<1>4. CASE DialFails
  <2>1. CASE registered
    BY <1>4, <2>1, LostKeeps DEF DialFails
  <2>2. CASE ~registered
    BY <1>4, <2>2, ExitKeeps DEF DialFails
  <2> QED BY <2>1, <2>2
<1>5. CASE Registered
  BY <1>5, RegisteredKeeps
<1>6. CASE ConnectionLost
  BY <1>6, LostKeeps DEF ConnectionLost
<1>7. CASE ReconnectTimer
  BY <1>7, AttemptKeeps DEF ReconnectTimer
<1>8. CASE StartupRetry
  BY <1>8, StartupRetryKeeps
<1>9. CASE PresenceCheck
  <2>1. asked' \subseteq Channels
    BY <1>9, <1>r DEF PresenceCheck, Missing
  <2> QED BY <1>9, <1>r, <2>1, TalkKeeps DEF PresenceCheck, handlers
<1>10. CASE Signal
  BY <1>10, SignalKeeps
<1>11. CASE Stopped
  BY <1>11, ExitKeeps DEF Stopped
<1>12. ASSUME NEW why \in Reasons \ {"none"}, ServerError(why) PROVE IInv'
  BY <1>12, <1>r, TalkKeeps DEF ServerError, rooms
<1>13. ASSUME NEW c \in Channels, JoinAnswered(c) PROVE IInv'
  BY <1>13, <1>r, TalkKeeps DEF JoinAnswered, handlers
<1>14. ASSUME NEW c \in Channels, Kicked(c) PROVE IInv'
  BY <1>14, <1>r, TalkKeeps DEF Kicked, handlers
<1>15. ASSUME NEW c \in Channels, Invited(c) PROVE IInv'
  BY <1>15, <1>r, TalkKeeps DEF Invited, handlers
<1>16. ASSUME NEW k \in Leftover, Use(k) PROVE IInv'
  BY <1>16, <1>r, TalkKeeps DEF Use, handlers, rooms
<1>17. CASE UNCHANGED vars
  BY <1>17, <1>r, TalkKeeps DEF vars, handlers, rooms
<1> QED BY <1>1, <1>2, <1>3, <1>4, <1>5, <1>6, <1>7, <1>8, <1>9, <1>10, <1>11, <1>12, <1>13,
           <1>14, <1>15, <1>16, <1>17 DEF Next

(* Retries, reconnections, restarts and the shutdown leave one attempt to connect,    *)
(* one health timer, nothing of an earlier session, and no plaintext under a policy.  *)
THEOREM OneLifeAlways == Spec => []OneLife
<1>1. Init => IInv
  BY Initial
<1>2. IInv /\ [Next]_vars => IInv'
  BY Inductive
<1>3. IInv => OneLife
  BY DEF IInv
<1> QED BY <1>1, <1>2, <1>3, PTL DEF Spec
=============================================================================
