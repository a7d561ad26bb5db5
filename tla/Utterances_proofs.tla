----------------------------- MODULE Utterances_proofs -----------------------------
(* What an utterance's pure functions guarantee for every rule table, every  *)
(* phrase and every name: a name of the reference data finds its owner, a    *)
(* record that needs no review has no doubt about it, every word of an       *)
(* utterance has one slot, and the last correction of a slot stands.         *)
EXTENDS Utterances, TLAPS, FiniteSetTheorems, SequenceTheorems

-----------------------------------------------------------------------------
(* Numbers and recursion.  The library states induction and recursion for an *)
(* operator; here they are for a set and for a function, which the provers   *)
(* can instantiate.                                                          *)

\* Every nonempty set of numbers has a smallest one.
LEMMA SmallestIn ==
    ASSUME NEW S \in SUBSET Nat, S # {}
    PROVE  Smallest(S) \in S /\ \A y \in S : Smallest(S) <= y
  <1>1. PICK x \in S : \A y \in S : <<y, x>> \notin OpToRel(<, Nat)
    BY NatLessThanWellFounded, WFMin
  <1>2. ASSUME NEW y \in S, y < x
        PROVE  FALSE
    <2>1. <<y, x>> \in Nat \X Nat
      OBVIOUS
    <2>2. <<y, x>>[1] < <<y, x>>[2]
      BY <1>2
    <2>3. <<y, x>> \in OpToRel(<, Nat)
      BY <2>1, <2>2, Zenon DEF OpToRel
    <2> QED BY <1>1, <2>3
  <1>3. \E z \in S : \A y \in S : z <= y
    BY <1>2
  <1> QED BY <1>3 DEF Smallest

\* Induction, for a set of numbers.
LEMMA Inductive ==
    ASSUME NEW S, 0 \in S, \A n \in Nat : n \in S => n + 1 \in S
    PROVE  \A n \in Nat : n \in S
  <1> DEFINE out == {n \in Nat : n \notin S}
  <1>1. CASE out # {}
    <2>1. PICK x \in out : \A y \in out : x <= y
      BY <1>1, SmallestIn
    <2>2. x - 1 \in Nat /\ x - 1 \in S
      BY <2>1
    <2>3. (x - 1) + 1 \in S
      BY <2>2
    <2> QED BY <2>1, <2>3
  <1> QED BY <1>1

\* f begins with c and goes on by F.
Recurs(f, c, F) == f[0] = c /\ \A i \in Nat \ {0} : f[i] = F[<<i, f[i - 1]>>]

\* Recursion, for a step function on a set.
LEMMA Recursion ==
    ASSUME NEW V, NEW c \in V, NEW F \in [Nat \X V -> V]
    PROVE  \E f \in [Nat -> V] : Recurs(f, c, F)
  <1> DEFINE Upto(n) == {g \in [0 .. n -> V] : /\ g[0] = c
                                               /\ \A i \in 1 .. n : g[i] = F[<<i, g[i - 1]>>]}
  <1>1. \A n \in Nat : Upto(n) # {}
    <2> DEFINE S == {n \in Nat : Upto(n) # {}}
    <2>1. 0 \in S
      <3>1. [i \in 0 .. 0 |-> c] \in Upto(0)
        OBVIOUS
      <3> QED BY <3>1
    <2>2. ASSUME NEW n \in Nat, n \in S
          PROVE  n + 1 \in S
      <3>1. PICK g : g \in Upto(n)
        BY <2>2
      <3> DEFINE h == [i \in 0 .. (n + 1) |-> IF i = n + 1 THEN F[<<n + 1, g[n]>>] ELSE g[i]]
      <3>2. F[<<n + 1, g[n]>>] \in V
        BY <3>1
      <3>3. h \in [0 .. (n + 1) -> V]
        BY <3>1, <3>2
      <3>4. h[0] = c
        BY <3>1
      <3>5. ASSUME NEW i \in 1 .. (n + 1)
            PROVE  h[i] = F[<<i, h[i - 1]>>]
        <4>1. CASE i = n + 1
          <5>1. h[n + 1] = F[<<n + 1, g[n]>>] /\ h[n] = g[n] /\ (n + 1) - 1 = n
            BY <3>1
          <5> QED BY <4>1, <5>1
        <4>2. CASE i # n + 1
          <5>1. i \in 1 .. n /\ h[i] = g[i] /\ h[i - 1] = g[i - 1]
            BY <4>2
          <5> QED BY <3>1, <5>1
        <4> QED BY <4>1, <4>2
      <3>6. h \in Upto(n + 1)
        BY <3>3, <3>4, <3>5
      <3> HIDE DEF Upto
      <3> QED BY <3>6
    <2> HIDE DEF S
    <2>3. \A n \in Nat : n \in S
      BY <2>1, <2>2, Inductive
    <2> QED BY <2>3 DEF S
  <1>2. ASSUME NEW n \in Nat, NEW m \in Nat, NEW g \in Upto(n), NEW h \in Upto(m)
        PROVE  \A i \in Nat : i <= n /\ i <= m => g[i] = h[i]
    <2> DEFINE S == {i \in Nat : i <= n /\ i <= m => g[i] = h[i]}
    <2>1. 0 \in S
      OBVIOUS
    <2>2. ASSUME NEW i \in Nat, i \in S
          PROVE  i + 1 \in S
      <3>1. CASE i + 1 <= n /\ i + 1 <= m
        <4>1. g[i] = h[i] /\ i + 1 \in 1 .. n /\ i + 1 \in 1 .. m /\ (i + 1) - 1 = i
          BY <2>2, <3>1
        <4>2. g[i + 1] = F[<<i + 1, g[i]>>] /\ h[i + 1] = F[<<i + 1, h[i]>>]
          BY <4>1
        <4> QED BY <4>1, <4>2
      <3> QED BY <3>1
    <2> HIDE DEF S
    <2>3. \A i \in Nat : i \in S
      BY <2>1, <2>2, Inductive
    <2> QED BY <2>3 DEF S
  <1> DEFINE pick == [n \in Nat |-> CHOOSE g : g \in Upto(n)]
             f == [n \in Nat |-> pick[n][n]]
  <1>3. \A n \in Nat : pick[n] \in Upto(n)
    <2> HIDE DEF Upto
    <2> QED BY <1>1
  <1> HIDE DEF pick
  <1>4. f \in [Nat -> V]
    BY <1>3
  <1>5. ASSUME NEW n \in Nat
        PROVE  f[n] = IF n = 0 THEN c ELSE F[<<n, f[n - 1]>>]
    <2>1. CASE n = 0
      BY <1>3, <2>1
    <2>2. CASE n # 0
      <3>1. n \in 1 .. n /\ n - 1 \in Nat /\ n - 1 <= n
        BY <2>2
      <3>2. pick[n] \in Upto(n) /\ pick[n - 1] \in Upto(n - 1)
        BY <1>3, <3>1
      <3>3. pick[n - 1][n - 1] = pick[n][n - 1]
        <4> HIDE DEF Upto
        <4> QED BY <1>2, <3>1, <3>2
      <3>4. pick[n][n] = F[<<n, pick[n][n - 1]>>]
        BY <3>1, <3>2
      <3> QED BY <2>2, <3>1, <3>3, <3>4
    <2> QED BY <2>1, <2>2
  <1> HIDE DEF f
  <1> QED BY <1>4, <1>5 DEF Recurs

\* The largest of the numbers up to a bound.
LEMMA Largest ==
    ASSUME NEW b \in Nat, NEW S \in SUBSET (0 .. b), S # {}
    PROVE  \E x \in S : \A y \in S : y <= x
  <1> DEFINE gaps == {b - y : y \in S}
  <1>1. gaps \in SUBSET Nat /\ gaps # {}
    <2>1. \A y \in S : b - y \in Nat
      OBVIOUS
    <2>2. PICK y : y \in S
      OBVIOUS
    <2>3. b - y \in gaps
      BY <2>2
    <2>4. \A g \in gaps : g \in Nat
      BY <2>1
    <2> HIDE DEF gaps
    <2> QED BY <2>3, <2>4
  <1>2. PICK g \in gaps : \A y \in gaps : g <= y
    BY <1>1, SmallestIn
  <1>3. PICK x \in S : g = b - x
    BY <1>2
  <1>4. ASSUME NEW y \in S
        PROVE  y <= x
    <2>1. b - x <= b - y
      BY <1>2, <1>3
    <2>2. x \in 0 .. b /\ y \in 0 .. b
      BY <1>3
    <2> QED BY <2>1, <2>2
  <1> QED BY <1>4

\* What F gives for i depends on later values only, and is c behind N.
FromLater(F, V, N, c) ==
    /\ \A i \in Nat, f \in [Nat -> V], g \in [Nat -> V] :
          (\A j \in Nat : j > i => f[j] = g[j]) => F[<<i, f>>] = F[<<i, g>>]
    /\ \A i \in Nat, f \in [Nat -> V] : i > N => F[<<i, f>>] = c

Follows(f, F) == \A i \in Nat : f[i] = F[<<i, f>>]

\* Recursion from the end of a sequence: a value may depend on all later ones.
LEMMA RecursionDown ==
    ASSUME NEW V, NEW N \in Nat, NEW c \in V, NEW F \in [Nat \X [Nat -> V] -> V],
           FromLater(F, V, N, c)
    PROVE  \E f \in [Nat -> V] : Follows(f, F)
  <1> DEFINE H == [Nat -> V]
             G == [x \in Nat \X H |->
                     IF x[1] \in 1 .. (N + 1)
                     THEN [x[2] EXCEPT ![N + 1 - x[1]] = F[<<N + 1 - x[1], x[2]>>]] ELSE x[2]]
             z == [i \in Nat |-> c]
  <1>0. /\ \A i \in Nat, f \in [Nat -> V], g \in [Nat -> V] :
              (\A j \in Nat : j > i => f[j] = g[j]) => F[<<i, f>>] = F[<<i, g>>]
        /\ \A i \in Nat, f \in [Nat -> V] : i > N => F[<<i, f>>] = c
    BY DEF FromLater
  <1>1. z \in H
    OBVIOUS
  <1>2. ASSUME NEW k \in Nat, NEW g \in H
        PROVE  /\ G[<<k, g>>] \in H
               /\ k \in 1 .. (N + 1) =>
                    G[<<k, g>>] = [g EXCEPT ![N + 1 - k] = F[<<N + 1 - k, g>>]]
    <2>1. G[<<k, g>>] = IF k \in 1 .. (N + 1)
                        THEN [g EXCEPT ![N + 1 - k] = F[<<N + 1 - k, g>>]] ELSE g
      OBVIOUS
    <2> HIDE DEF G
    <2>2. k \in 1 .. (N + 1) => N + 1 - k \in Nat /\ F[<<N + 1 - k, g>>] \in V
      OBVIOUS
    <2> QED BY <2>1, <2>2
  <1>3. G \in [Nat \X H -> H]
    <2>1. \A x \in Nat \X H : G[x] \in H
      <3> SUFFICES ASSUME NEW x \in Nat \X H
                   PROVE  G[x] \in H
        OBVIOUS
      <3>1. x = <<x[1], x[2]>> /\ x[1] \in Nat /\ x[2] \in H
        OBVIOUS
      <3> HIDE DEF G, H
      <3>2. G[<<x[1], x[2]>>] \in H
        BY <1>2, <3>1
      <3> QED BY <3>1, <3>2
    <2>2. G = [x \in Nat \X H |-> G[x]]
      OBVIOUS
    <2> HIDE DEF G
    <2> QED BY <2>1, <2>2
  <1> HIDE DEF G, z
  <1>4. PICK h \in [Nat -> H] : Recurs(h, z, G)
    <2> HIDE DEF H
    <2> QED BY <1>1, <1>3, Recursion
  <1>5. h[0] = z /\ \A k \in Nat \ {0} : h[k] = G[<<k, h[k - 1]>>]
    BY <1>4 DEF Recurs
  <1> DEFINE Done(k) == k <= N + 1 => \A i \in Nat : i > N - k => h[k][i] = F[<<i, h[k]>>]
             S == {k \in Nat : Done(k)}
  <1>6. 0 \in S
    BY <1>0, <1>1, <1>5 DEF z
  <1> HIDE DEF Done
  <1>7. ASSUME NEW k \in Nat, k \in S
        PROVE  k + 1 \in S
    <2>0. Done(k) /\ k + 1 \in Nat
      BY <1>7
    <2> SUFFICES Done(k + 1)
      BY <2>0
    <2> SUFFICES ASSUME k + 1 <= N + 1, NEW i \in Nat, i > N - (k + 1)
                 PROVE  h[k + 1][i] = F[<<i, h[k + 1]>>]
      BY DEF Done
    <2> DEFINE m == N - k
    <2>1. m \in Nat /\ N + 1 - (k + 1) = m /\ (k + 1) - 1 = k /\ k + 1 \in 1 .. (N + 1)
          /\ k + 1 \in Nat \ {0}
      OBVIOUS
    <2>2. h[k + 1] = [h[k] EXCEPT ![m] = F[<<m, h[k]>>]]
      <3> HIDE DEF H, m
      <3>1. h[k] \in H /\ h[k + 1] = G[<<k + 1, h[k]>>]
        BY <1>4, <1>5, <2>1
      <3>2. G[<<k + 1, h[k]>>] = [h[k] EXCEPT ![N + 1 - (k + 1)] = F[<<N + 1 - (k + 1), h[k]>>]]
        BY <1>2, <2>1, <3>1
      <3> QED BY <2>1, <3>1, <3>2
    <2>3. h[k] \in H /\ h[k + 1] \in H
      BY <1>4
    <2>4. i >= m
      OBVIOUS
    <2> HIDE DEF m
    <2>5. \A j \in Nat : j > m => h[k + 1][j] = h[k][j]
      BY <2>1, <2>2, <2>3
    <2>6. h[k + 1][m] = F[<<m, h[k]>>]
      BY <2>1, <2>2, <2>3
    <2>7. F[<<m, h[k]>>] = F[<<m, h[k + 1]>>]
      BY <1>0, <2>1, <2>3, <2>5
    <2>8. CASE i > m
      <3>1. h[k][i] = F[<<i, h[k]>>]
        <4>1. k <= N + 1 /\ i > N - k
          BY <2>8 DEF m
        <4> QED BY <2>0, <4>1 DEF Done
      <3>2. \A j \in Nat : j > i => h[k][j] = h[k + 1][j]
        BY <2>1, <2>5, <2>8
      <3>3. F[<<i, h[k]>>] = F[<<i, h[k + 1]>>]
        BY <1>0, <2>3, <3>2
      <3> QED BY <2>5, <2>8, <3>1, <3>3
    <2>9. CASE i = m
      BY <2>6, <2>7, <2>9
    <2> QED BY <2>1, <2>4, <2>8, <2>9
  <1> HIDE DEF S
  <1>8. \A k \in Nat : k \in S
    BY <1>6, <1>7, Inductive
  <1>9. N + 1 \in S
    BY <1>8
  <1>10. \A i \in Nat : h[N + 1][i] = F[<<i, h[N + 1]>>]
    <2>1. Done(N + 1)
      BY <1>9 DEF S
    <2>2. N + 1 <= N + 1 /\ \A i \in Nat : i > N - (N + 1)
      OBVIOUS
    <2>3. N + 1 <= N + 1 => \A i \in Nat : i > N - (N + 1) => h[N + 1][i] = F[<<i, h[N + 1]>>]
      BY <2>1, Zenon DEF Done
    <2> QED BY <2>2, <2>3, Zenon
  <1>11. h[N + 1] \in H
    BY <1>4
  <1> QED BY <1>10, <1>11 DEF Follows

\* f goes from i on to next[i], up to n.
Walks(f, n, next, G) == \A i \in Nat : f[i] = IF i > n THEN <<>> ELSE G[<<i, f[next[i]]>>]

LEMMA WalkExists ==
    ASSUME NEW n \in Nat, NEW V, <<>> \in V, NEW next \in [Nat -> Nat],
           \A i \in Nat : next[i] > i, NEW G \in [Nat \X V -> V]
    PROVE  \E f \in [Nat -> V] : Walks(f, n, next, G)
  <1> DEFINE H == [Nat -> V]
             F == [x \in Nat \X H |-> IF x[1] > n THEN <<>> ELSE G[<<x[1], x[2][next[x[1]]]>>]]
  <1>1. \A i \in Nat, f \in H : F[<<i, f>>] = IF i > n THEN <<>> ELSE G[<<i, f[next[i]]>>]
    OBVIOUS
  <1>2. \A i \in Nat, f \in H : f[next[i]] \in V /\ G[<<i, f[next[i]]>>] \in V
    OBVIOUS
  <1>3. F \in [Nat \X H -> V]
    <2>1. \A x \in Nat \X H : F[x] \in V
      <3> SUFFICES ASSUME NEW x \in Nat \X H
                   PROVE  F[x] \in V
        OBVIOUS
      <3>1. x = <<x[1], x[2]>> /\ x[1] \in Nat /\ x[2] \in H
        OBVIOUS
      <3> HIDE DEF F, H
      <3>2. F[<<x[1], x[2]>>] \in V
        BY <1>1, <1>2, <3>1
      <3> QED BY <3>1, <3>2
    <2>2. F = [x \in Nat \X H |-> F[x]]
      OBVIOUS
    <2> HIDE DEF F
    <2> QED BY <2>1, <2>2
  <1>4. \A i \in Nat, f \in H, g \in H :
           (\A j \in Nat : j > i => f[j] = g[j]) => F[<<i, f>>] = F[<<i, g>>]
    <2> SUFFICES ASSUME NEW i \in Nat, NEW f \in H, NEW g \in H,
                        \A j \in Nat : j > i => f[j] = g[j]
                 PROVE  F[<<i, f>>] = F[<<i, g>>]
      OBVIOUS
    <2>1. next[i] \in Nat /\ next[i] > i
      OBVIOUS
    <2>2. f[next[i]] = g[next[i]]
      BY <2>1
    <2> HIDE DEF F, H
    <2>3. /\ F[<<i, f>>] = IF i > n THEN <<>> ELSE G[<<i, f[next[i]]>>]
          /\ F[<<i, g>>] = IF i > n THEN <<>> ELSE G[<<i, g[next[i]]>>]
      BY <1>1, Zenon
    <2> QED BY <2>2, <2>3, Zenon
  <1>5. \A i \in Nat, f \in H : i > n => F[<<i, f>>] = <<>>
    BY <1>1
  <1> HIDE DEF F
  <1>6. FromLater(F, V, n, <<>>)
    BY <1>4, <1>5 DEF FromLater
  <1>7. PICK f \in [Nat -> V] : Follows(f, F)
    BY <1>3, <1>6, RecursionDown
  <1>8. \A i \in Nat : f[i] = F[<<i, f>>]
    BY <1>7 DEF Follows
  <1>9. \A i \in Nat : f[i] = IF i > n THEN <<>> ELSE G[<<i, f[next[i]]>>]
    BY <1>1, <1>8
  <1> QED BY <1>9 DEF Walks

\* Induction from the end of a sequence.
LEMMA Downward ==
    ASSUME NEW N \in Nat, NEW f, NEW W,
           \A i \in Nat : i > N => f[i] \in W,
           \A i \in 1 .. N : (\A j \in Nat : j > i => f[j] \in W) => f[i] \in W
    PROVE  \A i \in Nat \ {0} : f[i] \in W
  <1> DEFINE out == {i \in 1 .. N : f[i] \notin W}
  <1>1. CASE out # {}
    <2>1. out \in SUBSET (0 .. N)
      OBVIOUS
    <2>2. PICK x \in out : \A y \in out : y <= x
      <3> HIDE DEF out
      <3> QED BY <1>1, <2>1, Largest
    <2>3. x \in 1 .. N /\ \A j \in Nat : j > x => f[j] \in W
      BY <2>2
    <2> QED BY <2>2, <2>3
  <1> QED BY <1>1

\* A sequence with one element before it.
LEMMA Prepended ==
    ASSUME NEW X, NEW x \in X, NEW s \in Seq(X)
    PROVE  <<x>> \o s \in Seq(X) /\ <<x>> # <<>>
  <1>1. <<x>> \in Seq(X) /\ Len(<<x>>) = 1 /\ Len(<<>>) = 0
    OBVIOUS
  <1> QED BY <1>1

-----------------------------------------------------------------------------
(* Reference data: the characters of two texts are paired (Jaro). *)

Texts == Seq(STRING)
PairLists == Seq(Nat \X Nat)

\* A free position of b is one of its own, and the first.
LEMMA FreeOfB ==
    ASSUME NEW b \in Texts, NEW free \in SUBSET DOMAIN b, free # {}
    PROVE  Smallest(free) \in free /\ Smallest(free) \in Nat
           /\ \A j \in free : Smallest(free) <= j
  <1>1. free \in SUBSET Nat
    BY DEF Texts
  <1> QED BY <1>1, SmallestIn

\* A character is paired with a free one of b, or with none.
LEMMA PairedStep ==
    ASSUME NEW a \in Texts, NEW b \in Texts, NEW i \in Nat, NEW pairs \in PairLists
    PROVE  /\ Paired(a, b, i, pairs) \in PairLists
           /\ \/ Paired(a, b, i, pairs) = pairs
              \/ \E j \in DOMAIN b \ Taken(pairs) : Paired(a, b, i, pairs) = Append(pairs, <<i, j>>)
  <1> DEFINE free == {j \in (i - Window(a, b))..(i + Window(a, b)) :
                         j \in DOMAIN b \ Taken(pairs) /\ b[j] = a[i]}
  <1>1. Paired(a, b, i, pairs) = IF free = {} THEN pairs ELSE Append(pairs, <<i, Smallest(free)>>)
    BY DEF Paired
  <1>2. free \in SUBSET DOMAIN b /\ \A j \in free : j \in DOMAIN b \ Taken(pairs)
    OBVIOUS
  <1> HIDE DEF free
  <1>3. CASE free # {}
    <2>1. Smallest(free) \in free /\ Smallest(free) \in Nat
      BY <1>2, <1>3, FreeOfB
    <2>2. <<i, Smallest(free)>> \in Nat \X Nat
      BY <2>1
    <2> QED BY <1>1, <1>2, <1>3, <2>1, <2>2 DEF PairLists
  <1> QED BY <1>1, <1>3

\* The pairs up to each character, as the recursion says.
LEMMA PairsRecur ==
    ASSUME NEW a \in Texts, NEW b \in Texts
    PROVE  /\ PairsUpTo(a, b) \in [Nat -> PairLists]
           /\ PairsUpTo(a, b)[0] = <<>>
           /\ \A i \in Nat \ {0} : PairsUpTo(a, b)[i] = Paired(a, b, i, PairsUpTo(a, b)[i - 1])
  <1> DEFINE F == [x \in Nat \X PairLists |-> Paired(a, b, x[1], x[2])]
             Is(f) == f = [i \in Nat |-> IF i = 0 THEN <<>> ELSE Paired(a, b, i, f[i - 1])]
  <1>1. F \in [Nat \X PairLists -> PairLists]
    BY PairedStep
  <1>2. <<>> \in PairLists
    BY DEF PairLists
  <1>3. \A i \in Nat, p \in PairLists : F[<<i, p>>] = Paired(a, b, i, p)
    OBVIOUS
  <1> HIDE DEF F
  <1>4. PICK f \in [Nat -> PairLists] : Recurs(f, <<>>, F)
    BY <1>1, <1>2, Recursion
  <1>5. ASSUME NEW i \in Nat
        PROVE  f[i] = IF i = 0 THEN <<>> ELSE Paired(a, b, i, f[i - 1])
    <2>1. i # 0 => i - 1 \in Nat
      OBVIOUS
    <2> QED BY <1>3, <1>4, <2>1 DEF Recurs
  <1>6. Is(f)
    BY <1>5
  <1>7. PairsUpTo(a, b) = CHOOSE g : Is(g)
    BY DEF PairsUpTo
  <1> DEFINE up == PairsUpTo(a, b)
  <1>8. Is(up)
    <2> HIDE DEF Is
    <2> QED BY <1>6, <1>7
  <1>9. \A i \in Nat : up[i] = IF i = 0 THEN <<>> ELSE Paired(a, b, i, up[i - 1])
    <2> HIDE DEF up
    <2> QED BY <1>8
  <1>10. \A i \in Nat : up[i] \in PairLists
    <2> DEFINE S == {i \in Nat : up[i] \in PairLists}
    <2> HIDE DEF up
    <2>1. 0 \in S
      BY <1>2, <1>9
    <2>2. ASSUME NEW i \in Nat, i \in S
          PROVE  i + 1 \in S
      <3>1. i + 1 \in Nat /\ i + 1 # 0 /\ (i + 1) - 1 = i
        OBVIOUS
      <3>2. up[i + 1] = Paired(a, b, i + 1, up[i])
        BY <1>9, <3>1
      <3> QED BY <2>2, <3>1, <3>2, PairedStep
    <2> HIDE DEF S
    <2>3. \A i \in Nat : i \in S
      BY <2>1, <2>2, Inductive
    <2> QED BY <2>3 DEF S
  <1>11. up = [i \in Nat |-> IF i = 0 THEN <<>> ELSE Paired(a, b, i, up[i - 1])]
    BY <1>8
  <1> HIDE DEF up
  <1>12. up \in [Nat -> PairLists]
    BY <1>10, <1>11
  <1> QED BY <1>9, <1>12 DEF up

\* The pairs of the first i characters: no character of b is in two of them, and
\* when there are as many as characters they are in order.
WellPaired(p, b, i) ==
    /\ p \in PairLists /\ Len(p) <= i
    /\ Len(p) = i => \A k \in 1 .. i : p[k][1] = k
    /\ \A k \in 1 .. Len(p) : p[k][2] \in 1 .. Len(b)
    /\ \A k, l \in 1 .. Len(p) : p[k][2] = p[l][2] => k = l

LEMMA WellPairedStep ==
    ASSUME NEW b \in Texts, NEW i \in Nat, NEW p, WellPaired(p, b, i),
           NEW j \in DOMAIN b \ Taken(p)
    PROVE  WellPaired(Append(p, <<i + 1, j>>), b, i + 1)
  <1> DEFINE q == Append(p, <<i + 1, j>>)
  <1>1. p \in PairLists /\ Len(p) \in Nat /\ DOMAIN p = 1 .. Len(p) /\ j \in 1 .. Len(b)
        /\ j \in Nat
    BY DEF WellPaired, PairLists, Texts
  <1>2. q \in PairLists
    BY <1>1 DEF PairLists
  <1>3. /\ Len(q) = Len(p) + 1 /\ q[Len(p) + 1] = <<i + 1, j>>
        /\ \A k \in 1 .. Len(p) : q[k] = p[k]
    BY <1>1 DEF PairLists
  <1> HIDE DEF q
  <1>a. Len(p) \in Nat /\ i \in Nat /\ Len(q) = Len(p) + 1
    <2>1. Len(p) \in Nat
      BY <1>1
    <2>2. Len(q) = Len(p) + 1
      BY <1>3
    <2> QED BY <2>1, <2>2
  <1>4. \A k \in 1 .. Len(p) : p[k][2] # j
    BY <1>1 DEF Taken
  <1>5. \A k \in 1 .. Len(q) : k \in 1 .. Len(p) \/ k = Len(p) + 1
    BY <1>1, <1>3
  <1>6. q[Len(p) + 1][1] = i + 1 /\ q[Len(p) + 1][2] = j
    BY <1>3
  <1>7. Len(q) = i + 1 => \A k \in 1 .. (i + 1) : q[k][1] = k
    <2> SUFFICES ASSUME Len(q) = i + 1, NEW k \in 1 .. (i + 1)
                 PROVE  q[k][1] = k
      OBVIOUS
    <2>1. Len(p) = i
      BY <1>a
    <2>2. CASE k = i + 1
      BY <1>6, <2>1, <2>2
    <2>3. CASE k \in 1 .. i
      BY <1>3, <2>1, <2>3 DEF WellPaired
    <2> QED BY <2>2, <2>3
  <1>8. \A k \in 1 .. Len(q) : q[k][2] \in 1 .. Len(b)
    BY <1>1, <1>3, <1>5, <1>6 DEF WellPaired
  <1>9. \A k, l \in 1 .. Len(q) : q[k][2] = q[l][2] => k = l
    BY <1>3, <1>4, <1>5, <1>6 DEF WellPaired
  <1>10. Len(q) <= i + 1
    <2>1. Len(p) <= i
      BY DEF WellPaired
    <2> QED BY <1>a, <2>1
  <1> QED BY <1>2, <1>7, <1>8, <1>9, <1>10 DEF WellPaired, q

LEMMA PairsWellPaired ==
    ASSUME NEW a \in Texts, NEW b \in Texts
    PROVE  WellPaired(Pairs(a, b), b, Len(a))
  <1> DEFINE up == PairsUpTo(a, b)
             S == {i \in Nat : WellPaired(up[i], b, i)}
  <1>1. 0 \in S
    <2>1. up[0] = <<>> /\ <<>> \in PairLists /\ Len(<<>>) = 0
      BY PairsRecur DEF PairLists
    <2> HIDE DEF up
    <2> QED BY <2>1 DEF WellPaired
  <1>2. ASSUME NEW i \in Nat, i \in S
        PROVE  i + 1 \in S
    <2>1. i + 1 \in Nat \ {0} /\ (i + 1) - 1 = i
      OBVIOUS
    <2>2. up[i + 1] = Paired(a, b, i + 1, up[i])
      BY <2>1, PairsRecur
    <2> HIDE DEF up
    <2>3. WellPaired(up[i], b, i) /\ up[i] \in PairLists
      BY <1>2 DEF WellPaired
    <2>4. CASE up[i + 1] = up[i]
      <3>1. Len(up[i]) \in Nat /\ Len(up[i]) <= i
        BY <2>3 DEF WellPaired, PairLists
      <3>2. Len(up[i]) <= i + 1 /\ Len(up[i]) # i + 1
        BY <3>1
      <3> QED BY <2>1, <2>3, <2>4, <3>2 DEF WellPaired
    <2>5. CASE \E j \in DOMAIN b \ Taken(up[i]) : up[i + 1] = Append(up[i], <<i + 1, j>>)
      BY <2>1, <2>3, <2>5, WellPairedStep
    <2> QED BY <2>1, <2>2, <2>3, <2>4, <2>5, PairedStep
  <1> HIDE DEF S
  <1>3. \A i \in Nat : i \in S
    BY <1>1, <1>2, Inductive
  <1>4. Len(a) \in Nat
    BY DEF Texts
  <1> QED BY <1>3, <1>4 DEF S, Pairs

\* A text is paired with itself character by character.
LEMMA PairsOfItself ==
    ASSUME NEW a \in Texts
    PROVE  Len(Pairs(a, a)) = Len(a) /\ \A k \in 1 .. Len(a) : Pairs(a, a)[k] = <<k, k>>
  <1> DEFINE up == PairsUpTo(a, a)
             S == {i \in Nat : i <= Len(a) => Len(up[i]) = i /\ \A k \in 1 .. i : up[i][k] = <<k, k>>}
  <1>0. Len(a) \in Nat /\ DOMAIN a = 1 .. Len(a)
    BY DEF Texts
  <1>1. 0 \in S
    <2>1. up[0] = <<>> /\ Len(<<>>) = 0
      BY PairsRecur
    <2> HIDE DEF up
    <2> QED BY <2>1
  <1>2. ASSUME NEW i \in Nat, i \in S
        PROVE  i + 1 \in S
    <2> SUFFICES ASSUME i + 1 <= Len(a)
                 PROVE  /\ Len(up[i + 1]) = i + 1
                        /\ \A k \in 1 .. (i + 1) : up[i + 1][k] = <<k, k>>
      OBVIOUS
    <2>1. i + 1 \in Nat \ {0} /\ (i + 1) - 1 = i
      OBVIOUS
    <2>2. up[i + 1] = Paired(a, a, i + 1, up[i]) /\ up[i] \in PairLists
      BY <2>1, PairsRecur
    <2>3. Len(up[i]) = i /\ \A k \in 1 .. i : up[i][k] = <<k, k>>
      BY <1>0, <1>2
    <2> HIDE DEF up
    <2> DEFINE w == Window(a, a)
               free == {j \in ((i + 1) - w)..((i + 1) + w) :
                           j \in DOMAIN a \ Taken(up[i]) /\ a[j] = a[i + 1]}
    <2>4. w \in Nat
      BY <1>0 DEF Window, Larger
    <2>5. DOMAIN up[i] = 1 .. i
      BY <2>2, <2>3 DEF PairLists
    <2>6. Taken(up[i]) = 1 .. i
      BY <2>3, <2>5 DEF Taken
    <2>7. Paired(a, a, i + 1, up[i]) = IF free = {} THEN up[i]
                                       ELSE Append(up[i], <<i + 1, Smallest(free)>>)
      BY DEF Paired
    <2> HIDE DEF w
    <2>8. i + 1 \in free
      BY <1>0, <2>4, <2>6
    <2>9. \A j \in free : i + 1 <= j /\ j \in Nat
      BY <1>0, <2>6
    <2>10. free \in SUBSET DOMAIN a
      OBVIOUS
    <2> HIDE DEF free
    <2>11. Smallest(free) = i + 1
      <3>1. Smallest(free) \in free /\ Smallest(free) \in Nat /\ Smallest(free) <= i + 1
        BY <2>8, <2>10, FreeOfB
      <3> QED BY <2>9, <3>1
    <2>12. up[i + 1] = Append(up[i], <<i + 1, i + 1>>)
      BY <2>2, <2>7, <2>8, <2>11
    <2>13. <<i + 1, i + 1>> \in Nat \X Nat
      OBVIOUS
    <2>14. /\ Len(up[i + 1]) = i + 1 /\ up[i + 1][i + 1] = <<i + 1, i + 1>>
           /\ \A k \in 1 .. i : up[i + 1][k] = up[i][k]
      <3> DEFINE p == up[i]
                 x == <<i + 1, i + 1>>
      <3>1. p \in Seq(Nat \X Nat) /\ x \in Nat \X Nat /\ Len(p) = i /\ up[i + 1] = Append(p, x)
        BY <2>2, <2>3, <2>12, <2>13 DEF PairLists
      <3> HIDE DEF p, x
      <3>2. /\ Len(Append(p, x)) = Len(p) + 1 /\ Append(p, x)[Len(p) + 1] = x
            /\ \A k \in 1 .. Len(p) : Append(p, x)[k] = p[k]
        BY <3>1
      <3> QED BY <3>1, <3>2 DEF p, x
    <2>15. \A k \in 1 .. (i + 1) : k \in 1 .. i \/ k = i + 1
      OBVIOUS
    <2> QED BY <2>3, <2>14, <2>15
  <1> HIDE DEF S
  <1>3. \A i \in Nat : i \in S
    BY <1>1, <1>2, Inductive
  <1>4. Len(a) \in S
    BY <1>0, <1>3
  <1> QED BY <1>0, <1>4 DEF S, Pairs

LEMMA CountOneTo ==
    ASSUME NEW n \in Nat
    PROVE  IsFiniteSet(1 .. n) /\ Cardinality(1 .. n) = n
  <1>1. 1 > n => n = 0
    OBVIOUS
  <1>2. n - 1 + 1 = n
    OBVIOUS
  <1> QED BY <1>1, <1>2, FS_Interval

\* When the positions of b in the pairs are all of 1..n, the k-th is k.
LEMMA KthIsK ==
    ASSUME NEW n \in Nat, NEW p \in PairLists, Len(p) = n,
           \A k \in 1 .. n : p[k][2] \in 1 .. n,
           \A k, l \in 1 .. n : p[k][2] = p[l][2] => k = l
    PROVE  \A k \in 1 .. n : KthTaken(p, k) = k
  <1> DEFINE f == [k \in 1 .. n |-> p[k][2]]
             below(j) == {x \in DOMAIN p : p[x][2] < j}
  <1>1. DOMAIN p = 1 .. n
    BY DEF PairLists
  <1>2. f \in [1 .. n -> 1 .. n] /\ \A k, l \in 1 .. n : f[k] = f[l] => k = l
    OBVIOUS
  <1>3. f \in Surjection(1 .. n, 1 .. n)
    <2> HIDE DEF f
    <2>1. f \in Injection(1 .. n, 1 .. n)
      BY <1>2 DEF Injection, IsInjective
    <2>2. IsFiniteSet(1 .. n)
      BY FS_Interval
    <2> QED BY <2>1, <2>2, FS_Injection
  <1>4. \A j \in 1 .. n : \E k \in 1 .. n : p[k][2] = j
    BY <1>3 DEF Surjection
  <1>5. Taken(p) = 1 .. n
    <2>1. ASSUME NEW j \in Taken(p)
          PROVE  j \in 1 .. n
      BY <1>1 DEF Taken
    <2>2. ASSUME NEW j \in 1 .. n
          PROVE  j \in Taken(p)
      <3>1. PICK x \in DOMAIN p : p[x][2] = j
        BY <1>1, <1>4
      <3> QED BY <3>1 DEF Taken
    <2> QED BY <2>1, <2>2
  <1>6. ASSUME NEW j \in 1 .. n
        PROVE  Cardinality(below(j)) = j - 1
    <2> DEFINE g == [x \in below(j) |-> p[x][2]]
    <2>1. below(j) \subseteq 1 .. n
      BY <1>1
    <2>2. \A x \in below(j) : p[x][2] \in 1 .. (j - 1)
      BY <1>1
    <2>3. \A i \in 1 .. (j - 1) : \E x \in below(j) : p[x][2] = i
      <3> SUFFICES ASSUME NEW i \in 1 .. (j - 1)
                   PROVE  \E x \in below(j) : p[x][2] = i
        OBVIOUS
      <3>1. i \in 1 .. n /\ i < j
        OBVIOUS
      <3> QED BY <1>1, <1>4, <3>1
    <2> HIDE DEF below
    <2>4. g \in [below(j) -> 1 .. (j - 1)]
      BY <2>2
    <2>5. g \in Bijection(below(j), 1 .. (j - 1))
      BY <2>1, <2>3, <2>4 DEF Bijection, Injection, Surjection, IsInjective
    <2>6. IsFiniteSet(below(j))
      <3>1. IsFiniteSet(1 .. n)
        BY FS_Interval
      <3> QED BY <2>1, <3>1, FS_Subset
    <2>7. Cardinality(1 .. (j - 1)) = Cardinality(below(j))
      <3>1. ExistsBijection(below(j), 1 .. (j - 1))
        BY <2>5 DEF ExistsBijection
      <3> QED BY <2>6, <3>1, FS_Bijection
    <2>8. Cardinality(1 .. (j - 1)) = j - 1
      <3>1. j - 1 \in Int /\ (j - 1) - 1 + 1 = j - 1
        OBVIOUS
      <3> QED BY <3>1, FS_Interval
    <2> QED BY <2>7, <2>8
  <1> SUFFICES ASSUME NEW k \in 1 .. n
               PROVE  KthTaken(p, k) = k
    OBVIOUS
  <1>7. KthTaken(p, k) = CHOOSE j \in Taken(p) : Cardinality(below(j)) = k - 1
    BY DEF KthTaken
  <1> HIDE DEF below
  <1>8. \A j \in Taken(p) : Cardinality(below(j)) = k - 1 <=> j = k
    BY <1>5, <1>6
  <1> QED BY <1>5, <1>7, <1>8

\* A score is a fraction of one at most; and one, for texts that are one.
Score(x) == x.n \in Int /\ x.d \in Int /\ x.d > 0 /\ x.n <= x.d
Full(x) == x.n = x.d

LEMMA Products ==
    ASSUME NEW x \in Nat, NEW y \in Nat
    PROVE  /\ x * y \in Nat
           /\ x > 0 /\ y > 0 => x * y > 0
           /\ \A z \in Nat : y <= z => x * y <= x * z
           /\ \A z \in Nat : y < z /\ x > 0 => x * y < x * z
  OBVIOUS

LEMMA JaroScore ==
    ASSUME NEW la \in Nat, NEW lb \in Nat, NEW m \in Nat, NEW t \in Nat,
           m <= la, m <= lb, t <= m
    PROVE  LET j == JaroOf(la, lb, m, t)
           IN  Score(j) /\ (Full(j) <=> m = la /\ m = lb /\ t = 0)
  <1> DEFINE j == JaroOf(la, lb, m, t)
             n == 2 * m * m * (la + lb) + (2 * m - t) * la * lb
             d == 6 * m * la * lb
  <1>1. CASE la = 0 /\ lb = 0
    <2>1. j = Frac(1, 1)
      BY <1>1 DEF JaroOf
    <2>2. m = 0 /\ t = 0
      BY <1>1
    <2> QED BY <1>1, <2>1, <2>2 DEF Frac, Score, Full
  <1>2. CASE la # lb /\ 0 \in {la, lb}
    <2>1. j = Frac(0, 1)
      BY <1>2 DEF JaroOf
    <2>2. ~ (m = la /\ m = lb)
      BY <1>2
    <2> QED BY <2>1, <2>2 DEF Frac, Score, Full
  <1>3. CASE la > 0 /\ lb > 0 /\ m = 0
    <2>1. j = Frac(0, 1)
      BY <1>3 DEF JaroOf
    <2>2. ~ (m = la /\ m = lb)
      BY <1>3
    <2> QED BY <2>1, <2>2 DEF Frac, Score, Full
  <1>4. CASE la > 0 /\ lb > 0 /\ m > 0
    <2>1. j = Frac(n, d)
      BY <1>4 DEF JaroOf
    <2> DEFINE ml == m * la
               p == m * la * lb
    <2>2. ml \in Nat /\ ml > 0 /\ p \in Nat /\ p > 0
      BY <1>4, Products
    <2> DEFINE x == m * m * la
               y == m * m * lb
               u == t * la * lb
    <2>3. /\ x \in Int /\ y \in Int /\ u \in Int
          /\ n = 2 * x + 2 * y + 2 * p - u /\ d = 6 * p
      OBVIOUS
    <2>4. x <= p /\ (x = p => m = lb) 
      <3>1. x = ml * m /\ p = ml * lb
        OBVIOUS
      <3> HIDE DEF ml, x, p
      <3>2. m < lb => ml * m < ml * lb
        BY <2>2, Products
      <3> QED BY <3>1, <3>2, <2>2
    <2>5. y <= p /\ (y = p => m = la)
      <3> DEFINE mb == m * lb
      <3>1. y = mb * m /\ p = mb * la /\ mb \in Nat /\ mb > 0
        BY <1>4, Products
      <3> HIDE DEF mb, y, p
      <3>2. m < la => mb * m < mb * la
        BY <3>1, Products
      <3> QED BY <3>1, <3>2
    <2>6. u >= 0 /\ (u = 0 => t = 0)
      <3> DEFINE ab == la * lb
      <3>1. u = ab * t /\ ab \in Nat /\ ab > 0
        BY <1>4, Products
      <3> HIDE DEF ab, u
      <3>2. 0 < t => ab * 0 < ab * t
        BY <3>1, Products
      <3> QED BY <3>1, <3>2, Products
    <2>7. m = la /\ m = lb /\ t = 0 => x = p /\ y = p /\ u = 0
      OBVIOUS
    <2> HIDE DEF x, y, u, p, n, d
    <2>8. Score(Frac(n, d))
      BY <2>2, <2>3, <2>4, <2>5, <2>6 DEF Score, Frac
    <2>9. Full(Frac(n, d)) <=> x = p /\ y = p /\ u = 0
      BY <2>2, <2>3, <2>4, <2>5, <2>6 DEF Full, Frac
    <2> QED BY <2>1, <2>4, <2>5, <2>6, <2>7, <2>8, <2>9
  <1> QED BY <1>1, <1>2, <1>3, <1>4

LEMMA JaroIsFull ==
    ASSUME NEW a \in Texts, NEW b \in Texts
    PROVE  Score(Jaro(a, b)) /\ (Full(Jaro(a, b)) <=> a = b)
  <1> DEFINE p == Pairs(a, b)
             odd == {k \in DOMAIN p : a[p[k][1]] # b[KthTaken(p, k)]}
             t == Cardinality(odd)
  <1>1. /\ Len(a) \in Nat /\ DOMAIN a = 1 .. Len(a)
        /\ Len(b) \in Nat /\ DOMAIN b = 1 .. Len(b)
    BY DEF Texts
  <1>2. WellPaired(p, b, Len(a))
    BY PairsWellPaired
  <1>3. Jaro(a, b) = JaroOf(Len(a), Len(b), Len(p), t)
    BY DEF Jaro, JaroPaired
  <1> HIDE DEF p
  <1>4. Len(p) \in Nat /\ DOMAIN p = 1 .. Len(p) /\ p \in PairLists
    BY <1>2 DEF WellPaired, PairLists
  <1>5. Len(p) <= Len(a)
    BY <1>2 DEF WellPaired
  <1>6. Len(p) <= Len(b)
    <2> DEFINE f == [k \in 1 .. Len(p) |-> p[k][2]]
    <2>1. f \in [1 .. Len(p) -> 1 .. Len(b)] /\ \A k, l \in 1 .. Len(p) : f[k] = f[l] => k = l
      BY <1>2 DEF WellPaired
    <2> HIDE DEF f
    <2>2. f \in Injection(1 .. Len(p), 1 .. Len(b))
      BY <2>1 DEF Injection, IsInjective
    <2>3. IsFiniteSet(1 .. Len(b)) /\ Cardinality(1 .. Len(b)) = Len(b)
          /\ Cardinality(1 .. Len(p)) = Len(p)
      BY <1>1, <1>4, CountOneTo
    <2>4. Cardinality(1 .. Len(p)) <= Cardinality(1 .. Len(b))
      BY <2>2, <2>3, FS_Injection
    <2> QED BY <2>3, <2>4
  <1>7. t \in Nat /\ t <= Len(p) /\ (t = 0 <=> odd = {})
    <2>1. IsFiniteSet(1 .. Len(p)) /\ Cardinality(1 .. Len(p)) = Len(p)
      BY <1>4, CountOneTo
    <2>2. odd \in SUBSET (1 .. Len(p))
      BY <1>4
    <2> HIDE DEF odd
    <2>3. IsFiniteSet(odd) /\ t <= Len(p)
      BY <2>1, <2>2, FS_Subset
    <2> QED BY <2>3, FS_CardinalityType, FS_EmptySet
  <1> HIDE DEF t
  <1>8. /\ Score(Jaro(a, b))
        /\ Full(Jaro(a, b)) <=> Len(p) = Len(a) /\ Len(p) = Len(b) /\ t = 0
    <2> DEFINE la == Len(a)
               lb == Len(b)
               m  == Len(p)
    <2>1. la \in Nat /\ lb \in Nat /\ m \in Nat /\ t \in Nat /\ m <= la /\ m <= lb /\ t <= m
      BY <1>1, <1>4, <1>5, <1>6, <1>7
    <2> HIDE DEF la, lb, m
    <2>2. /\ Score(JaroOf(la, lb, m, t))
          /\ Full(JaroOf(la, lb, m, t)) <=> m = la /\ m = lb /\ t = 0
      BY <2>1, JaroScore
    <2> QED BY <1>3, <2>2 DEF la, lb, m
  <1>9. ASSUME Len(p) = Len(a), Len(p) = Len(b)
        PROVE  \A k \in 1 .. Len(a) : KthTaken(p, k) = k /\ p[k][1] = k
    BY <1>1, <1>2, <1>4, <1>9, KthIsK DEF WellPaired
  <1>10. ASSUME Full(Jaro(a, b))
         PROVE  a = b
    <2>1. Len(p) = Len(a) /\ Len(p) = Len(b) /\ odd = {}
      BY <1>7, <1>8, <1>10
    <2>2. \A k \in 1 .. Len(a) : a[k] = b[k]
      BY <1>4, <1>9, <2>1
    <2> QED BY <1>1, <2>1, <2>2, SeqEqual DEF Texts
  <1>11. ASSUME a = b
         PROVE  Full(Jaro(a, b))
    <2>1. Len(p) = Len(a)
      BY <1>11, PairsOfItself DEF p
    <2>2. odd = {}
      BY <1>4, <1>9, <1>11, <2>1
    <2> QED BY <1>7, <1>8, <1>11, <2>1, <2>2
  <1> QED BY <1>8, <1>10, <1>11

LEMMA PrefixLength ==
    ASSUME NEW a \in Texts, NEW b \in Texts
    PROVE  Prefix(a, b) \in 0 .. 4
  <1> DEFINE same == {k \in 0..4 : k <= Len(a) /\ k <= Len(b) /\ SubSeq(a, 1, k) = SubSeq(b, 1, k)}
  <1>1. 0 \in same
    <2>1. SubSeq(a, 1, 0) = <<>> /\ SubSeq(b, 1, 0) = <<>>
      BY SubSeqEmpty
    <2>2. 0 <= Len(a) /\ 0 <= Len(b)
      BY DEF Texts
    <2> QED BY <2>1, <2>2
  <1>2. Prefix(a, b) = CHOOSE k \in same : \A l \in same : l <= k
    BY DEF Prefix
  <1>3. same \subseteq 0 .. 4
    OBVIOUS
  <1> HIDE DEF same
  <1>4. \E k \in same : \A l \in same : l <= k
    <2> DEFINE gaps == {4 - k : k \in same}
    <2>1. gaps \in SUBSET Nat /\ gaps # {}
      BY <1>1, <1>3
    <2>2. PICK g \in gaps : \A y \in gaps : g <= y
      BY <2>1, SmallestIn
    <2>3. PICK k \in same : g = 4 - k
      BY <2>2
    <2>4. \A l \in same : l <= k
      <3> SUFFICES ASSUME NEW l \in same
                   PROVE  l <= k
        OBVIOUS
      <3>1. 4 - k <= 4 - l
        BY <2>2, <2>3
      <3>2. k \in 0 .. 4 /\ l \in 0 .. 4
        BY <1>3, <2>3
      <3> QED BY <3>1, <3>2
    <2> QED BY <2>4
  <1> QED BY <1>2, <1>3, <1>4

\* The prefix raises a score without making a full one of another.
LEMMA JaroWinklerScore ==
    ASSUME NEW a \in Texts, NEW b \in Texts
    PROVE  Score(JaroWinkler(a, b)) /\ (Full(JaroWinkler(a, b)) <=> a = b)
  <1> DEFINE j == Jaro(a, b)
             l == Prefix(a, b)
             x == JaroWinkler(a, b)
  <1>1. Score(j) /\ (Full(j) <=> a = b)
    BY JaroIsFull
  <1>2. l \in {0, 1, 2, 3, 4}
    BY PrefixLength
  <1>3. x = Frac(j.n * (10 - l) + l * j.d, 10 * j.d)
    BY DEF JaroWinkler, Boosted
  <1> HIDE DEF j, l, x
  <1>4. /\ j.n \in Int /\ j.d \in Int /\ j.d > 0 /\ j.n <= j.d
        /\ x.n = j.n * (10 - l) + l * j.d /\ x.d = 10 * j.d
    BY <1>1, <1>3 DEF Score, Frac
  <1>5. /\ x.n \in Int /\ x.d \in Int /\ x.d > 0 /\ x.n <= x.d
        /\ x.n = x.d <=> j.n = j.d
    <2>1. CASE l = 0
      BY <1>4, <2>1
    <2>2. CASE l = 1
      BY <1>4, <2>2
    <2>3. CASE l = 2
      BY <1>4, <2>3
    <2>4. CASE l = 3
      BY <1>4, <2>4
    <2>5. CASE l = 4
      BY <1>4, <2>5
    <2> QED BY <1>2, <2>1, <2>2, <2>3, <2>4, <2>5
  <1>6. Score(x) /\ (Full(x) <=> Full(j))
    BY <1>5 DEF Score, Full
  <1> QED BY <1>1, <1>6 DEF x

LEMMA BestOfTwo ==
    ASSUME NEW x, Score(x), NEW y, Score(y)
    PROVE  Best({x, y}) \in {x, y}
  <1>1. /\ x.n * y.d \in Int /\ y.n * x.d \in Int
        /\ x.n * x.d \in Int /\ y.n * y.d \in Int
    BY DEF Score
  <1>2. ~ Less(x, x) /\ ~ Less(y, y) /\ (~ Less(x, y) \/ ~ Less(y, x))
    BY <1>1 DEF Less
  <1>3. \E z \in {x, y} : \A w \in {x, y} : ~ Less(z, w)
    BY <1>2
  <1> QED BY <1>3 DEF Best

LEMMA SingularIsText ==
    ASSUME NEW s \in Texts
    PROVE  depluralize(s) \in Texts
  <1>1. Len(s) \in Nat /\ \A i \in 1 .. Len(s) : s[i] \in STRING
    BY DEF Texts
  <1>2. ASSUME NEW m \in Nat, m <= Len(s)
        PROVE  SubSeq(s, 1, m) \in Texts
    BY <1>1, <1>2, SubSeqProperties DEF Texts
  <1>3. CASE Len(s) > 4 /\ s[Len(s)] = "s" /\ s[Len(s) - 1] = "e"
    <2>1. Len(s) - 2 \in Nat /\ Len(s) - 2 <= Len(s)
      BY <1>1, <1>3
    <2> QED BY <1>2, <1>3, <2>1 DEF depluralize
  <1>4. CASE ~ (Len(s) > 4 /\ s[Len(s)] = "s" /\ s[Len(s) - 1] = "e")
    <2>1. CASE Len(s) > 3 /\ s[Len(s)] = "s"
      <3>1. Len(s) - 1 \in Nat /\ Len(s) - 1 <= Len(s)
        BY <1>1, <2>1
      <3> QED BY <1>2, <1>4, <2>1, <3>1 DEF depluralize
    <2>2. CASE ~ (Len(s) > 3 /\ s[Len(s)] = "s")
      BY <1>4, <2>2 DEF depluralize
    <2> QED BY <2>1, <2>2
  <1> QED BY <1>3, <1>4

\* A full score tells that two names are one but for a plural ending.
LEMMA KeyScoreIsFull ==
    ASSUME NEW q \in Texts, NEW k \in Texts, NEW code
    PROVE  /\ Score(KeyScore(q, k, code))
           /\ Full(KeyScore(q, k, code)) => depluralize(k) = depluralize(q)
  <1> DEFINE x == JaroWinkler(q, k)
             y == JaroWinkler(depluralize(q), depluralize(k))
  <1>1. Score(x) /\ (Full(x) => q = k)
    BY JaroWinklerScore
  <1>2. Score(y) /\ (Full(y) => depluralize(q) = depluralize(k))
    <2>1. depluralize(q) \in Texts /\ depluralize(k) \in Texts
      BY SingularIsText
    <2> QED BY <2>1, JaroWinklerScore
  <1>3. CASE code /\ canon(q) # <<>> /\ canon(k) = canon(q)
    BY <1>3 DEF KeyScore, Frac, Score, Full
  <1>4. CASE ~ (code /\ canon(q) # <<>> /\ canon(k) = canon(q))
    <2>1. KeyScore(q, k, code) = Best({x, y})
      BY <1>4 DEF KeyScore
    <2> HIDE DEF x, y
    <2>2. KeyScore(q, k, code) \in {x, y}
      BY <1>1, <1>2, <2>1, BestOfTwo
    <2> QED BY <1>1, <1>2, <2>2
  <1> QED BY <1>3, <1>4

LEMMA OneName ==
    ASSUME NEW q \in Texts, NEW k \in Texts, NEW code
    PROVE  LET s == bestScore(q, {k}, code)
           IN  /\ Score(s)
               /\ Full(s) => depluralize(k) = depluralize(q)
               /\ k = q => Full(s)
  <1> DEFINE s == bestScore(q, {k}, code)
             x == Frac(0, 1)
             y == KeyScore(q, k, code)
  <1>1. CASE k = q
    <2>1. s = Frac(1, 1)
      BY <1>1 DEF bestScore
    <2> QED BY <1>1, <2>1 DEF Frac, Score, Full
  <1>2. CASE k # q
    <2>1. s = Best({x} \cup {KeyScore(q, h, code) : h \in {k}})
      BY <1>2 DEF bestScore
    <2>2. {x} \cup {KeyScore(q, h, code) : h \in {k}} = {x, y}
      OBVIOUS
    <2>3. Score(x) /\ ~ Full(x)
      BY DEF Frac, Score, Full
    <2>4. Score(y) /\ (Full(y) => depluralize(k) = depluralize(q))
      BY KeyScoreIsFull
    <2> HIDE DEF x, y, s
    <2>5. s \in {x, y}
      BY <2>1, <2>2, <2>3, <2>4, BestOfTwo
    <2>6. Score(s) /\ (Full(s) => depluralize(k) = depluralize(q))
      BY <2>3, <2>4, <2>5
    <2> QED BY <1>2, <2>6 DEF s
  <1> QED BY <1>1, <1>2

\* Of two scores, one of them full, the first best is a full one.
LEMMA FirstBestIsFull ==
    ASSUME NEW q \in Texts \ {<<>>}, NEW s, DOMAIN s = {1, 2},
           Score(s[1]), Score(s[2]), Full(s[1]) \/ Full(s[2])
    PROVE  FirstBest(q, s) \in {1, 2} /\ Full(s[FirstBest(q, s)])
  <1> DEFINE top == {e \in DOMAIN s : \A f \in DOMAIN s : ~Less(s[e], s[f])}
  <1>1. \A e \in {1, 2} : /\ s[e].n \in Int /\ s[e].d \in Int /\ s[e].d > 0 /\ s[e].n <= s[e].d
                          /\ Score(s[e])
    BY DEF Score
  <1>a. ASSUME NEW x, NEW y, Score(x), Score(y), Full(x)
        PROVE  ~ Less(x, y) /\ (Less(y, x) <=> ~ Full(y))
    <2>1. /\ x.n \in Int /\ y.n \in Int /\ y.d \in Int /\ x.d = x.n
          /\ x.n > 0 /\ y.d > 0 /\ y.n <= y.d
      BY <1>a DEF Score, Full
    <2> DEFINE n == x.n
               m == y.n
               d == y.d
    <2>2. (Less(x, y) <=> n * d < m * n) /\ (Less(y, x) <=> m * n < n * d)
      BY <2>1 DEF Less
    <2> HIDE DEF n, m, d
    <2>3. n \in Int /\ m \in Int /\ d \in Int /\ n > 0 /\ m <= d
      BY <2>1 DEF n, m, d
    <2>4. m < d => m * n < n * d
      BY <2>3
    <2>5. m * n <= n * d
      BY <2>3
    <2>6. m = d => m * n = n * d
      BY <2>3
    <2>7. m * n \in Int /\ n * d \in Int
      BY <2>3
    <2>8. Full(y) <=> m = d
      BY DEF Full, m, d
    <2> QED BY <2>2, <2>3, <2>4, <2>5, <2>6, <2>7, <2>8
  <1>2. \A e \in DOMAIN s : e \in top <=> Full(s[e])
    BY <1>1, <1>a
  <1>3. top \in SUBSET Nat /\ top # {}
    BY <1>2
  <1> HIDE DEF top
  <1>4. Smallest(top) \in top
    BY <1>3, SmallestIn
  <1>5. Smallest(top) \in {1, 2} /\ Full(s[Smallest(top)])
    BY <1>2, <1>4 DEF top
  <1>6. ~ Less(s[Smallest(top)], Threshold)
    BY <1>1, <1>5 DEF Less, Threshold, Frac, Full
  <1>7. FirstBest(q, s) = Smallest(top)
    BY <1>3, <1>6 DEF FirstBest, top
  <1> QED BY <1>5, <1>7

\* A name of two entries resolves to one of its own name.
LEMMA ResolvesToOwner ==
    ASSUME NEW x \in Texts \ {<<>>}, NEW y \in Texts \ {<<>>}, NEW q \in {x, y}, NEW code
    PROVE  LET e == Resolve(q, <<{x}, {y}>>, code)
           IN  e \in {1, 2} /\ depluralize(<<x, y>>[e]) = depluralize(q)
  <1> DEFINE entries == <<{x}, {y}>>
             s == [e \in DOMAIN entries |-> bestScore(q, entries[e], code)]
  <1>1. DOMAIN s = {1, 2} /\ s[1] = bestScore(q, {x}, code) /\ s[2] = bestScore(q, {y}, code)
    <2>1. DOMAIN entries = {1, 2} /\ entries[1] = {x} /\ entries[2] = {y}
      OBVIOUS
    <2> HIDE DEF entries
    <2> QED BY <2>1
  <1>2. Resolve(q, entries, code) = FirstBest(q, s)
    BY DEF Resolve
  <1>3. /\ Score(s[1]) /\ (Full(s[1]) => depluralize(x) = depluralize(q)) /\ (x = q => Full(s[1]))
        /\ Score(s[2]) /\ (Full(s[2]) => depluralize(y) = depluralize(q)) /\ (y = q => Full(s[2]))
    BY <1>1, OneName
  <1> HIDE DEF s
  <1>4. FirstBest(q, s) \in {1, 2} /\ Full(s[FirstBest(q, s)])
    BY <1>1, <1>3, FirstBestIsFull
  <1> QED BY <1>2, <1>3, <1>4

-----------------------------------------------------------------------------
(* The theorem about the reference data. *)

\* The names never change.
NamesOK == names = <<>> \/ names \in Names \X Names

\* A pair of names, each asked for as it is written.
LEMMA PairOfNames ==
    ASSUME NamesOK
    PROVE  NameFindsItsOwner
  <1> SUFFICES ASSUME names # <<>>
               PROVE  /\ \A q \in {names[1], names[2]}, code \in BOOLEAN :
                            LET e == Resolve(q, <<{names[1]}, {names[2]}>>, code)
                            IN  e # 0 /\ depluralize(names[e]) = depluralize(q)
                      /\ Full(JaroWinkler(names[1], names[2])) <=> names[1] = names[2]
    BY DEF NameFindsItsOwner, Full
  <1>1. /\ names[1] \in Texts \ {<<>>} /\ names[2] \in Texts \ {<<>>}
        /\ names = <<names[1], names[2]>>
    BY UtterancesAssumption DEF NamesOK, Texts
  <1>2. ASSUME NEW q \in {names[1], names[2]}, NEW code \in BOOLEAN
        PROVE  LET e == Resolve(q, <<{names[1]}, {names[2]}>>, code)
               IN  e # 0 /\ depluralize(names[e]) = depluralize(q)
    BY <1>1, ResolvesToOwner
  <1> QED BY <1>1, <1>2, JaroWinklerScore

\* Spoken as it is written, a name of the reference data resolves to an entry of
\* that name, up to a plural ending, and a full score is given to no other text:
\* for every two texts, of any length and any characters (bestScore, Jaro).
THEOREM NamesFindTheirOwners == Spec => []NameFindsItsOwner
  <1>1. Init => NamesOK
    BY DEF Init, NamesOK
  <1>2. NamesOK /\ [Next]_vars => NamesOK'
    BY DEF NamesOK, Next, Say, vars
  <1>3. NamesOK => NameFindsItsOwner
    BY PairOfNames
  <1> QED BY <1>1, <1>2, <1>3, PTL DEF Spec

-----------------------------------------------------------------------------
(* Review *)

\* What the judgement needs to know of a parse: a vague quantity is none, and
\* the certainty of the quantity is that of its value.
Judgeable(r) ==
    /\ r.vague => r.quantity = NoQty
    /\ \E article : r.certQuantity = En!CertQuantity(r.quantity, r.vague, r.approx, article)

LEMMA CountVague ==
    ASSUME NEW p, NEW used, NEW ov
    PROVE  En!Count(p, used, ov).vague => En!Count(p, used, ov).value = NoQty
  <1> DEFINE c == En!Count(p, used, ov)
  <1>1. CASE En!FreeNums(p, used) # {}
    <2>1. c = En!CountNumber(p, used)
      BY <1>1 DEF En!Count
    <2> QED BY <2>1 DEF En!CountNumber
  <1>2. En!NoCount.vague = FALSE /\ En!NoCount.value = NoQty
    BY DEF En!NoCount
  <1>3. En!CountArticle(p, used).vague = FALSE
    BY <1>2 DEF En!CountArticle, En!NoCount
  <1>4. CASE En!FreeNums(p, used) = {}
    BY <1>2, <1>3, <1>4 DEF En!Count
  <1> QED BY <1>1, <1>4

LEMMA ParseJudgeable ==
    ASSUME NEW toks
    PROVE  Judgeable(En!parseTokens(toks))
  <1>1. ASSUME NEW p, NEW group, NEW ov, NEW c, NEW used, NEW item, c.vague => c.value = NoQty
        PROVE  Judgeable(En!Slots(p, group, ov, c, used, item))
    BY <1>1 DEF En!Slots, Judgeable
  <1>2. \A p : \A group : \A ov : Judgeable(En!Corrected(p, group, ov))
    BY <1>1, CountVague DEF En!Corrected, En!Counted, En!Itemed
  <1> QED BY <1>2 DEF En!parseTokens, En!Parsed, En!Located

\* e is r with the location of the item before it.
Inherits(e, r) == \E l, n : e = [r EXCEPT !.location = l, !.carried = n]

\* That leaves the rest of it as it was.
LEMMA InheritsRest ==
    ASSUME NEW toks, NEW e, Inherits(e, En!parseTokens(toks))
    PROVE  LET r == En!parseTokens(toks)
           IN /\ e.spans = r.spans /\ e.vague = r.vague /\ e.approx = r.approx
              /\ e.quantity = r.quantity /\ e.certQuantity = r.certQuantity
  <1> DEFINE p     == En!newParse(toks)
             group == En!extractLocation(p)
             ov    == En!applyNegations(p, En!SpanOf(group))
             used  == En!SpanOf(group) \cup ov.used
             c     == En!Count(p, used, ov)
             all   == used \cup c.num \cup c.of \cup ({c.unit} \ {0})
             item  == En!ItemSpan(p, all, c.after)
             r     == En!Slots(p, group, ov, c, all, item)
  <1>1. En!parseTokens(toks) = r
    BY DEF En!parseTokens, En!Parsed, En!Located, En!Corrected, En!Counted, En!Itemed
  <1> HIDE DEF p, group, ov, used, c, all, item
  <1>2. {"spans", "vague", "approx", "quantity", "certQuantity"} \subseteq DOMAIN r
    BY DEF En!Slots
  <1> HIDE DEF r
  <1>3. PICK l, n : e = [r EXCEPT !.location = l, !.carried = n]
    BY <1>1 DEF Inherits
  <1>4. \A f \in {"spans", "vague", "approx", "quantity", "certQuantity"} : e[f] = r[f]
    BY <1>2, <1>3
  <1> QED BY <1>1, <1>4

\* So each item of an utterance can be judged.
LEMMA ItemsJudgeable ==
    ASSUME NEW toks, NEW k \in DOMAIN En!ParseAll(toks)
    PROVE  Judgeable(En!ParseAll(toks)[k])
  <1> DEFINE parts == En!Parts(toks)
             each == En!ParseEach(parts)
             all == En!ParseAll(toks)
  <1>1. all = En!Inherited(each)
    BY DEF En!ParseAll
  <1> HIDE DEF parts, all
  <1>2. k \in DOMAIN parts /\ each[k] = En!parseTokens(parts[k])
    <2>1. k \in DOMAIN each
      BY <1>1 DEF En!Inherited, all
    <2> QED BY <2>1 DEF En!ParseEach
  <1>3. Inherits(all[k], each[k])
    <2>1. k \in DOMAIN each
      BY <1>2 DEF En!ParseEach
    <2> HIDE DEF each
    <2> QED BY <1>1, <2>1 DEF En!Inherited, Inherits
  <1> DEFINE r == En!parseTokens(parts[k])
  <1>4. /\ all[k].vague = r.vague /\ all[k].approx = r.approx
        /\ all[k].quantity = r.quantity /\ all[k].certQuantity = r.certQuantity
    <2>1. Inherits(all[k], r)
      BY <1>2, <1>3
    <2> QED BY <2>1, InheritsRest
  <1>5. Judgeable(r)
    BY ParseJudgeable
  <1> HIDE DEF r
  <1> QED BY <1>4, <1>5 DEF Judgeable, all

\* The certainties a parse gives a quantity.
LEMMA CertainQuantity ==
    ASSUME NEW value, NEW vague, NEW approx, NEW article
    PROVE  LET c == En!CertQuantity(value, vague, approx, article)
           IN /\ c \in 0 .. 100
              /\ approx /\ ~ vague => c <= 50
  BY DEF En!CertQuantity

ASRs == {0, 69, 70, 100}

LEMMA Threshold100 ==
    /\ Thresholds.asr \in 0 .. 100 /\ Thresholds.quantity \in 0 .. 100
    /\ Thresholds["asr"] \in 0 .. 100 /\ Thresholds["quantity"] \in 0 .. 100
  BY UtterancesAssumption

LEMMA JudgedFields ==
    ASSUME NEW r, NEW asr \in ASRs, NEW loc, NEW item, NEW o, o = En!Judged(r, asr, loc, item)
    PROVE  /\ o["quantity"] = (r.quantity # NoQty)
           /\ o["location"] = (r.location # <<>>)
           /\ o["item"] = (r.item # {})
           /\ o.vague = r.vague /\ o.approx = r.approx
           /\ o.conf["asr"] = 100 * asr /\ o.conf.asr = 100 * asr
           /\ o.conf["quantity"] = r.certQuantity * asr
  BY DEF En!Judged

LEMMA NothingToReview ==
    ASSUME NEW o, En!reviewObs(o) = {}
    PROVE  /\ \A f \in En!Fields : o[f] /\ ~ En!Low(o, f)
           /\ o.conf.asr > 0 => ~ En!Low(o, "asr")
           /\ En!doubtful(o) = {}
  <1>1. En!Missing(o) = {} /\ En!confidenceReasons(o) = {}
    BY DEF En!reviewObs
  <1>2. \A f \in En!Fields : o[f]
    BY <1>1 DEF En!Missing, AllFields, En!Fields
  <1>3. \A f \in En!Fields : ~ En!Low(o, f)
    BY <1>1, <1>2 DEF En!confidenceReasons
  <1>4. o.conf.asr > 0 => ~ En!Low(o, "asr")
    BY <1>1 DEF En!confidenceReasons
  <1> QED BY <1>2, <1>3, <1>4 DEF En!doubtful

\* A correction of one field leaves the others as they were.
LEMMA TextLeavesOthers ==
    ASSUME NEW o, DOMAIN o = {"quantity", "location", "item", "vague", "approx", "conf", "unresolved"},
           DOMAIN o.conf = {"asr", "quantity", "location", "item"},
           NEW f \in {"location", "item"}, NEW res, NEW g \in En!Fields \ {f}
    PROVE  /\ En!editText(o, f, res)[g] = o[g]
           /\ En!editText(o, f, res).conf[g] = o.conf[g]
  <1> DEFINE low == IF res >= 0 THEN 100 * res ELSE 9000
             un == IF res = En!NoMatch THEN o.unresolved \cup {f} ELSE o.unresolved \ {f}
  <1> HIDE DEF low, un
  <1>1. En!editText(o, f, res) = [o EXCEPT ![f] = TRUE, !.conf[f] = low, !.unresolved = un]
    BY DEF En!editText, low, un
  <1> QED BY <1>1 DEF En!Fields

LEMMA JudgedShape ==
    ASSUME NEW r, NEW asr, NEW loc, NEW item, NEW o, o = En!Judged(r, asr, loc, item)
    PROVE  /\ DOMAIN o = {"quantity", "location", "item", "vague", "approx", "conf", "unresolved"}
           /\ DOMAIN o.conf = {"asr", "quantity", "location", "item"}
  BY DEF En!Judged

\* A correction after which nothing asks for review settles one field at most.
LEMMA OneFieldSettled ==
    ASSUME NEW o, NEW e, NEW f \in En!Fields, En!reviewObs(e) = {},
           \A g \in En!Fields \ {f} : e[g] = o[g] /\ e.conf[g] = o.conf[g]
    PROVE  En!doubtful(o) \subseteq {f}
  <1>1. \A g \in En!Fields : e[g] /\ ~ En!Low(e, g)
    BY NothingToReview
  <1>2. \A g \in En!Fields \ {f} : o[g] /\ ~ En!Low(o, g)
    BY <1>1 DEF En!Low
  <1> QED BY <1>2 DEF En!doubtful

\* What is not asked about is exact and certain enough: the certainty of the
\* quantity is a product with that of the transcript, which none of its two
\* factors is below.
LEMMA CertainEnough ==
    ASSUME NEW c \in 0 .. 100, NEW asr \in ASRs, NEW t \in 0 .. 100,
           ~ (c * asr < 100 * t), t > 50
    PROVE  c > 50 /\ asr > 0
  <1>1. CASE asr = 0
    BY <1>1
  <1>2. CASE asr = 69
    BY <1>2
  <1>3. CASE asr = 70
    BY <1>3
  <1>4. CASE asr = 100
    BY <1>4
  <1> QED BY <1>1, <1>2, <1>3, <1>4 DEF ASRs

LEMMA RecordFlagged ==
    ASSUME Thresholds.quantity > 50,
           NEW r, Judgeable(r), NEW asr \in ASRs, NEW loc, NEW item, NEW qs, NEW res,
           NEW o, o = En!Judged(r, asr, loc, item)
    PROVE  Flagged(o, qs, res) /\ (En!AutoConfirmed(o) => asr >= Thresholds.asr)
  <1>1. PICK article : r.certQuantity = En!CertQuantity(r.quantity, r.vague, r.approx, article)
    BY DEF Judgeable
  <1>2. /\ r.certQuantity \in 0 .. 100
        /\ r.approx /\ ~ r.vague => r.certQuantity <= 50
    BY <1>1, CertainQuantity
  <1>3. ASSUME En!AutoConfirmed(o)
        PROVE  /\ En!doubtful(o) = {} /\ o.unresolved = {} /\ ~ o.vague /\ ~ o.approx
               /\ asr >= Thresholds.asr
    <2>1. En!reviewObs(o) = {} /\ o.unresolved = {}
      BY <1>3 DEF En!AutoConfirmed, En!review
    <2>2. /\ \A f \in En!Fields : o[f] /\ ~ En!Low(o, f)
          /\ o.conf.asr > 0 => ~ En!Low(o, "asr")
          /\ En!doubtful(o) = {}
      BY <2>1, NothingToReview
    <2>3. o["quantity"] /\ ~ En!Low(o, "quantity")
      BY <2>2 DEF En!Fields
    <2>4. ~ r.vague
      BY <2>3, JudgedFields DEF Judgeable
    <2>5. o.conf["quantity"] = r.certQuantity * asr
      BY JudgedFields
    <2>6. ~ (r.certQuantity * asr < 100 * Thresholds["quantity"])
      BY <2>3, <2>5 DEF En!Low
    <2>7. r.certQuantity > 50 /\ asr > 0
      BY <1>2, <2>6, CertainEnough, Threshold100
    <2>8. ~ r.approx
      BY <1>2, <2>4, <2>7
    <2>9. o.conf.asr = 100 * asr /\ o.conf["asr"] = 100 * asr
      BY DEF En!Judged
    <2>10. ~ (100 * asr < 100 * Thresholds["asr"])
      BY <2>2, <2>7, <2>9 DEF En!Low, ASRs
    <2>11. asr >= Thresholds.asr
      BY <2>10, Threshold100 DEF ASRs
    <2>12. o.vague = r.vague /\ o.approx = r.approx
      BY DEF En!Judged
    <2> QED BY <2>1, <2>2, <2>4, <2>8, <2>11, <2>12
  <1>4. ASSUME En!reviewObs(En!editText(o, "location", res)) = {}
        PROVE  En!doubtful(o) \subseteq {"location"}
    BY <1>4, OneFieldSettled, TextLeavesOthers, JudgedShape DEF En!Fields
  <1>5. ASSUME En!reviewObs(En!editText(o, "item", res)) = {}
        PROVE  En!doubtful(o) \subseteq {"item"}
    BY <1>5, OneFieldSettled, TextLeavesOthers, JudgedShape DEF En!Fields
  <1>6. ASSUME NEW q \in qs, En!reviewObs(En!editQuantity(o, q)) = {}
        PROVE  ~ q.approx /\ En!doubtful(o) \subseteq {"quantity"}
    <2> DEFINE e == En!editQuantity(o, q)
    <2>0. /\ \A g \in {"location", "item"} : e[g] = o[g] /\ e.conf[g] = o.conf[g]
          /\ e.conf["quantity"] = IF q.approx THEN 5000 ELSE 9500
      BY DEF En!Judged, En!editQuantity
    <2> HIDE DEF e
    <2>1. En!doubtful(o) \subseteq {"quantity"}
      <3>1. En!reviewObs(e) = {}
        BY <1>6 DEF e
      <3> QED BY <2>0, <3>1, OneFieldSettled DEF En!Fields
    <2>2. ~ En!Low(e, "quantity")
      BY <1>6, NothingToReview DEF En!Fields, e
    <2>3. ~ q.approx
      BY <2>0, <2>2, Threshold100 DEF En!Low
    <2> QED BY <2>1, <2>3
  <1> QED BY <1>3, <1>4, <1>5, <1>6 DEF Flagged

LEMMA AllFlagged ==
    ASSUME Thresholds.quantity > 50, NEW toks, NEW qs
    PROVE  /\ FlaggedAtAll(En!parseTokens(toks), qs)
           /\ \A k \in DOMAIN En!ParseAll(toks) : FlaggedAtAll(En!ParseAll(toks)[k], qs)
  <1>1. ASSUME NEW r, Judgeable(r)
        PROVE  FlaggedAtAll(r, qs)
    BY <1>1, RecordFlagged DEF FlaggedAtAll, ASRs
  <1> QED BY <1>1, ParseJudgeable, ItemsJudgeable

\* When approximate quantities are below the configured threshold, no record of
\* any utterance, in any phrases, passes without review when there is a doubt
\* about it, alone or as one of several items; nor does a correction of one field
\* settle another (ParseAll, review, reviewObs, editObservation).
THEOREM DoubtsAreFlagged ==
    ASSUME Thresholds.quantity > 50
    PROVE  Spec => []DoubtIsFlagged
  <1>1. Init => DoubtIsFlagged
    BY AllFlagged DEF DoubtIsFlagged
  <1>2. DoubtIsFlagged /\ [Next]_vars => DoubtIsFlagged'
    BY AllFlagged DEF DoubtIsFlagged
  <1> QED BY <1>1, <1>2, PTL DEF Spec

-----------------------------------------------------------------------------
(* Words *)

Words == Seq(STRING)

LEMMA Tables ==
    ASSUME NEW c \in DOMAIN Packs
    PROVE
    /\ \A f \in {In(c)!T.Ones, In(c)!T.Tens, In(c)!T.Hundreds, In(c)!T.ScaleBig, In(c)!T.vagues} :
          \A w \in DOMAIN f : f[w] \in Int
    /\ DOMAIN In(c)!T.vagues \subseteq Words \ {<<>>}
    /\ In(c)!T.approxSet \subseteq Words \ {<<>>}
    /\ In(c)!T.negationSet \subseteq Words \ {<<>>}
  <1>1. In(c)!T = Packs[c]
    BY DEF In!T
  <1> QED BY <1>1, PacksAssumption DEF Words

\* A phrase that is matched is there.
LEMMA Matched ==
    ASSUME NEW c, NEW phrases \in SUBSET (Words \ {<<>>}), NEW toks \in Words, NEW i \in Nat
    PROVE  LET n == In(c)!MatchAt(phrases, toks, i)
           IN  /\ n \in Nat
               /\ n > 0 => /\ i + n - 1 <= Len(toks)
                           /\ SubSeq(toks, i, i + n - 1) \in phrases
                           /\ Len(SubSeq(toks, i, i + n - 1)) = n
                           /\ \A k \in 1 .. n : SubSeq(toks, i, i + n - 1)[k] = toks[i + k - 1]
  <1> DEFINE here == {p \in phrases : /\ i + Len(p) - 1 <= Len(toks)
                                      /\ SubSeq(toks, i, i + Len(p) - 1) = p}
             lens == {Len(p) : p \in here}
             n == In(c)!MatchAt(phrases, toks, i)
  <1>1. n = IF lens = {} THEN 0 ELSE CHOOSE m \in lens : \A l \in lens : l <= m
    BY DEF In!MatchAt
  <1>2. Len(toks) \in Nat
    BY DEF Words
  <1>3. ASSUME NEW p \in here
        PROVE  Len(p) \in Nat \ {0} /\ Len(p) <= Len(toks) + 1
    <2>1. p \in Seq(STRING) /\ p # <<>> /\ i + Len(p) - 1 <= Len(toks)
      BY DEF Words
    <2>2. Len(p) \in Nat \ {0}
      BY <2>1, EmptySeq
    <2> QED BY <1>2, <2>1, <2>2
  <1>4. lens \in SUBSET (0 .. (Len(toks) + 1))
    BY <1>2, <1>3
  <1>5. ASSUME lens # {}
        PROVE  n \in lens
    <2> HIDE DEF lens
    <2>1. \E x \in lens : \A y \in lens : y <= x
      <3>1. Len(toks) + 1 \in Nat
        BY <1>2
      <3> QED BY <1>4, <1>5, <3>1, Largest
    <2> QED BY <1>1, <1>5, <2>1
  <1>6. ASSUME n > 0
        PROVE  /\ n \in Nat /\ i + n - 1 <= Len(toks)
               /\ SubSeq(toks, i, i + n - 1) \in phrases
               /\ Len(SubSeq(toks, i, i + n - 1)) = n
               /\ \A k \in 1 .. n : SubSeq(toks, i, i + n - 1)[k] = toks[i + k - 1]
    <2>1. lens # {}
      BY <1>1, <1>6
    <2>2. PICK p \in here : n = Len(p)
      BY <1>5, <2>1
    <2>3. n \in Nat \ {0} /\ i + n - 1 <= Len(toks) /\ SubSeq(toks, i, i + n - 1) = p
      BY <1>3, <2>2
    <2> DEFINE m == i + n - 1
    <2>4. m \in Int /\ i \in Int /\ SubSeq(toks, i, m) = p
      BY <2>3
    <2>5. p \in Words /\ p \in phrases
      OBVIOUS
    <2>6. \A k \in 1 .. n : p[k] = toks[i + k - 1]
      <3> DEFINE chars == {toks[x] : x \in i .. m}
      <3>1. \A x \in i .. m : toks[x] \in chars
        OBVIOUS
      <3> HIDE DEF m, chars
      <3>2. \A k \in 1 .. m - i + 1 : p[k] = toks[i + k - 1]
        BY <2>4, <3>1, SubSeqProperties
      <3>3. m - i + 1 = n
        BY <2>3 DEF m
      <3> QED BY <3>2, <3>3
    <2> QED BY <2>2, <2>3, <2>5, <2>6
  <1>7. CASE lens = {}
    BY <1>1, <1>6, <1>7
  <1>8. CASE lens # {}
    <2>1. n \in lens
      BY <1>5, <1>8
    <2>2. n \in Nat
      BY <1>4, <2>1
    <2> QED BY <1>6, <2>2
  <1> QED BY <1>7, <1>8

-----------------------------------------------------------------------------
(* Numbers: a run of number words, and the numbers found in an utterance. *)

RunStates == [i : Nat, total : Int, cur : Int, started : BOOLEAN, ones : BOOLEAN,
              tens : BOOLEAN, hund : BOOLEAN, half : BOOLEAN, done : BOOLEAN]

\* A step of a run from r to q: at most one word, and a run that starts takes one.
Onward(r, q) ==
    /\ q \in RunStates
    /\ q.i \in {r.i, r.i + 1}
    /\ q.i = r.i => q.done
    /\ r.started => q.started
    /\ q.started => r.started \/ q.i = r.i + 1

LEMMA RunSteps ==
    ASSUME NEW c \in DOMAIN Packs, NEW toks \in Words, NEW r \in RunStates
    PROVE  Onward(r, In(c)!RunStep(toks, r))
  <1> DEFINE w    == toks[r.i]
             skip == [r EXCEPT !.i = r.i + 1]
             go   == [skip EXCEPT !.started = TRUE]
             stop == [r EXCEPT !.done = TRUE]
             AsOnes(m)     == [go EXCEPT !.cur = m, !.ones = TRUE]
             AsTens(m)     == [go EXCEPT !.cur = m, !.tens = TRUE]
             AsHundreds(m) == [go EXCEPT !.cur = m, !.hund = TRUE]
             AsDozen(m)    == [go EXCEPT !.cur = m, !.done = TRUE]
             AsHundred(m)  == [go EXCEPT !.cur = m, !.ones = FALSE, !.tens = FALSE, !.hund = TRUE]
             AsDigits(m)   == [go EXCEPT !.cur = m, !.ones = TRUE, !.tens = TRUE, !.hund = FALSE]
             AsBig(m)      == [go EXCEPT !.total = m, !.cur = 0, !.ones = FALSE, !.tens = FALSE,
                                         !.hund = FALSE]
             half == (In(c)!OneOr(r.cur) * 12) \div (IF r.half THEN 2 ELSE 1)
  <1>1. skip \in RunStates /\ skip.i = r.i + 1 /\ skip.started = r.started
    BY DEF RunStates
  <1>3. Onward(r, stop)
    BY DEF Onward, RunStates
  <1> HIDE DEF skip
  <1>2. go \in RunStates /\ go.i = r.i + 1 /\ go.started /\ go.i # r.i
    <2>1. go \in RunStates /\ go.i = r.i + 1 /\ go.started /\ r.i \in Nat
      BY <1>1 DEF RunStates
    <2> QED BY <2>1
  <1>4. Onward(r, skip) /\ Onward(r, [skip EXCEPT !.half = TRUE])
    <2>1. [skip EXCEPT !.half = TRUE] \in RunStates
      BY <1>1 DEF RunStates
    <2>2. /\ [skip EXCEPT !.half = TRUE].i = skip.i
          /\ [skip EXCEPT !.half = TRUE].started = skip.started
      BY <1>1 DEF RunStates
    <2>3. r.i \in Int /\ r.started \in BOOLEAN
      BY DEF RunStates
    <2> QED BY <1>1, <2>1, <2>2, <2>3 DEF Onward
  <1> HIDE DEF go
  <1>5. \A m \in Int : /\ Onward(r, AsOnes(m))
                        /\ Onward(r, AsTens(m))
                        /\ Onward(r, AsHundreds(m))
                        /\ Onward(r, AsDozen(m))
                        /\ Onward(r, AsHundred(m))
                        /\ Onward(r, AsDigits(m))
                        /\ Onward(r, AsBig(m))
    <2>1. ASSUME NEW m \in Int
          PROVE  Onward(r, AsOnes(m))
      BY <1>2 DEF Onward, RunStates
    <2>2. ASSUME NEW m \in Int
          PROVE  Onward(r, AsTens(m))
      BY <1>2 DEF Onward, RunStates
    <2>3. ASSUME NEW m \in Int
          PROVE  Onward(r, AsHundreds(m))
      BY <1>2 DEF Onward, RunStates
    <2>4. ASSUME NEW m \in Int
          PROVE  Onward(r, AsDozen(m))
      BY <1>2 DEF Onward, RunStates
    <2>5. ASSUME NEW m \in Int
          PROVE  Onward(r, AsHundred(m))
      BY <1>2 DEF Onward, RunStates
    <2>6. ASSUME NEW m \in Int
          PROVE  Onward(r, AsDigits(m))
      BY <1>2 DEF Onward, RunStates
    <2>7. ASSUME NEW m \in Int
          PROVE  Onward(r, AsBig(m))
      <3> DEFINE g == [go EXCEPT !.total = m]
                 h == [g EXCEPT !.cur = 0]
      <3>1. g \in RunStates /\ g.i = r.i + 1 /\ g.started
        BY <1>2 DEF RunStates
      <3> HIDE DEF g
      <3>2. h \in RunStates /\ h.i = r.i + 1 /\ h.started
        BY <3>1 DEF RunStates
      <3> HIDE DEF h
      <3>3. Onward(r, [h EXCEPT !.ones = FALSE, !.tens = FALSE, !.hund = FALSE])
        <4> DEFINE f == [h EXCEPT !.ones = FALSE, !.tens = FALSE, !.hund = FALSE]
        <4>1. f \in RunStates /\ f.i = r.i + 1 /\ f.started /\ f.i # r.i
          BY <1>2, <3>2 DEF RunStates
        <4> HIDE DEF f
        <4>2. Onward(r, f)
          BY <4>1 DEF Onward
        <4> QED BY <4>2 DEF f
      <3> QED BY <3>3 DEF g, h
    <2> QED BY <2>1, <2>2, <2>3, <2>4, <2>5, <2>6, <2>7
  <1>7. /\ r.cur \in Int /\ r.total \in Int /\ In(c)!OneOr(r.cur) \in Int
        /\ w \in DOMAIN In(c)!T.Ones => r.cur + In(c)!T.Ones[w] \in Int
        /\ w \in DOMAIN In(c)!T.Tens => r.cur + In(c)!T.Tens[w] \in Int
        /\ w \in DOMAIN In(c)!T.Hundreds => r.cur + In(c)!T.Hundreds[w] \in Int
        /\ w \in DOMAIN In(c)!T.ScaleBig => r.total + In(c)!OneOr(r.cur) * In(c)!T.ScaleBig[w] \in Int
        /\ 100 * In(c)!OneOr(r.cur) \in Int
        /\ (In(c)!OneOr(r.cur) * 12) \div (IF r.half THEN 2 ELSE 1) \in Int
        /\ w \in DOMAIN In(c)!Digits => In(c)!Digits[w] \in Int
    <2>1. r.cur \in Int /\ r.total \in Int /\ In(c)!OneOr(r.cur) \in Int
      BY DEF RunStates, In!OneOr
    <2>2. /\ w \in DOMAIN In(c)!T.Ones => In(c)!T.Ones[w] \in Int
          /\ w \in DOMAIN In(c)!T.Tens => In(c)!T.Tens[w] \in Int
          /\ w \in DOMAIN In(c)!T.Hundreds => In(c)!T.Hundreds[w] \in Int
          /\ w \in DOMAIN In(c)!T.ScaleBig => In(c)!T.ScaleBig[w] \in Int
      BY Tables
    <2>3. w \in DOMAIN In(c)!Digits => In(c)!Digits[w] \in Int
      BY DEF In!Digits
    <2>4. (In(c)!OneOr(r.cur) * 12) \div (IF r.half THEN 2 ELSE 1) \in Int
      BY <2>1
    <2> QED BY <2>1, <2>2, <2>3, <2>4
  <1> HIDE DEF skip, stop, w, half, AsOnes, AsTens, AsHundreds, AsDozen, AsHundred, AsDigits, AsBig
  <1>8. /\ Onward(r, AsOnes(1)) /\ Onward(r, AsHundred(100 * In(c)!OneOr(r.cur))) /\ Onward(r, AsDozen(half))
        /\ w \in DOMAIN In(c)!T.Ones => Onward(r, AsOnes(r.cur + In(c)!T.Ones[w]))
        /\ w \in DOMAIN In(c)!T.Tens => Onward(r, AsTens(r.cur + In(c)!T.Tens[w]))
        /\ w \in DOMAIN In(c)!T.Hundreds => Onward(r, AsHundreds(r.cur + In(c)!T.Hundreds[w]))
        /\ w \in DOMAIN In(c)!T.ScaleBig =>
              Onward(r, AsBig(r.total + In(c)!OneOr(r.cur) * In(c)!T.ScaleBig[w]))
        /\ w \in DOMAIN In(c)!Digits => Onward(r, AsDigits(In(c)!Digits[w]))
    BY <1>5, <1>7 DEF half
  <1> QED BY <1>3, <1>4, <1>8
          DEF In!RunStep, go, skip, stop, w, half,
              AsOnes, AsTens, AsHundreds, AsDozen, AsHundred, AsDigits, AsBig

\* The roles of numerals.
LEMMA RolesOf ==
    ASSUME NEW c \in DOMAIN Packs
    PROVE  LET t == In(c)!T IN
           /\ DOMAIN Roles(t) = 1 .. 9
           /\ Roles(t)[1] = DOMAIN t.Ones /\ Roles(t)[2] = DOMAIN t.Tens
           /\ Roles(t)[3] = DOMAIN t.Hundreds /\ Roles(t)[4] = t.ScaleHundred
           /\ Roles(t)[5] = DOMAIN t.ScaleBig /\ Roles(t)[6] = t.DozenWords
           /\ Roles(t)[7] = t.HalfWords /\ Roles(t)[8] = t.NumConnectors
           /\ Roles(t)[9] = DOMAIN In(c)!Digits
  <1>1. En!Digits = In(c)!Digits
    BY DEF En!Digits, In!Digits
  <1> QED BY <1>1 DEF Roles

\* A numeral has one role, but for an article that may be a one besides.
LEMMA OneRole ==
    ASSUME NEW c \in DOMAIN Packs, NEW j \in 1 .. 9, NEW w \in Roles(In(c)!T)[j]
    PROVE  /\ \A k \in 1 .. 9 : k # j => w \notin Roles(In(c)!T)[k]
           /\ j # 1 => w \notin In(c)!T.NumArticles
           /\ w \in Numerals(In(c)!T)
  <1>1. In(c)!T = Packs[c]
    BY DEF In!T
  <1>2. DOMAIN Roles(In(c)!T) = 1 .. 9
    BY RolesOf
  <1>3. /\ \A i, k \in 1 .. 9 : i # k => Roles(In(c)!T)[i] \cap Roles(In(c)!T)[k] = {}
        /\ \A k \in 1 .. 9 : k # 1 => Roles(In(c)!T)[k] \cap In(c)!T.NumArticles = {}
    BY <1>1, <1>2, PacksAssumption, Zenon
  <1>4. w \in Numerals(In(c)!T)
    BY <1>2 DEF Numerals
  <1> QED BY <1>3, <1>4

\* A word of no numeral ends a run.
LEMMA RunStops ==
    ASSUME NEW c \in DOMAIN Packs, NEW toks \in Words, NEW r \in RunStates,
           toks[r.i] \notin Numerals(In(c)!T)
    PROVE  In(c)!RunStep(toks, r) = [r EXCEPT !.done = TRUE]
  <1> DEFINE w == toks[r.i]
  <1>1. w \notin In(c)!T.NumArticles /\ \A k \in 1 .. 9 : w \notin Roles(In(c)!T)[k]
    <2>1. w \notin Numerals(In(c)!T) /\ DOMAIN Roles(In(c)!T) = 1 .. 9
      BY RolesOf
    <2>2. \A k \in 1 .. 9 : Roles(In(c)!T)[k] \subseteq Numerals(In(c)!T)
      BY <2>1 DEF Numerals
    <2>3. In(c)!T.NumArticles \subseteq Numerals(In(c)!T)
      BY DEF Numerals
    <2> HIDE DEF w
    <2> QED BY <2>1, <2>2, <2>3
  <1>2. /\ w \notin DOMAIN In(c)!T.Ones /\ w \notin DOMAIN In(c)!T.Tens
        /\ w \notin DOMAIN In(c)!T.Hundreds /\ w \notin DOMAIN In(c)!T.ScaleBig
        /\ w \notin In(c)!T.ScaleHundred /\ w \notin In(c)!T.DozenWords
        /\ w \notin In(c)!T.HalfWords /\ w \notin In(c)!T.NumConnectors
        /\ w \notin In(c)!T.NumArticles /\ w \notin DOMAIN In(c)!Digits
    BY <1>1, RolesOf
  <1> HIDE DEF w
  <1> QED BY <1>2 DEF In!RunStep, w

\* A run that starts at i: it is past i once it has taken a word, and takes numerals.
RunsFrom(c, toks, i, seeded) ==
    {a \in RunStates : /\ i <= a.i /\ a.i <= Len(toks) + 1
                       /\ a.started => seeded \/ a.i > i
                       /\ \A q \in i .. (a.i - 1) : toks[q] \in Numerals(In(c)!T)}

LEMMA RunGoesOn ==
    ASSUME NEW c \in DOMAIN Packs, NEW toks \in Words, NEW i \in Nat, NEW seeded \in BOOLEAN,
           NEW r \in RunsFrom(c, toks, i, seeded)
    PROVE  In(c)!Step(toks, r) \in RunsFrom(c, toks, i, seeded)
  <1>1. /\ r \in RunStates /\ i <= r.i /\ r.i <= Len(toks) + 1 /\ (r.started => seeded \/ r.i > i)
        /\ \A q \in i .. (r.i - 1) : toks[q] \in Numerals(In(c)!T)
    BY DEF RunsFrom
  <1>2. r.i \in Nat /\ Len(toks) \in Nat
    BY <1>1 DEF RunStates, Words
  <1>3. CASE r.done \/ r.i > Len(toks)
    BY <1>3 DEF In!Step
  <1>4. CASE ~ (r.done \/ r.i > Len(toks))
    <2> DEFINE q == In(c)!RunStep(toks, r)
    <2>1. Onward(r, q)
      BY <1>1, RunSteps
    <2>2. In(c)!Step(toks, r) = q
      BY <1>4 DEF In!Step
    <2>3. toks[r.i] \notin Numerals(In(c)!T) => q.i = r.i
      <3>1. toks[r.i] \notin Numerals(In(c)!T) => q = [r EXCEPT !.done = TRUE]
        BY <1>1, RunStops
      <3> QED BY <1>1, <3>1 DEF RunStates
    <2> HIDE DEF q
    <2>4. q \in RunStates /\ q.i \in {r.i, r.i + 1} /\ (q.started => r.started \/ q.i = r.i + 1)
      BY <2>1 DEF Onward
    <2>5. i <= q.i /\ q.i <= Len(toks) + 1 /\ (q.started => seeded \/ q.i > i)
      BY <1>1, <1>2, <1>4, <2>4
    <2>6. ASSUME NEW k \in i .. (q.i - 1)
          PROVE  toks[k] \in Numerals(In(c)!T)
      <3>1. k \in i .. (r.i - 1) \/ (k = r.i /\ q.i # r.i)
        BY <1>2, <2>4
      <3> QED BY <1>1, <2>3, <3>1
    <2> QED BY <2>2, <2>4, <2>5, <2>6 DEF RunsFrom
  <1> QED BY <1>3, <1>4

\* Run is the end of the sequence of steps.
Stepped(c, toks, r, f) ==
    \A k \in Nat : f[k] = IF k = 0 THEN r ELSE In(c)!Step(toks, f[k - 1])

LEMMA RunSequence ==
    ASSUME NEW c \in DOMAIN Packs, NEW toks \in Words, NEW r \in RunStates
    PROVE  \E f : Stepped(c, toks, r, f) /\ In(c)!Run(toks, r) = f[Len(toks) + 1 - r.i]
  <1> DEFINE V == RunStates
             F == [x \in Nat \X V |-> In(c)!Step(toks, x[2])]
             Is(f) == f = [k \in Nat |-> IF k = 0 THEN r ELSE In(c)!Step(toks, f[k - 1])]
             up == CHOOSE f : Is(f)
  <1>0. \A a \in V : In(c)!Step(toks, a) \in V
    BY RunSteps DEF In!Step, Onward
  <1>1. F \in [Nat \X V -> V]
    <2> HIDE DEF V
    <2> QED BY <1>0
  <1>2. \A k \in Nat, a \in V : F[<<k, a>>] = In(c)!Step(toks, a)
    <2> HIDE DEF V
    <2> QED OBVIOUS
  <1> HIDE DEF F, V
  <1>3. PICK f \in [Nat -> V] : Recurs(f, r, F)
    BY <1>1, Recursion DEF V
  <1>4. ASSUME NEW k \in Nat
        PROVE  f[k] = IF k = 0 THEN r ELSE In(c)!Step(toks, f[k - 1])
    <2>1. k # 0 => k - 1 \in Nat
      OBVIOUS
    <2> QED BY <1>2, <1>3, <2>1 DEF Recurs
  <1>5. Is(f)
    BY <1>3, <1>4
  <1>6. Is(up)
    <2> HIDE DEF Is
    <2> QED BY <1>5
  <1>7. \A k \in Nat : up[k] = IF k = 0 THEN r ELSE In(c)!Step(toks, up[k - 1])
    <2> HIDE DEF up
    <2> QED BY <1>6
  <1>8. In(c)!Run(toks, r) = up[Len(toks) + 1 - r.i]
    BY DEF In!Run, up
  <1> HIDE DEF up
  <1> QED BY <1>7, <1>8 DEF Stepped

LEMMA RunStays ==
    ASSUME NEW c \in DOMAIN Packs, NEW toks \in Words, NEW i \in Nat, i <= Len(toks) + 1,
           NEW seeded \in BOOLEAN, NEW r \in RunsFrom(c, toks, i, seeded), r.i = i
    PROVE  In(c)!Run(toks, r) \in RunsFrom(c, toks, i, seeded)
  <1> DEFINE V == RunsFrom(c, toks, i, seeded)
  <1>1. r \in RunStates
    BY DEF RunsFrom
  <1>2. PICK f : Stepped(c, toks, r, f) /\ In(c)!Run(toks, r) = f[Len(toks) + 1 - r.i]
    BY <1>1, RunSequence
  <1> DEFINE S == {k \in Nat : f[k] \in V}
  <1>3. \A k \in Nat : f[k] = IF k = 0 THEN r ELSE In(c)!Step(toks, f[k - 1])
    BY <1>2 DEF Stepped
  <1>4. 0 \in S
    <2> HIDE DEF V
    <2> QED BY <1>3 DEF V
  <1>5. ASSUME NEW k \in Nat, k \in S
        PROVE  k + 1 \in S
    <2>1. k + 1 \in Nat /\ k + 1 # 0 /\ (k + 1) - 1 = k /\ f[k] \in V
      BY <1>5
    <2>2. f[k + 1] = In(c)!Step(toks, f[k])
      BY <1>3, <2>1
    <2> QED BY <2>1, <2>2, RunGoesOn
  <1> HIDE DEF S
  <1>6. \A k \in Nat : k \in S
    BY <1>4, <1>5, Inductive
  <1>7. Len(toks) + 1 - r.i \in Nat
    BY DEF Words
  <1> QED BY <1>2, <1>6, <1>7 DEF S

\* One step of a run.
LEMMA RunOn ==
    ASSUME NEW c \in DOMAIN Packs, NEW toks \in Words, NEW r \in RunStates,
           ~ r.done, r.i <= Len(toks)
    PROVE  In(c)!Run(toks, r) = In(c)!Run(toks, In(c)!RunStep(toks, r))
  <1> DEFINE q == In(c)!RunStep(toks, r)
             n == Len(toks) + 1 - r.i
  <1>1. /\ q \in RunStates /\ q.i \in {r.i, r.i + 1} /\ (q.i = r.i => q.done)
    BY RunSteps DEF Onward
  <1>2. r.i \in Nat /\ q.i \in Nat /\ Len(toks) \in Nat
    BY <1>1 DEF RunStates, Words
  <1>3. In(c)!Step(toks, r) = q
    BY <1>2 DEF In!Step
  <1> HIDE DEF q
  <1>4. PICK f : Stepped(c, toks, r, f) /\ In(c)!Run(toks, r) = f[Len(toks) + 1 - r.i]
    BY RunSequence
  <1>5. PICK g : Stepped(c, toks, q, g) /\ In(c)!Run(toks, q) = g[Len(toks) + 1 - q.i]
    BY <1>1, RunSequence
  <1>6. /\ \A k \in Nat : f[k] = IF k = 0 THEN r ELSE In(c)!Step(toks, f[k - 1])
        /\ \A k \in Nat : g[k] = IF k = 0 THEN q ELSE In(c)!Step(toks, g[k - 1])
    BY <1>4, <1>5 DEF Stepped
  <1> DEFINE S == {k \in Nat : f[k + 1] = g[k]}
             Z == {k \in Nat : g[k] = q}
  <1>7. \A k \in Nat : k \in S
    <2>1. 0 \in S
      BY <1>3, <1>6
    <2>2. ASSUME NEW k \in Nat, k \in S
          PROVE  k + 1 \in S
      <3>1. (k + 1) + 1 \in Nat /\ (k + 1) + 1 # 0 /\ ((k + 1) + 1) - 1 = k + 1 /\ k + 1 \in Nat
            /\ k + 1 # 0 /\ (k + 1) - 1 = k /\ f[k + 1] = g[k]
        BY <2>2
      <3>2. f[(k + 1) + 1] = In(c)!Step(toks, f[k + 1]) /\ g[k + 1] = In(c)!Step(toks, g[k])
        BY <1>6, <3>1
      <3> QED BY <3>1, <3>2
    <2> HIDE DEF S
    <2> QED BY <2>1, <2>2, Inductive
  <1>8. ASSUME q.done
        PROVE  \A k \in Nat : k \in Z
    <2>1. 0 \in Z
      BY <1>6
    <2>2. ASSUME NEW k \in Nat, k \in Z
          PROVE  k + 1 \in Z
      <3>1. k + 1 \in Nat /\ k + 1 # 0 /\ (k + 1) - 1 = k /\ g[k] = q
        BY <2>2
      <3>2. g[k + 1] = In(c)!Step(toks, q)
        BY <1>6, <3>1
      <3>3. In(c)!Step(toks, q) = q
        BY <1>8 DEF In!Step
      <3> QED BY <3>1, <3>2, <3>3
    <2> HIDE DEF Z
    <2> QED BY <2>1, <2>2, Inductive
  <1>9. Len(toks) - r.i \in Nat /\ (Len(toks) - r.i) + 1 = Len(toks) + 1 - r.i
    BY <1>2
  <1>10. In(c)!Run(toks, r) = g[Len(toks) - r.i]
    BY <1>4, <1>7, <1>9
  <1>11. CASE q.i = r.i + 1
    <2>1. Len(toks) + 1 - q.i = Len(toks) - r.i
      BY <1>2, <1>11
    <2> QED BY <1>5, <1>10, <2>1 DEF q
  <1>12. CASE q.i = r.i
    <2>1. q.done /\ Len(toks) + 1 - q.i \in Nat
      BY <1>1, <1>2, <1>12
    <2>2. g[Len(toks) - r.i] = q /\ g[Len(toks) + 1 - q.i] = q
      BY <1>8, <1>9, <2>1
    <2> QED BY <1>5, <1>10, <2>2 DEF q
  <1> QED BY <1>1, <1>11, <1>12

\* The end of a run.
LEMMA RunOver ==
    ASSUME NEW c \in DOMAIN Packs, NEW toks \in Words, NEW r \in RunStates,
           r.done \/ r.i > Len(toks), r.i <= Len(toks) + 1
    PROVE  In(c)!Run(toks, r) = r
  <1>1. PICK f : Stepped(c, toks, r, f) /\ In(c)!Run(toks, r) = f[Len(toks) + 1 - r.i]
    BY RunSequence
  <1> DEFINE S == {k \in Nat : f[k] = r}
  <1>2. 0 \in S
    BY <1>1 DEF Stepped
  <1>3. ASSUME NEW k \in Nat, k \in S
        PROVE  k + 1 \in S
    <2>1. k + 1 \in Nat /\ k + 1 # 0 /\ (k + 1) - 1 = k /\ f[k] = r
      BY <1>3
    <2>2. f[k + 1] = In(c)!Step(toks, r)
      BY <1>1, <2>1 DEF Stepped
    <2>3. In(c)!Step(toks, r) = r
      BY DEF In!Step
    <2> QED BY <2>1, <2>2, <2>3
  <1> HIDE DEF S
  <1>4. \A k \in Nat : k \in S
    BY <1>2, <1>3, Inductive
  <1>5. Len(toks) + 1 - r.i \in Nat
    BY DEF RunStates, Words
  <1> QED BY <1>1, <1>4, <1>5 DEF S

\* A run that is one takes at least a word, and only numerals.
RunTakes(c, toks, i, s) ==
    s.ok => /\ s.end \in (i + 1) .. (Len(toks) + 1) /\ s.value \in Int
            /\ \A q \in i .. (s.end - 1) : toks[q] \in Numerals(In(c)!T)

\* A run at its beginning.
Begun(i, seed, seeded) ==
    [i |-> i, total |-> 0, cur |-> seed, started |-> seeded, ones |-> seeded,
     tens |-> FALSE, hund |-> FALSE, half |-> FALSE, done |-> FALSE]

LEMMA RunTakesWords ==
    ASSUME NEW c \in DOMAIN Packs, NEW toks \in Words, NEW i \in Nat, i <= Len(toks) + 1,
           NEW seed \in Int, NEW seeded \in BOOLEAN
    PROVE  RunTakes(c, toks, i, In(c)!parseRunFrom(toks, i, seed, seeded))
  <1> DEFINE r == Begun(i, seed, seeded)
             a == In(c)!Run(toks, r)
  <1>1. r \in RunsFrom(c, toks, i, seeded) /\ r.i = i
    BY DEF RunsFrom, RunStates, Begun
  <1>3. In(c)!parseRunFrom(toks, i, seed, seeded) = In(c)!RunResult(a, i, seeded)
    BY DEF In!parseRunFrom, Begun
  <1> HIDE DEF r
  <1>2. a \in RunsFrom(c, toks, i, seeded)
    BY <1>1, RunStays
  <1> HIDE DEF a
  <1>4. /\ a.i \in Nat /\ i <= a.i /\ a.i <= Len(toks) + 1 /\ (a.started => seeded \/ a.i > i)
        /\ \A q \in i .. (a.i - 1) : toks[q] \in Numerals(In(c)!T)
        /\ a.total + a.cur \in Int
    BY <1>2 DEF RunsFrom, RunStates
  <1>5. Len(toks) \in Nat
    BY DEF Words
  <1>6. CASE ~ a.started \/ (seeded /\ a.i = i)
    BY <1>3, <1>6 DEF In!RunResult, In!NoRun, RunTakes
  <1>7. CASE ~ (~ a.started \/ (seeded /\ a.i = i))
    <2>1. a.i > i
      BY <1>4, <1>7
    <2>2. In(c)!RunResult(a, i, seeded).end = a.i /\ In(c)!RunResult(a, i, seeded).value = a.total + a.cur
      BY <1>7 DEF In!RunResult
    <2>3. a.i \in (i + 1) .. (Len(toks) + 1)
      BY <1>4, <1>5, <2>1
    <2> QED BY <1>3, <1>4, <2>2, <2>3 DEF RunTakes
  <1> QED BY <1>6, <1>7

LEMMA RunParsed ==
    ASSUME NEW c \in DOMAIN Packs, NEW toks \in Words, NEW i \in Nat, i <= Len(toks) + 1
    PROVE  RunTakes(c, toks, i, In(c)!parseRun(toks, i))
  <1>1. In(c)!parseRun(toks, i) = In(c)!parseRunFrom(toks, i, 0, FALSE)
    BY DEF In!parseRun
  <1>2. 0 \in Int /\ FALSE \in BOOLEAN
    OBVIOUS
  <1> QED BY <1>1, <1>2, RunTakesWords

\* What is heard at i.
HeardIn(c, toks, i) == In(c)!HeardAt(toks, i, In(c)!VagueAt(toks, i))

\* A number heard at i begins there, and is made of number words; the words from
\* its mark on are of phrases of approximation.
NumberAt(c, toks, i, x) ==
    /\ x.start = i /\ x.end \in (i + 1) .. (Len(toks) + 1)
    /\ x.mark \in Int /\ x.mark <= i /\ (i > 0 => x.mark > 0)
    /\ x.value \in Int
    /\ \A q \in i .. (x.end - 1) : toks[q] \in NumberWords(In(c)!T)
    /\ \A q \in x.mark .. (i - 1) : toks[q] \in WordsOf(In(c)!T.approxSet)

\* The words of a phrase that is there.
LEMMA PhraseWords ==
    ASSUME NEW c, NEW phrases \in SUBSET (Words \ {<<>>}), NEW toks \in Words, NEW i \in Nat,
           In(c)!MatchAt(phrases, toks, i) > 0
    PROVE  \A q \in i .. (i + In(c)!MatchAt(phrases, toks, i) - 1) : toks[q] \in WordsOf(phrases)
  <1> DEFINE n == In(c)!MatchAt(phrases, toks, i)
             ph == SubSeq(toks, i, i + n - 1)
  <1>1. n \in Nat /\ n > 0 /\ ph \in phrases /\ Len(ph) = n
        /\ \A k \in 1 .. n : ph[k] = toks[i + k - 1]
    BY Matched
  <1>2. ph \in Words
    BY <1>1
  <1> HIDE DEF n, ph
  <1>3. DOMAIN ph = 1 .. n
    BY <1>1, <1>2 DEF Words
  <1>4. ASSUME NEW q \in i .. (i + n - 1)
        PROVE  toks[q] \in WordsOf(phrases)
    <2>1. q - i + 1 \in 1 .. n /\ i + (q - i + 1) - 1 = q
      BY <1>1
    <2>2. toks[q] = ph[q - i + 1] /\ q - i + 1 \in DOMAIN ph
      BY <1>1, <1>3, <2>1
    <2> QED BY <1>1, <2>2 DEF WordsOf
  <1> QED BY <1>4 DEF n

\* The phrase of approximation before i.
LEMMA ApproxBefore ==
    ASSUME NEW c \in DOMAIN Packs, NEW toks \in Words, NEW i \in Nat, i <= Len(toks) + 1
    PROVE  LET m == In(c)!MatchApproxEndingAt(toks, i) IN
           /\ m \in 0 .. 3
           /\ m > 0 => /\ i - m >= 1 /\ In(c)!MatchAt(In(c)!T.approxSet, toks, i - m) = m
           /\ \A n \in 1 .. 3 : i - n >= 1 /\ In(c)!MatchAt(In(c)!T.approxSet, toks, i - n) = n
                                => n <= m
           /\ \A q \in (i - m) .. (i - 1) : toks[q] \in WordsOf(In(c)!T.approxSet)
  <1> DEFINE ns == {n \in 1 .. 3 : i - n >= 1 /\ In(c)!MatchAt(In(c)!T.approxSet, toks, i - n) = n}
             m == In(c)!MatchApproxEndingAt(toks, i)
  <1>1. m = IF ns = {} THEN 0 ELSE CHOOSE n \in ns : \A k \in ns : k <= n
    BY DEF In!MatchApproxEndingAt, In!maxApproxLen
  <1>2. ns # {} => \E n \in ns : \A k \in ns : k <= n
    <2>1. ns \in SUBSET (0 .. 3)
      OBVIOUS
    <2> HIDE DEF ns
    <2> QED BY <2>1, Largest
  <1>3. ns # {} => m \in ns /\ \A k \in ns : k <= m
    <2> HIDE DEF ns
    <2> QED BY <1>1, <1>2
  <1> HIDE DEF m
  <1>4. m \in 0 .. 3 /\ (m > 0 => i - m >= 1 /\ In(c)!MatchAt(In(c)!T.approxSet, toks, i - m) = m)
    BY <1>1, <1>3
  <1>5. \A n \in 1 .. 3 : i - n >= 1 /\ In(c)!MatchAt(In(c)!T.approxSet, toks, i - n) = n => n <= m
    BY <1>3
  <1>6. \A q \in (i - m) .. (i - 1) : toks[q] \in WordsOf(In(c)!T.approxSet)
    <2>1. CASE m = 0
      BY <2>1
    <2>2. CASE m > 0
      <3>1. i - m \in Nat /\ In(c)!T.approxSet \in SUBSET (Words \ {<<>>})
        BY <1>4, <2>2, Tables
      <3>2. In(c)!MatchAt(In(c)!T.approxSet, toks, i - m) > 0
        BY <1>4, <2>2
      <3>3. \A q \in (i - m) .. ((i - m) + In(c)!MatchAt(In(c)!T.approxSet, toks, i - m) - 1) :
               toks[q] \in WordsOf(In(c)!T.approxSet)
        BY <3>1, <3>2, PhraseWords
      <3>4. (i - m) + m - 1 = i - 1
        BY <1>4
      <3> QED BY <1>4, <2>2, <3>3, <3>4
    <2> QED BY <1>4, <2>1, <2>2
  <1> QED BY <1>4, <1>5, <1>6 DEF m

\* The vague phrase at i.
LEMMA VagueFits ==
    ASSUME NEW c \in DOMAIN Packs, NEW toks \in Words, NEW i \in Nat
    PROVE  LET v == In(c)!VagueAt(toks, i) IN
           /\ v.n = In(c)!MatchAt(DOMAIN In(c)!T.vagues, toks, i)
           /\ v.n \in Nat /\ v.value \in Int
           /\ v.n > 0 => /\ i + v.n - 1 <= Len(toks)
                         /\ SubSeq(toks, i, i + v.n - 1) \in DOMAIN In(c)!T.vagues
                         /\ v.value = In(c)!T.vagues[SubSeq(toks, i, i + v.n - 1)]
           /\ \A q \in i .. (i + v.n - 1) : toks[q] \in WordsOf(DOMAIN In(c)!T.vagues)
  <1> DEFINE v == In(c)!VagueAt(toks, i)
             n == In(c)!MatchAt(DOMAIN In(c)!T.vagues, toks, i)
  <1>1. v = [n |-> n, value |-> IF n > 0 THEN In(c)!T.vagues[SubSeq(toks, i, i + n - 1)] ELSE 0]
    BY DEF In!VagueAt
  <1>2. /\ n \in Nat
        /\ n > 0 => i + n - 1 <= Len(toks) /\ SubSeq(toks, i, i + n - 1) \in DOMAIN In(c)!T.vagues
    BY Matched, Tables
  <1>3. n > 0 => \A q \in i .. (i + n - 1) : toks[q] \in WordsOf(DOMAIN In(c)!T.vagues)
    BY PhraseWords, Tables
  <1>4. ~ n > 0 => \A q \in i .. (i + n - 1) : toks[q] \in WordsOf(DOMAIN In(c)!T.vagues)
    BY <1>2
  <1> HIDE DEF n, v
  <1>5. v.n = n /\ v.value = IF n > 0 THEN In(c)!T.vagues[SubSeq(toks, i, i + n - 1)] ELSE 0
    BY <1>1
  <1>6. v.value \in Int
    BY <1>2, <1>5, Tables
  <1>7. v.n = In(c)!MatchAt(DOMAIN In(c)!T.vagues, toks, i)
    BY <1>5 DEF n
  <1> QED BY <1>2, <1>3, <1>4, <1>5, <1>6, <1>7 DEF v

\* What is heard at i is a number that begins there, or nothing.
LEMMA FoundFits ==
    ASSUME NEW c \in DOMAIN Packs, NEW toks \in Words, NEW i \in Nat, i <= Len(toks)
    PROVE  LET found == HeardIn(c, toks, i) IN
           found = <<>> \/ (found = <<found[1]>> /\ NumberAt(c, toks, i, found[1]))
  <1> DEFINE v == In(c)!VagueAt(toks, i)
             run == In(c)!parseRun(toks, i)
             scale == IF v.n > 0 THEN In(c)!VagueScale(toks, i + v.n, v.value) ELSE In(c)!NoRun
             found == HeardIn(c, toks, i)
             m == In(c)!MatchApproxEndingAt(toks, i)
             Takes(end) == /\ end \in (i + 1) .. (Len(toks) + 1)
                           /\ \A q \in i .. (end - 1) : toks[q] \in NumberWords(In(c)!T)
  <1>0. Len(toks) \in Nat
    BY DEF Words
  <1>1. /\ v.n \in Nat /\ v.value \in Int
        /\ v.n > 0 => i + v.n - 1 <= Len(toks)
        /\ \A q \in i .. (i + v.n - 1) : toks[q] \in WordsOf(DOMAIN In(c)!T.vagues)
    BY VagueFits
  <1>2. /\ m \in 0 .. 3 /\ (m > 0 => i - m >= 1)
        /\ \A q \in (i - m) .. (i - 1) : toks[q] \in WordsOf(In(c)!T.approxSet)
    <2>1. i <= Len(toks) + 1
      BY <1>0
    <2> QED BY <2>1, ApproxBefore
  <1>3. \A value, approx, end :
           LET x == In(c)!Number(toks, value, approx, i, end) IN
           /\ x.start = i /\ x.end = end /\ x.mark = i - m /\ x.value = value
    BY DEF In!Number
  <1>4. /\ Numerals(In(c)!T) \subseteq NumberWords(In(c)!T)
        /\ WordsOf(DOMAIN In(c)!T.vagues) \subseteq NumberWords(In(c)!T)
    BY DEF NumberWords
  <1> HIDE DEF v, m
  <1>5. run.ok => Takes(run.end) /\ run.value \in Int
    <2>1. RunTakes(c, toks, i, run)
      <3>1. i <= Len(toks) + 1
        BY <1>0
      <3> QED BY <3>1, RunParsed
    <2> QED BY <1>4, <2>1 DEF RunTakes
  <1>6. scale.ok => Takes(scale.end) /\ scale.value \in Int
    <2>1. CASE v.n > 0
      <3> DEFINE j == i + v.n
      <3>1. j \in Nat /\ j <= Len(toks) + 1 /\ j >= i
        BY <1>0, <1>1, <2>1
      <3>2. scale = In(c)!VagueScale(toks, j, v.value)
        BY <2>1
      <3>3. \A q \in i .. (j - 1) : toks[q] \in NumberWords(In(c)!T)
        BY <1>1, <1>4
      <3> HIDE DEF j, scale
      <3>4. \A s \in {In(c)!parseRunFrom(toks, j, v.value, TRUE), In(c)!parseRun(toks, j)} :
               RunTakes(c, toks, j, s)
        BY <1>1, <3>1, RunTakesWords, RunParsed
      <3>5. \/ scale = In(c)!NoRun
            \/ scale \in {In(c)!parseRunFrom(toks, j, v.value, TRUE), In(c)!parseRun(toks, j)}
        BY <3>2 DEF In!VagueScale
      <3>6. ~ In(c)!NoRun.ok
        BY DEF In!NoRun
      <3>7. scale.ok => RunTakes(c, toks, j, scale)
        BY <3>4, <3>5, <3>6
      <3>8. ASSUME scale.ok
            PROVE  Takes(scale.end) /\ scale.value \in Int
        <4>1. /\ scale.end \in (j + 1) .. (Len(toks) + 1) /\ scale.value \in Int
              /\ \A q \in j .. (scale.end - 1) : toks[q] \in NumberWords(In(c)!T)
          BY <1>4, <3>7, <3>8 DEF RunTakes
        <4>2. \A q \in i .. (scale.end - 1) : q \in i .. (j - 1) \/ q \in j .. (scale.end - 1)
          BY <3>1, <4>1
        <4> QED BY <1>0, <3>1, <3>3, <4>1, <4>2
      <3> QED BY <3>8
    <2>2. CASE ~ v.n > 0
      BY <2>2 DEF In!NoRun
    <2> QED BY <2>1, <2>2
  <1>7. v.n > 0 => Takes(i + v.n)
    BY <1>0, <1>1, <1>4
  <1>8. found = In(c)!Heard(toks, i, v, scale, run)
    BY DEF In!HeardAt, HeardIn, v
  <1>9. In(c)!NaN \in Int
    BY DEF In!NaN
  <1> HIDE DEF scale, run, found, Takes
  <1>10. \/ found = <<>>
         \/ \E value \in Int : \E approx, end :
              Takes(end) /\ found = <<In(c)!Number(toks, value, approx, i, end)>>
    <2>1. CASE scale.ok
      <3> DEFINE value == IF v.value = In(c)!NaN THEN In(c)!NaN ELSE scale.value
      <3>1. found = <<In(c)!Number(toks, value, TRUE, i, scale.end)>>
        BY <1>8, <2>1 DEF In!Heard
      <3>2. value \in Int
        BY <1>6, <1>9, <2>1
      <3> HIDE DEF value
      <3> QED BY <1>6, <2>1, <3>1, <3>2
    <2>2. CASE ~ scale.ok /\ v.n > 0 /\ ~ In(c)!startsNumber(toks, i + v.n)
      <3>1. found = <<In(c)!Number(toks, v.value, TRUE, i, i + v.n)>>
        BY <1>8, <2>2 DEF In!Heard
      <3> QED BY <1>1, <1>7, <2>2, <3>1
    <2>3. CASE ~ scale.ok /\ ~ (v.n > 0 /\ ~ In(c)!startsNumber(toks, i + v.n))
      <3>1. found = IF run.ok THEN <<In(c)!Number(toks, run.value, FALSE, i, run.end)>> ELSE <<>>
        BY <1>8, <2>3 DEF In!Heard
      <3> QED BY <1>5, <3>1
    <2> QED BY <2>1, <2>2, <2>3
  <1>11. ASSUME found # <<>>
         PROVE  found = <<found[1]>> /\ NumberAt(c, toks, i, found[1])
    <2>1. PICK value \in Int : \E approx, end :
              Takes(end) /\ found = <<In(c)!Number(toks, value, approx, i, end)>>
      BY <1>10, <1>11
    <2>2. PICK approx, end : Takes(end) /\ found = <<In(c)!Number(toks, value, approx, i, end)>>
      BY <2>1
    <2> DEFINE x == In(c)!Number(toks, value, approx, i, end)
    <2>3. found[1] = x /\ found = <<x>>
      BY <2>2
    <2>4. x.start = i /\ x.end = end /\ x.mark = i - m /\ x.value = value
      BY <1>3
    <2> HIDE DEF x
    <2>5. i - m \in Int /\ i - m <= i /\ (i > 0 => i - m > 0)
      BY <1>2
    <2>6. NumberAt(c, toks, i, x)
      BY <1>2, <2>2, <2>4, <2>5 DEF NumberAt, Takes
    <2> QED BY <2>3, <2>6
  <1> QED BY <1>11 DEF found


\* The words of English.
LEMMA OfEnglish ==
    /\ "en" \in DOMAIN Packs
    /\ En!T = In("en")!T
    /\ \A phrases, toks, i : En!MatchAt(phrases, toks, i) = In("en")!MatchAt(phrases, toks, i)
    /\ \A toks : En!ScanNumbers(toks) = In("en")!ScanNumbers(toks)
  <1>1. "en" \in DOMAIN Packs
    BY PacksAssumption
  <1>2. En!T = In("en")!T
    BY DEF En!T, In!T
  <1>3. \A phrases, toks, i : En!MatchAt(phrases, toks, i) = In("en")!MatchAt(phrases, toks, i)
    BY DEF En!MatchAt, In!MatchAt
  <1>4. /\ \A toks, i : En!At(toks, i) = In("en")!At(toks, i)
        /\ \A n : En!OneOr(n) = In("en")!OneOr(n)
        /\ En!Digits = In("en")!Digits /\ En!NoRun = In("en")!NoRun /\ En!NaN = In("en")!NaN
    BY DEF En!At, In!At, En!OneOr, In!OneOr, En!Digits, In!Digits, En!NoRun, In!NoRun, En!NaN, In!NaN
  <1>5. /\ \A toks, i : En!startsScale(toks, i) = In("en")!startsScale(toks, i)
        /\ En!Small = In("en")!Small
        /\ \A r, w : En!Fits(r, w) = In("en")!Fits(r, w)
        /\ \A toks, i : En!HalfDozen(toks, i) = In("en")!HalfDozen(toks, i)
    BY <1>2, <1>4, Zenon DEF En!startsScale, In!startsScale, En!Small, In!Small, En!Fits, In!Fits, En!HalfDozen, In!HalfDozen
  <1>6. \A toks, r : En!RunStep(toks, r) = In("en")!RunStep(toks, r)
    <2> SUFFICES ASSUME NEW toks, NEW r
                 PROVE  En!RunStep(toks, r) = In("en")!RunStep(toks, r)
      OBVIOUS
    <2>1. /\ En!HalfDozen(toks, r.i) = In("en")!HalfDozen(toks, r.i)
          /\ En!startsScale(toks, r.i + 1) = In("en")!startsScale(toks, r.i + 1)
          /\ En!Fits(r, toks[r.i]) = In("en")!Fits(r, toks[r.i])
          /\ En!OneOr(r.cur) = In("en")!OneOr(r.cur)
          /\ En!At(toks, r.i + 1) = In("en")!At(toks, r.i + 1)
      BY <1>4, <1>5
    <2> QED BY <1>2, <1>4, <1>5, <2>1 DEF En!RunStep, In!RunStep
  <1>7. \A toks, r : En!Run(toks, r) = In("en")!Run(toks, r)
    BY <1>6, ZenonT(40) DEF En!Run, In!Run, En!Step, In!Step
  <1>8. ASSUME NEW toks
        PROVE  En!ScanNumbers(toks) = In("en")!ScanNumbers(toks)
    <2>1. \A t, i : En!VagueAt(t, i) = In("en")!VagueAt(t, i)
      BY <1>2, <1>3, Zenon DEF En!VagueAt, In!VagueAt
    <2>2. \A t, i, s, b : En!parseRunFrom(t, i, s, b) = In("en")!parseRunFrom(t, i, s, b)
      <3>1. \A r, i, b : En!RunResult(r, i, b) = In("en")!RunResult(r, i, b)
        BY <1>4, Zenon DEF En!RunResult, In!RunResult
      <3> QED BY <1>7, <3>1, Zenon DEF En!parseRunFrom, In!parseRunFrom
    <2>3. \A t, i : En!parseRun(t, i) = In("en")!parseRun(t, i)
      BY <2>2, Zenon DEF En!parseRun, In!parseRun
    <2>4. \A t, i, v : En!VagueScale(t, i, v) = In("en")!VagueScale(t, i, v)
      BY <1>4, <1>5, <2>2, <2>3, Zenon DEF En!VagueScale, In!VagueScale
    <2>5. \A t, i : En!MatchApproxEndingAt(t, i) = In("en")!MatchApproxEndingAt(t, i)
      BY <1>2, <1>3 DEF En!MatchApproxEndingAt, In!MatchApproxEndingAt, En!maxApproxLen, In!maxApproxLen
    <2>6. \A t, v, a, i, e : En!Number(t, v, a, i, e) = In("en")!Number(t, v, a, i, e)
      BY <1>4, <2>5, Zenon DEF En!Number, In!Number
    <2>7. \A t, i : En!startsNumber(t, i) = In("en")!startsNumber(t, i)
      BY <1>4, <1>5, Zenon DEF En!startsNumber, In!startsNumber
    <2>8. \A t, i, v, x, y : En!Heard(t, i, v, x, y) = In("en")!Heard(t, i, v, x, y)
      <3> SUFFICES ASSUME NEW t, NEW i, NEW v, NEW x, NEW y
                   PROVE  En!Heard(t, i, v, x, y) = In("en")!Heard(t, i, v, x, y)
        OBVIOUS
      <3>1. En!startsNumber(t, i + v.n) = In("en")!startsNumber(t, i + v.n)
        BY <2>7
      <3> QED BY <1>4, <2>6, <3>1 DEF En!Heard, In!Heard
    <2>9. \A t, i, v : En!HeardAt(t, i, v) = In("en")!HeardAt(t, i, v)
      BY <1>4, <2>3, <2>4, <2>8, Zenon DEF En!HeardAt, In!HeardAt
    <2>10. \A f, i, x : En!ScanOn(f, i, x) = In("en")!ScanOn(f, i, x)
      BY Zenon DEF En!ScanOn, In!ScanOn
    <2> QED BY <2>1, <2>9, <2>10, Zenon DEF En!ScanNumbers, In!ScanNumbers
  <1> QED BY <1>1, <1>2, <1>3, <1>8


-----------------------------------------------------------------------------
(* The numbers of an utterance. *)

\* What is heard anywhere.
Founds(c, toks) == {HeardIn(c, toks, i)[1] : i \in Nat}

\* scan[i] is the sequence of the numbers from i on.
Scans(c, toks, scan) ==
    \A i \in Nat :
        scan[i] = IF i > Len(toks) THEN <<>>
                  ELSE IF HeardIn(c, toks, i) = <<>> THEN scan[i + 1]
                  ELSE <<HeardIn(c, toks, i)[1]>> \o scan[HeardIn(c, toks, i)[1].end]

LEMMA ScanSequence ==
    ASSUME NEW c \in DOMAIN Packs, NEW toks \in Words
    PROVE  \E scan \in [Nat -> Seq(Founds(c, toks))] :
              Scans(c, toks, scan) /\ In(c)!ScanNumbers(toks) = scan[1]
  <1> DEFINE n == Len(toks)
             found(i) == HeardIn(c, toks, i)
             V == Seq(Founds(c, toks))
             next == [i \in Nat |-> IF i > n \/ found(i) = <<>> THEN i + 1 ELSE found(i)[1].end]
             G == [x \in Nat \X V |->
                     IF x[1] > n \/ found(x[1]) = <<>> THEN x[2] ELSE <<found(x[1])[1]>> \o x[2]]
             Is(f) == f = [i \in Nat |-> IF i > n THEN <<>> ELSE In(c)!ScanOn(f, i, found(i))]
             scan == CHOOSE f : Is(f)
  <1>1. n \in Nat
    BY DEF Words
  <1>2. ASSUME NEW i \in Nat, i <= n, found(i) # <<>>
        PROVE  found(i) = <<found(i)[1]>> /\ found(i)[1].end \in (i + 1) .. (n + 1)
    <2>1. found(i) = <<found(i)[1]>> /\ NumberAt(c, toks, i, found(i)[1])
      BY <1>2, FoundFits
    <2> QED BY <2>1 DEF NumberAt
  <1>3. \A i \in Nat : found(i)[1] \in Founds(c, toks)
    BY DEF Founds
  <1>4. In(c)!ScanNumbers(toks) = scan[1]
    BY DEF In!ScanNumbers, HeardIn
  <1>5. \A i \in Nat : next[i] = IF i > n \/ found(i) = <<>> THEN i + 1 ELSE found(i)[1].end
    OBVIOUS
  <1>6. next \in [Nat -> Nat] /\ \A i \in Nat : next[i] > i
    <2>1. ASSUME NEW i \in Nat
          PROVE  next[i] \in Nat /\ next[i] > i
      <3> HIDE DEF next, found
      <3>1. CASE i > n \/ found(i) = <<>>
        BY <1>5, <3>1
      <3>2. CASE ~ (i > n \/ found(i) = <<>>)
        <4>1. found(i)[1].end \in (i + 1) .. (n + 1) /\ next[i] = found(i)[1].end
          BY <1>1, <1>2, <1>5, <3>2
        <4> QED BY <1>1, <4>1
      <3> QED BY <3>1, <3>2
    <2>2. next = [i \in Nat |-> next[i]]
      OBVIOUS
    <2> HIDE DEF next
    <2> QED BY <2>1, <2>2
  <1>7. G \in [Nat \X V -> V]
    <2>1. \A i \in Nat, s \in V : <<found(i)[1]>> \o s \in V
      BY <1>3, Prepended
    <2> HIDE DEF V, found
    <2> QED BY <2>1
  <1>8. <<>> \in V
    OBVIOUS
  <1>9. \A i \in Nat, s \in V : G[<<i, s>>] = IF i > n \/ found(i) = <<>> THEN s
                                                ELSE <<found(i)[1]>> \o s
    OBVIOUS
  <1> HIDE DEF V, G, next, found, n
  <1>10. PICK f \in [Nat -> V] : Walks(f, n, next, G)
    BY <1>1, <1>6, <1>7, <1>8, WalkExists
  <1>11. \A i \in Nat : f[i] = IF i > n THEN <<>> ELSE IF found(i) = <<>> THEN f[i + 1]
                               ELSE <<found(i)[1]>> \o f[found(i)[1].end]
    <2> SUFFICES ASSUME NEW i \in Nat
                 PROVE  f[i] = IF i > n THEN <<>> ELSE IF found(i) = <<>> THEN f[i + 1]
                               ELSE <<found(i)[1]>> \o f[found(i)[1].end]
      OBVIOUS
    <2>1. f[i] = IF i > n THEN <<>> ELSE G[<<i, f[next[i]]>>]
      BY <1>10 DEF Walks
    <2>2. f[next[i]] \in V
      BY <1>6
    <2>3. G[<<i, f[next[i]]>>] = IF i > n \/ found(i) = <<>> THEN f[next[i]]
                                 ELSE <<found(i)[1]>> \o f[next[i]]
      BY <1>9, <2>2
    <2> QED BY <1>5, <2>1, <2>3
  <1>12. \A g : \A i \in Nat : i <= n =>
            In(c)!ScanOn(g, i, found(i)) = IF found(i) = <<>> THEN g[i + 1]
                                           ELSE <<found(i)[1]>> \o g[found(i)[1].end]
    <2> SUFFICES ASSUME NEW g, NEW i \in Nat, i <= n
                 PROVE  In(c)!ScanOn(g, i, found(i)) = IF found(i) = <<>> THEN g[i + 1]
                                                       ELSE <<found(i)[1]>> \o g[found(i)[1].end]
      OBVIOUS
    <2>1. CASE found(i) = <<>>
      BY <2>1 DEF In!ScanOn
    <2>2. CASE found(i) # <<>>
      <3>1. found(i) = <<found(i)[1]>>
        BY <1>2, <2>2
      <3>2. In(c)!ScanOn(g, i, found(i)) = found(i) \o g[found(i)[1].end]
        BY <2>2 DEF In!ScanOn
      <3> QED BY <2>2, <3>1, <3>2, Zenon
    <2> QED BY <2>1, <2>2
  <1>13. Is(f)
    <2>1. \A i \in Nat : ~ i > n => i <= n
      BY <1>1
    <2>2. \A i \in Nat : f[i] = IF i > n THEN <<>> ELSE In(c)!ScanOn(f, i, found(i))
      BY <1>11, <1>12, <2>1, Zenon
    <2> QED BY <1>10, <2>2
  <1>14. Is(scan)
    <2> HIDE DEF Is
    <2> QED BY <1>13
  <1> DEFINE More(g, i) == IF found(i) = <<>> THEN g[i + 1] ELSE <<found(i)[1]>> \o g[found(i)[1].end]
  <1>15. \A i \in Nat : scan[i] = IF i > n THEN <<>> ELSE More(scan, i)
    <2> HIDE DEF scan
    <2>1. \A i \in Nat : ~ i > n => i <= n
      BY <1>1
    <2>2. \A i \in Nat : scan[i] = IF i > n THEN <<>> ELSE In(c)!ScanOn(scan, i, found(i))
      BY <1>14
    <2> QED BY <1>12, <2>1, <2>2, Zenon
  <1>16. scan \in [Nat -> V]
    <2>0. scan = [i \in Nat |-> scan[i]]
      <3> HIDE DEF scan
      <3>1. scan = [i \in Nat |-> IF i > n THEN <<>> ELSE In(c)!ScanOn(scan, i, found(i))]
        BY <1>14
      <3> QED BY <3>1
    <2> HIDE DEF scan
    <2>1. \A i \in Nat : i > n => scan[i] \in V
      BY <1>8, <1>15
    <2>2. ASSUME NEW i \in Nat, i <= n, \A j \in Nat : j > i => scan[j] \in V
          PROVE  scan[i] \in V
      <3>1. ~ i > n /\ scan[i] = More(scan, i)
        BY <1>1, <1>15, <2>2
      <3>2. CASE found(i) = <<>>
        BY <2>2, <3>1, <3>2
      <3>3. CASE found(i) # <<>>
        <4>1. found(i)[1].end \in (i + 1) .. (n + 1)
          BY <1>2, <2>2, <3>3
        <4>2. found(i)[1].end \in Nat /\ found(i)[1].end > i
          BY <1>1, <4>1
        <4>3. scan[found(i)[1].end] \in V
          BY <2>2, <4>2
        <4>4. <<found(i)[1]>> \o scan[found(i)[1].end] \in V
          BY <1>3, <4>3, Prepended DEF V
        <4> QED BY <3>1, <3>3, <4>4
      <3> QED BY <3>2, <3>3
    <2>3. \A i \in Nat \ {0} : scan[i] \in V
      <3>1. \A i \in 1 .. n : (\A j \in Nat : j > i => scan[j] \in V) => scan[i] \in V
        BY <1>1, <2>2
      <3> QED BY <1>1, <2>1, <3>1, Downward
    <2>4. scan[0] \in V
      <3>1. \A j \in Nat : j > 0 => scan[j] \in V
        BY <2>3
      <3> QED BY <1>1, <2>2, <3>1
    <2>5. \A i \in Nat : scan[i] \in V
      BY <2>3, <2>4
    <2> QED BY <2>0, <2>5
  <1>17. Scans(c, toks, scan)
    BY <1>15 DEF Scans, found, n
  <1> QED BY <1>4, <1>16, <1>17 DEF V

\* The numbers s from i on: each is heard at its own start, and what is heard
\* anywhere from i on has its place in one of them.
AllHeard(c, toks, i, s) ==
    /\ \A k \in DOMAIN s : /\ s[k].start \in i .. Len(toks)
                           /\ HeardIn(c, toks, s[k].start) = <<s[k]>>
    /\ \A j \in i .. Len(toks) : HeardIn(c, toks, j) # <<>> =>
          \E k \in DOMAIN s : j \in s[k].start .. (s[k].end - 1)

LEMMA NoneHeard ==
    ASSUME NEW c, NEW toks \in Words, NEW i \in Nat, i > Len(toks)
    PROVE  AllHeard(c, toks, i, <<>>)
  <1>1. Len(toks) \in Nat /\ DOMAIN <<>> = {}
    BY DEF Words
  <1>2. i .. Len(toks) = {}
    BY <1>1
  <1> QED BY <1>1, <1>2 DEF AllHeard

LEMMA HeardBefore ==
    ASSUME NEW c \in DOMAIN Packs, NEW toks \in Words, NEW i \in 1 .. Len(toks),
           HeardIn(c, toks, i) # <<>>, NEW X, NEW s \in Seq(X), HeardIn(c, toks, i)[1] \in X,
           AllHeard(c, toks, HeardIn(c, toks, i)[1].end, s)
    PROVE  AllHeard(c, toks, i, <<HeardIn(c, toks, i)[1]>> \o s)
  <1> DEFINE x == HeardIn(c, toks, i)[1]
             t == <<x>> \o s
  <1>1. HeardIn(c, toks, i) = <<x>> /\ x.start = i /\ x.end \in (i + 1) .. (Len(toks) + 1)
    <2>1. i \in Nat /\ i <= Len(toks)
      BY DEF Words
    <2>2. HeardIn(c, toks, i) = <<x>> /\ NumberAt(c, toks, i, x)
      BY <2>1, FoundFits
    <2> QED BY <2>2 DEF NumberAt
  <1>2. x \in X /\ Len(s) \in Nat /\ Len(toks) \in Nat /\ DOMAIN s = 1 .. Len(s)
    BY DEF Words
  <1>3. /\ \A k \in DOMAIN s : /\ s[k].start \in x.end .. Len(toks)
                               /\ HeardIn(c, toks, s[k].start) = <<s[k]>>
        /\ \A j \in x.end .. Len(toks) : HeardIn(c, toks, j) # <<>> =>
              \E k \in DOMAIN s : j \in s[k].start .. (s[k].end - 1)
    BY DEF AllHeard
  <1> HIDE DEF x
  <1>4. /\ DOMAIN t = 1 .. (Len(s) + 1) /\ t[1] = x
        /\ \A k \in 1 .. Len(s) : t[k + 1] = s[k]
    BY <1>2
  <1> HIDE DEF t
  <1>5. ASSUME NEW k \in DOMAIN t
        PROVE  t[k].start \in i .. Len(toks) /\ HeardIn(c, toks, t[k].start) = <<t[k]>>
    <2>1. CASE k = 1
      BY <1>1, <1>2, <1>4, <2>1
    <2>2. CASE k # 1
      <3>1. k - 1 \in 1 .. Len(s) /\ (k - 1) + 1 = k
        BY <1>2, <1>4, <2>2
      <3>2. t[k] = s[k - 1] /\ k - 1 \in DOMAIN s
        BY <1>2, <1>4, <3>1
      <3> QED BY <1>1, <1>3, <3>2
    <2> QED BY <2>1, <2>2
  <1>6. ASSUME NEW j \in i .. Len(toks), HeardIn(c, toks, j) # <<>>
        PROVE  \E k \in DOMAIN t : j \in t[k].start .. (t[k].end - 1)
    <2>1. CASE j < x.end
      <3>1. 1 \in DOMAIN t /\ t[1] = x
        BY <1>2, <1>4
      <3>2. j \in x.start .. (x.end - 1)
        BY <1>1, <1>2, <2>1
      <3> QED BY <3>1, <3>2
    <2>2. CASE ~ j < x.end
      <3>1. j \in x.end .. Len(toks)
        BY <1>1, <1>2, <2>2
      <3>2. PICK k \in DOMAIN s : j \in s[k].start .. (s[k].end - 1)
        BY <1>3, <1>6, <3>1
      <3>3. k + 1 \in DOMAIN t /\ t[k + 1] = s[k]
        BY <1>2, <1>4
      <3> QED BY <3>2, <3>3
    <2> QED BY <2>1, <2>2
  <1> QED BY <1>5, <1>6 DEF AllHeard, t, x

LEMMA Scanned ==
    ASSUME NEW c \in DOMAIN Packs, NEW toks \in Words
    PROVE  /\ In(c)!ScanNumbers(toks) \in Seq(Founds(c, toks))
           /\ AllHeard(c, toks, 1, In(c)!ScanNumbers(toks))
  <1> DEFINE n == Len(toks)
             X == Founds(c, toks)
             W == {x \in Nat \X Seq(X) : AllHeard(c, toks, x[1], x[2])}
  <1>1. PICK scan \in [Nat -> Seq(X)] : Scans(c, toks, scan) /\ In(c)!ScanNumbers(toks) = scan[1]
    BY ScanSequence
  <1> DEFINE f == [i \in Nat |-> <<i, scan[i]>>]
  <1>2. n \in Nat
    BY DEF Words
  <1>3. \A i \in Nat : f[i] \in W <=> AllHeard(c, toks, i, scan[i])
    OBVIOUS
  <1> HIDE DEF f, W
  <1>4. ASSUME NEW i \in Nat, i > n
        PROVE  f[i] \in W
    BY <1>1, <1>2, <1>3, <1>4, NoneHeard DEF Scans
  <1>5. ASSUME NEW i \in 1 .. n, \A j \in Nat : j > i => f[j] \in W
        PROVE  f[i] \in W
    <2>1. i \in Nat /\ i + 1 \in Nat /\ i + 1 > i /\ ~ i > n
      BY <1>2
    <2>2. CASE HeardIn(c, toks, i) = <<>>
      <3>1. AllHeard(c, toks, i + 1, scan[i + 1]) /\ scan[i] = scan[i + 1]
        BY <1>1, <1>3, <1>5, <2>1, <2>2 DEF Scans
      <3>2. \A j \in i .. n : j = i \/ j \in (i + 1) .. n
        BY <1>2
      <3>3. \A j \in (i + 1) .. n : j \in i .. n
        BY <1>2
      <3>4. AllHeard(c, toks, i, scan[i])
        BY <2>2, <3>1, <3>2, <3>3 DEF AllHeard
      <3> QED BY <1>3, <2>1, <3>4
    <2>3. CASE HeardIn(c, toks, i) # <<>>
      <3> DEFINE x == HeardIn(c, toks, i)[1]
      <3>1. x.end \in (i + 1) .. (n + 1)
        <4>1. NumberAt(c, toks, i, x)
          BY <1>2, <2>1, <2>3, FoundFits
        <4> QED BY <4>1 DEF NumberAt
      <3>2. x.end \in Nat /\ x.end > i
        <4> HIDE DEF x, n
        <4> QED BY <1>2, <2>1, <3>1
      <3>3. scan[i] = <<x>> \o scan[x.end]
        BY <1>1, <2>1, <2>3 DEF Scans
      <3>4. AllHeard(c, toks, x.end, scan[x.end]) /\ x \in X
        BY <1>3, <1>5, <2>1, <3>2 DEF Founds
      <3>5. scan[x.end] \in Seq(X)
        BY <3>2
      <3>6. AllHeard(c, toks, i, scan[i])
        <4> HIDE DEF X, n
        <4> QED BY <2>3, <3>3, <3>4, <3>5, HeardBefore DEF n
      <3> QED BY <1>3, <2>1, <3>6
    <2> QED BY <2>2, <2>3
  <1>6. \A i \in Nat \ {0} : f[i] \in W
    BY <1>2, <1>4, <1>5, Downward
  <1>7. AllHeard(c, toks, 1, scan[1])
    BY <1>3, <1>6
  <1> QED BY <1>1, <1>7

\* A number has a word, within the utterance, and its mark is not behind it.
NumberFits(x, n) ==
    /\ x.start \in 1 .. n /\ x.end \in (x.start + 1) .. (n + 1)
    /\ x.mark \in 1 .. x.start

\* The numbers of an utterance.
LEMMA NumbersFit ==
    ASSUME NEW c \in DOMAIN Packs, NEW toks \in Words, NEW k \in DOMAIN In(c)!ScanNumbers(toks)
    PROVE  LET x == In(c)!ScanNumbers(toks)[k] IN
           /\ k \in Nat \ {0}
           /\ NumberFits(x, Len(toks))
           /\ NumberAt(c, toks, x.start, x)
           /\ HeardIn(c, toks, x.start) = <<x>>
  <1> DEFINE x == In(c)!ScanNumbers(toks)[k]
  <1>1. /\ x.start \in 1 .. Len(toks) /\ HeardIn(c, toks, x.start) = <<x>> /\ k \in Nat \ {0}
    BY Scanned DEF AllHeard
  <1> HIDE DEF x
  <1>2. Len(toks) \in Nat /\ x.start \in Nat /\ x.start <= Len(toks) /\ x.start > 0
    BY <1>1 DEF Words
  <1>3. NumberAt(c, toks, x.start, x)
    <2>1. HeardIn(c, toks, x.start) # <<>> /\ HeardIn(c, toks, x.start)[1] = x
      BY <1>1
    <2> QED BY <1>2, <2>1, FoundFits
  <1>4. NumberFits(x, Len(toks))
    BY <1>2, <1>3 DEF NumberAt, NumberFits
  <1> QED BY <1>1, <1>3, <1>4 DEF x

-----------------------------------------------------------------------------
(* The tables of English: what begins a location, what begins a correction. *)

Starts == En!T.LocationPreps \cup En!T.LocationNouns
Openers == {p[1] : p \in En!T.negationSet}

LEMMA EnglishTables ==
    /\ En!T = Packs["en"] /\ En!T = In("en")!T /\ "en" \in DOMAIN Packs
    /\ DOMAIN En!T.vagues \subseteq Words \ {<<>>} /\ En!T.negationSet \subseteq Words \ {<<>>}
    /\ En!T.approxSet \subseteq Words \ {<<>>}
    /\ En!T.Of \cap Starts = {} /\ En!T.Of \cap Openers = {}
    /\ \A p \in En!T.negationSet : \A k \in 2 .. Len(p) : p[k] \notin Starts
  <1>1. "en" \in DOMAIN Packs /\ En!T = Packs["en"]
    BY PacksAssumption DEF En!T
  <1>2. En!T = In("en")!T
    BY OfEnglish
  <1> QED BY <1>1, <1>2, PacksAssumption DEF Words, Starts, Openers

\* A phrase that is matched is there.
LEMMA EnglishMatched ==
    ASSUME NEW phrases \in SUBSET (Words \ {<<>>}), NEW toks \in Words, NEW i \in Nat
    PROVE  LET n == En!MatchAt(phrases, toks, i)
           IN  /\ n \in Nat
               /\ n > 0 => /\ i + n - 1 <= Len(toks)
                           /\ SubSeq(toks, i, i + n - 1) \in phrases
                           /\ Len(SubSeq(toks, i, i + n - 1)) = n
                           /\ \A k \in 1 .. n : SubSeq(toks, i, i + n - 1)[k] = toks[i + k - 1]
  BY OfEnglish, Matched

-----------------------------------------------------------------------------
(* Positions in a parse. *)

Tokens == Seq([w : STRING, end : BOOLEAN])

\* The parse of some words.
ParseFits(p) ==
    /\ p.n \in Nat /\ p.w \in Words /\ Len(p.w) = p.n
    /\ p.nums = In("en")!ScanNumbers(p.w)

LEMMA NewParseFits ==
    ASSUME NEW toks \in Tokens
    PROVE  ParseFits(En!newParse(toks)) /\ En!newParse(toks).n = Len(toks)
  <1> DEFINE p == En!newParse(toks)
             w == En!foldsOf(toks)
  <1>1. w \in Words /\ Len(w) = Len(toks) /\ Len(toks) \in Nat
    <2> DEFINE Token == [w : STRING, end : BOOLEAN]
    <2>0. toks \in Seq(Token) /\ \A t \in Token : t.w \in STRING
      BY DEF Tokens
    <2> HIDE DEF Token
    <2>1. /\ DOMAIN toks = 1 .. Len(toks) /\ Len(toks) \in Nat
          /\ \A i \in 1 .. Len(toks) : toks[i] \in Token
      BY <2>0
    <2>2. w = [i \in 1 .. Len(toks) |-> toks[i].w]
      BY <2>1 DEF En!foldsOf
    <2>3. \A i \in 1 .. Len(toks) : toks[i].w \in STRING
      BY <2>0, <2>1
    <2> HIDE DEF w
    <2> QED BY <2>1, <2>2, <2>3 DEF Words
  <1>2. p.w = w /\ p.n = Len(toks) /\ p.nums = En!ScanNumbers(w)
    BY DEF En!newParse
  <1> HIDE DEF p, w
  <1> QED BY <1>1, <1>2, OfEnglish DEF ParseFits, p

LEMMA MinIn ==
    ASSUME NEW S \in SUBSET Nat, S # {}
    PROVE  En!MinOf(S) \in S /\ En!MinOf(S) \in Nat /\ \A y \in S : En!MinOf(S) <= y
  <1>1. En!MinOf(S) = Smallest(S)
    BY DEF En!MinOf, Smallest
  <1> QED BY <1>1, SmallestIn

LEMMA NumberOfParse ==
    ASSUME NEW p, ParseFits(p), NEW k \in DOMAIN p.nums
    PROVE  /\ NumberFits(p.nums[k], p.n) /\ k \in Nat \ {0}
           /\ NumberAt("en", p.w, p.nums[k].start, p.nums[k])
           /\ HeardIn("en", p.w, p.nums[k].start) = <<p.nums[k]>>
  <1>1. p.nums = In("en")!ScanNumbers(p.w) /\ p.w \in Words /\ Len(p.w) = p.n
    BY DEF ParseFits
  <1> QED BY <1>1, OfEnglish, NumbersFit

LEMMA ClauseEnds ==
    ASSUME NEW p, ParseFits(p), NEW i \in 0 .. p.n
    PROVE  En!clauseEnd(p, i) \in (i + 1) .. (p.n + 1)
  <1> DEFINE S == {j \in (i + 1) .. (p.n + 1) : j = p.n + 1 \/ p.clause[j] # p.clause[i]}
  <1>1. p.n \in Nat
    BY DEF ParseFits
  <1>2. p.n + 1 \in S /\ S \in SUBSET Nat /\ S \subseteq (i + 1) .. (p.n + 1)
    BY <1>1
  <1>3. En!clauseEnd(p, i) = En!MinOf(S)
    BY DEF En!clauseEnd
  <1> HIDE DEF S
  <1>4. En!MinOf(S) \in S
    BY <1>2, MinIn
  <1> QED BY <1>2, <1>3, <1>4

LEMMA PastArticles ==
    ASSUME NEW p, ParseFits(p), NEW i \in 0 .. p.n
    PROVE  /\ En!AfterArticles(p, i) \in (i + 1) .. (p.n + 1)
           /\ \A q \in i .. (En!AfterArticles(p, i) - 1) : p.clause[q] = p.clause[i]
  <1> DEFINE S == {j \in (i + 1) .. (p.n + 1) :
                     j = p.n + 1 \/ ~ (p.w[j] \in En!T.Articles /\ p.clause[j] = p.clause[i])}
  <1>1. p.n \in Nat
    BY DEF ParseFits
  <1>2. p.n + 1 \in S /\ S \in SUBSET Nat /\ S \subseteq (i + 1) .. (p.n + 1)
    BY <1>1
  <1>3. En!AfterArticles(p, i) = En!MinOf(S)
    BY DEF En!AfterArticles
  <1> HIDE DEF S
  <1>4. En!MinOf(S) \in S /\ \A y \in S : En!MinOf(S) <= y
    BY <1>2, MinIn
  <1> DEFINE e == En!AfterArticles(p, i)
  <1>5. e \in (i + 1) .. (p.n + 1) /\ \A y \in S : e <= y
    BY <1>2, <1>3, <1>4
  <1> HIDE DEF e
  <1>6. ASSUME NEW q \in i .. (e - 1)
        PROVE  p.clause[q] = p.clause[i]
    <2>1. CASE q = i
      BY <2>1
    <2>2. CASE q # i
      <3>1. q \in (i + 1) .. (p.n + 1) /\ ~ e <= q /\ q # p.n + 1
        BY <1>1, <1>5, <2>2
      <3> QED BY <1>5, <3>1 DEF S
    <2> QED BY <2>1, <2>2
  <1> QED BY <1>5, <1>6 DEF e

\* Only words "of" are passed.
LEMMA PastOfs ==
    ASSUME NEW p, NEW j \in Nat, NEW end \in Nat
    PROVE  LET q == En!PastOf(p, j, end) IN
           /\ q \in Nat /\ j <= q /\ (j <= end => q <= end) /\ (j >= end => q = j)
           /\ \A k \in j .. (q - 1) : p.w[k] \in En!T.Of
  <1> DEFINE S == {k \in j .. end : k = end \/ p.w[k] \notin En!T.Of}
             q == En!PastOf(p, j, end)
  <1>1. q = IF j >= end THEN j ELSE En!MinOf(S)
    BY DEF En!PastOf
  <1>2. CASE j >= end
    BY <1>1, <1>2
  <1>3. CASE ~ j >= end
    <2>1. end \in S /\ S \in SUBSET Nat /\ S \subseteq j .. end
      BY <1>3
    <2>2. \A k \in j .. end : k \notin S => p.w[k] \in En!T.Of
      OBVIOUS
    <2> HIDE DEF S, q
    <2>3. q \in S /\ q \in Nat /\ \A y \in S : q <= y
      BY <1>1, <1>3, <2>1, MinIn
    <2>4. q \in j .. end
      BY <2>1, <2>3
    <2>5. \A k \in j .. (q - 1) : k \in j .. end /\ k \notin S
      BY <2>3, <2>4
    <2>6. j <= q /\ q <= end
      BY <2>4
    <2>7. \A k \in j .. (q - 1) : p.w[k] \in En!T.Of
      BY <2>2, <2>5
    <2> QED BY <1>3, <2>3, <2>6, <2>7 DEF q
  <1> QED BY <1>2, <1>3

-----------------------------------------------------------------------------
(* Locations: a segment begins with a preposition or an anchor noun. *)

LEMMA ValueEnds ==
    ASSUME NEW p, ParseFits(p), NEW noun \in 0 .. p.n, noun + 1 < En!clauseEnd(p, noun)
    PROVE  LET e == En!ValueEnd(p, noun) IN e = 0 \/ e \in (noun + 2) .. En!clauseEnd(p, noun)
  <1> DEFINE v == noun + 1
             end == En!clauseEnd(p, noun)
             At1(i) == {x.end : x \in {y \in En!intNumSpanAt(p, i) : y.end <= end}}
             e == En!ValueEnd(p, noun)
  <1>1. p.n \in Nat /\ end \in Nat /\ v < end /\ end <= p.n + 1
    BY ClauseEnds DEF ParseFits
  <1>2. ASSUME NEW i \in {v, v + 1}
        PROVE  At1(i) \subseteq (noun + 2) .. end
    <2> SUFFICES ASSUME NEW x \in En!intNumSpanAt(p, i), x.end <= end
                 PROVE  x.end \in (noun + 2) .. end
      OBVIOUS
    <2>1. x \in En!Nums(p) /\ x.start = i
      BY DEF En!intNumSpanAt
    <2>2. PICK k \in DOMAIN p.nums : x = p.nums[k]
      BY <2>1 DEF En!Nums
    <2>3. NumberFits(x, p.n)
      BY <2>2, NumberOfParse
    <2>4. x.end \in (i + 1) .. (p.n + 1)
      BY <2>1, <2>3 DEF NumberFits
    <2> QED BY <1>1, <2>4
  <1>3. ASSUME NEW i \in {v, v + 1}, At1(i) # {}
        PROVE  En!MinOf(At1(i)) \in (noun + 2) .. end
    <2> DEFINE S == At1(i)
    <2>1. S \subseteq (noun + 2) .. end /\ S # {}
      BY <1>2, <1>3
    <2> HIDE DEF S
    <2>2. S \in SUBSET Nat
      BY <2>1
    <2>3. En!MinOf(S) \in S
      BY <2>1, <2>2, MinIn
    <2> QED BY <2>1, <2>3 DEF S
  <1>4. e = CASE p.w[v] \in En!Codes -> v + 1
              [] p.w[v] \in En!Letters -> IF At1(v + 1) = {} THEN v + 1 ELSE En!MinOf(At1(v + 1))
              [] OTHER -> IF At1(v) = {} THEN 0 ELSE En!MinOf(At1(v))
    BY DEF En!ValueEnd
  <1>5. v + 1 \in (noun + 2) .. end
    BY <1>1
  <1> HIDE DEF v, At1, e
  <1>6. e \in {v + 1, 0} \/ \E i \in {v, v + 1} : At1(i) # {} /\ e = En!MinOf(At1(i))
    <2>1. CASE p.w[v] \in En!Codes /\ p.w[v] \in En!Letters
      BY <1>4, <2>1
    <2>2. CASE p.w[v] \in En!Codes /\ p.w[v] \notin En!Letters
      BY <1>4, <2>2
    <2>3. CASE p.w[v] \notin En!Codes /\ p.w[v] \in En!Letters
      BY <1>4, <2>3
    <2>4. CASE p.w[v] \notin En!Codes /\ p.w[v] \notin En!Letters
      BY <1>4, <2>4
    <2> QED BY <2>1, <2>2, <2>3, <2>4
  <1> QED BY <1>3, <1>5, <1>6 DEF e

\* A segment from i on stays in the clause of i.
SegmentFits(p, s, i) ==
    /\ s.start = i /\ s.end \in (i + 1) .. (p.n + 1) /\ p.w[i] \in Starts
    /\ \A q \in i .. (s.end - 1) : p.clause[q] = p.clause[i]

LEMMA InClause ==
    ASSUME NEW p, ParseFits(p), NEW i \in 0 .. p.n
    PROVE  \A q \in i .. (En!clauseEnd(p, i) - 1) : p.clause[q] = p.clause[i]
  <1> DEFINE S == {j \in (i + 1) .. (p.n + 1) : j = p.n + 1 \/ p.clause[j] # p.clause[i]}
             e == En!clauseEnd(p, i)
  <1>1. p.n \in Nat
    BY DEF ParseFits
  <1>2. p.n + 1 \in S /\ S \in SUBSET Nat /\ e = En!MinOf(S)
    BY <1>1 DEF En!clauseEnd
  <1>3. e \in (i + 1) .. (p.n + 1)
    BY ClauseEnds
  <1> HIDE DEF e
  <1>4. \A y \in S : e <= y
    <2> HIDE DEF S
    <2> QED BY <1>2, MinIn
  <1>5. ASSUME NEW q \in i .. (e - 1)
        PROVE  p.clause[q] = p.clause[i]
    <2>1. CASE q = i
      BY <2>1
    <2>2. CASE q # i
      <3>1. q \in (i + 1) .. (p.n + 1) /\ ~ e <= q /\ q # p.n + 1
        BY <1>1, <1>3, <2>2
      <3> QED BY <1>4, <3>1
    <2> QED BY <2>1, <2>2
  <1> QED BY <1>5 DEF e

LEMMA NounFits ==
    ASSUME NEW p, ParseFits(p), NEW i \in 0 .. p.n, NEW noun \in i .. p.n,
           p.w[i] \in Starts, \A q \in i .. noun : p.clause[q] = p.clause[i],
           NEW used, NEW s \in En!segFromNoun(p, used, noun, i)
    PROVE  SegmentFits(p, s, i)
  <1> DEFINE e == En!ValueEnd(p, noun)
             anchor == IF p.w[noun] \in En!T.KeepAnchorNouns THEN p.w[noun] ELSE ""
  <1>0. ~ (noun + 1 >= En!clauseEnd(p, noun)) /\ e # 0
    BY DEF En!segFromNoun
  <1>1. s = [start |-> i, end |-> e, val |-> noun + 1, anchor |-> anchor]
    BY DEF En!segFromNoun
  <1>2. p.n \in Nat /\ noun \in 0 .. p.n
    BY DEF ParseFits
  <1>3. En!clauseEnd(p, noun) \in Nat
    BY <1>2, ClauseEnds
  <1>4. e \in (noun + 2) .. En!clauseEnd(p, noun)
    <2>1. noun + 1 < En!clauseEnd(p, noun)
      <3>1. noun \in Int /\ noun + 1 \in Int
        BY <1>2
      <3> HIDE DEF e
      <3> QED BY <1>0, <1>3, <3>1
    <2>2. e = 0 \/ e \in (noun + 2) .. En!clauseEnd(p, noun)
      BY <1>2, <2>1, ValueEnds
    <2> QED BY <1>0, <2>2
  <1> HIDE DEF e, anchor
  <1>5. s.start = i /\ s.end = e
    BY <1>1
  <1>6. e <= p.n + 1 /\ e \in Nat /\ En!clauseEnd(p, noun) \in Nat
    <2>1. En!clauseEnd(p, noun) \in (noun + 1) .. (p.n + 1)
      BY <1>2, ClauseEnds
    <2> QED BY <1>2, <1>4, <2>1
  <1>7. ASSUME NEW q \in i .. (e - 1)
        PROVE  p.clause[q] = p.clause[i]
    <2>1. q \in i .. noun \/ q \in noun .. (En!clauseEnd(p, noun) - 1)
      BY <1>2, <1>4, <1>6
    <2>2. \A k \in noun .. (En!clauseEnd(p, noun) - 1) : p.clause[k] = p.clause[noun]
      BY <1>2, InClause
    <2>3. p.clause[noun] = p.clause[i]
      BY <1>2
    <2> QED BY <2>1, <2>2, <2>3
  <1>8. e \in (i + 1) .. (p.n + 1)
    BY <1>2, <1>4, <1>6
  <1> QED BY <1>5, <1>7, <1>8 DEF SegmentFits

LEMMA SegFits ==
    ASSUME NEW p, ParseFits(p), NEW i \in 0 .. p.n, NEW used, NEW s \in En!segAt(p, used, i)
    PROVE  SegmentFits(p, s, i)
  <1>1. p.n \in Nat
    BY DEF ParseFits
  <1>2. CASE p.w[i] \in En!T.LocationPreps
    <2> DEFINE j == En!AfterArticles(p, i)
    <2>1. j \in (i + 1) .. (p.n + 1)
      BY PastArticles
    <2>2. p.w[i] \in Starts
      BY <1>2 DEF Starts
    <2>3. ~ j > p.n
      <3> DEFINE noun == En!segFromNoun(p, used, j, i)
                 code == IF p.w[j] \in En!Codes /\ j \notin used
                         THEN {[start |-> i, end |-> j + 1, val |-> j, anchor |-> ""]} ELSE {}
                 same == p.clause[j] = p.clause[i]
      <3>0. En!segAt(p, used, i) =
               CASE j > p.n \/ (j <= p.n /\ ~ same) -> {}
                 [] j <= p.n /\ same /\ p.w[j] \in En!T.LocationNouns -> noun
                 [] OTHER -> code
        BY <1>2 DEF En!segAt
      <3> HIDE DEF noun, code, same, j
      <3>1. j > p.n => En!segAt(p, used, i) = {}
        BY <1>1, <2>1, <3>0
      <3> QED BY <3>1
    <2>4. j \in i .. p.n
      BY <1>1, <2>1, <2>3
    <2>8. p.clause[j] = p.clause[i]
      <3>1. j <= p.n /\ p.clause[j] # p.clause[i] => En!segAt(p, used, i) = {}
        BY <1>2 DEF En!segAt
      <3> QED BY <1>1, <2>4, <3>1
    <2>9. \A q \in i .. j : p.clause[q] = p.clause[i]
      BY <2>8, PastArticles
    <2>5. CASE s \in En!segFromNoun(p, used, j, i)
      BY <2>2, <2>4, <2>5, <2>9, NounFits
    <2>6. CASE s = [start |-> i, end |-> j + 1, val |-> j, anchor |-> ""]
      <3> HIDE DEF j
      <3>1. s.start = i /\ s.end = j + 1
        BY <2>6
      <3>2. s.end \in (i + 1) .. (p.n + 1) /\ s.end - 1 = j
        BY <1>1, <2>1, <2>4, <3>1
      <3> QED BY <2>2, <2>9, <3>1, <3>2 DEF SegmentFits, j
    <2>7. s \in En!segFromNoun(p, used, j, i)
          \/ s = [start |-> i, end |-> j + 1, val |-> j, anchor |-> ""]
      BY <1>2, <2>3 DEF En!segAt
    <2> QED BY <2>5, <2>6, <2>7
  <1>3. CASE p.w[i] \notin En!T.LocationPreps
    <2>1. p.w[i] \in En!T.LocationNouns /\ s \in En!segFromNoun(p, used, i, i)
      BY <1>3 DEF En!segAt
    <2>2. p.w[i] \in Starts /\ i \in i .. p.n /\ \A q \in i .. i : q = i
      BY <1>1, <2>1 DEF Starts
    <2> QED BY <2>1, <2>2, NounFits
  <1> QED BY <1>2, <1>3

\* The segment at j; the segments from i on stop before j.
SegmentAt(p, j) == En!One(En!segAt(p, {}, j))
StopsAt(p, i, j) == j > p.n \/ p.clause[j] # p.clause[i] \/ En!segAt(p, {}, j) = {}

LEMMA SegmentIsNext ==
    ASSUME NEW p, ParseFits(p), NEW j \in Nat, j <= p.n, En!segAt(p, {}, j) # {}
    PROVE  /\ j \in 0 .. p.n /\ SegmentFits(p, SegmentAt(p, j), j)
           /\ SegmentAt(p, j).end \in Nat /\ SegmentAt(p, j).end > j
           /\ SegmentAt(p, j) \in En!segAt(p, {}, j)
  <1>1. p.n \in Nat
    BY DEF ParseFits
  <1> DEFINE seg == SegmentAt(p, j)
  <1>2. j \in 0 .. p.n /\ seg \in En!segAt(p, {}, j)
    BY <1>1 DEF En!One, SegmentAt
  <1> HIDE DEF seg
  <1>3. SegmentFits(p, seg, j)
    BY <1>2, SegFits
  <1>4. seg.end \in Nat /\ seg.end > j
    BY <1>1, <1>3 DEF SegmentFits
  <1> QED BY <1>2, <1>3, <1>4 DEF seg

\* The segments from i on, one after the other.
LEMMA SegmentsRecur ==
    ASSUME NEW p, ParseFits(p), NEW i \in 1 .. p.n
    PROVE  \E segs \in [Nat -> Seq({SegmentAt(p, j) : j \in Nat})] :
              /\ En!Segments(p, i) = segs[i]
              /\ \A j \in Nat : segs[j] = IF StopsAt(p, i, j) THEN <<>>
                                          ELSE <<SegmentAt(p, j)>> \o segs[SegmentAt(p, j).end]
  <1> DEFINE n == p.n
             stop(j) == StopsAt(p, i, j)
             seg(j) == SegmentAt(p, j)
             All == {SegmentAt(p, j) : j \in Nat}
             V == Seq(All)
             next == [j \in Nat |-> IF stop(j) THEN j + 1 ELSE seg(j).end]
             G == [x \in Nat \X V |-> IF stop(x[1]) THEN <<>> ELSE <<seg(x[1])>> \o x[2]]
             Is(f) == f = [j \in Nat |-> IF stop(j) THEN <<>> ELSE <<seg(j)>> \o f[seg(j).end]]
             segs == CHOOSE f : Is(f)
  <1>1. n \in Nat
    BY DEF ParseFits
  <1>2. ASSUME NEW j \in Nat, ~ stop(j)
        PROVE  j <= n /\ seg(j).end \in Nat /\ seg(j).end > j
    <2>1. j <= p.n /\ En!segAt(p, {}, j) # {}
      BY <1>1, <1>2 DEF StopsAt
    <2> QED BY <2>1, SegmentIsNext
  <1>3. \A j \in Nat : seg(j) \in All
    OBVIOUS
  <1>4. \A j \in Nat : j > n => stop(j)
    BY DEF StopsAt
  <1>5. En!Segments(p, i) = segs[i]
    BY DEF En!Segments, StopsAt, SegmentAt
  <1> HIDE DEF n, stop, seg, All
  <1>6. next \in [Nat -> Nat] /\ \A j \in Nat : next[j] > j
    BY <1>2
  <1>7. G \in [Nat \X V -> V]
    <2>1. <<>> \in V
      OBVIOUS
    <2>2. \A j \in Nat, s \in V : <<seg(j)>> \o s \in V
      BY <1>3, Prepended
    <2> HIDE DEF V
    <2> QED BY <2>1, <2>2
  <1>8. <<>> \in V
    OBVIOUS
  <1>9. \A j \in Nat, s \in V : G[<<j, s>>] = IF stop(j) THEN <<>> ELSE <<seg(j)>> \o s
    OBVIOUS
  <1>10. \A j \in Nat : ~ stop(j) => next[j] = seg(j).end
    OBVIOUS
  <1> HIDE DEF V, G, next
  <1>11. PICK f \in [Nat -> V] : Walks(f, n, next, G)
    BY <1>1, <1>6, <1>7, <1>8, WalkExists
  <1>12. Is(f)
    <2>1. ASSUME NEW j \in Nat
          PROVE  f[j] = IF stop(j) THEN <<>> ELSE <<seg(j)>> \o f[seg(j).end]
      <3>1. f[j] = IF j > n THEN <<>> ELSE G[<<j, f[next[j]]>>]
        BY <1>11 DEF Walks
      <3>2. f[next[j]] \in V
        BY <1>6
      <3>3. G[<<j, f[next[j]]>>] = IF stop(j) THEN <<>> ELSE <<seg(j)>> \o f[next[j]]
        BY <1>9, <3>2
      <3> QED BY <1>4, <1>10, <3>1, <3>3
    <2> QED BY <2>1
  <1>13. Is(segs)
    <2> HIDE DEF Is
    <2> QED BY <1>12
  <1>14. /\ \A j \in Nat : segs[j] = IF stop(j) THEN <<>> ELSE <<seg(j)>> \o segs[seg(j).end]
         /\ segs = [j \in Nat |-> segs[j]]
    <2> HIDE DEF segs
    <2>1. \A j \in Nat : segs[j] = IF stop(j) THEN <<>> ELSE <<seg(j)>> \o segs[seg(j).end]
      BY <1>13
    <2>2. segs = [j \in Nat |-> IF stop(j) THEN <<>> ELSE <<seg(j)>> \o segs[seg(j).end]]
      BY <1>13
    <2> QED BY <2>1, <2>2
  <1> HIDE DEF segs
  <1>15. \A j \in Nat : j > n => segs[j] \in V
    BY <1>4, <1>8, <1>14
  <1>16. ASSUME NEW j \in Nat, j <= n, \A k \in Nat : k > j => segs[k] \in V
         PROVE  segs[j] \in V
    <2>1. CASE stop(j)
      BY <1>8, <1>14, <2>1, Zenon
    <2>2. CASE ~ stop(j)
      <3>1. seg(j).end \in Nat /\ seg(j).end > j
        BY <1>2, <2>2
      <3>2. seg(j) \in All /\ segs[seg(j).end] \in Seq(All)
        BY <1>3, <1>16, <3>1 DEF V
      <3>3. <<seg(j)>> \o segs[seg(j).end] \in V
        BY <3>2, Prepended DEF V
      <3> QED BY <1>14, <2>2, <3>3, Zenon
    <2> QED BY <2>1, <2>2
  <1>17. \A j \in Nat : segs[j] \in V
    <2>0. \A j \in 1 .. n : (\A k \in Nat : k > j => segs[k] \in V) => segs[j] \in V
      BY <1>1, <1>16
    <2>1. \A j \in Nat \ {0} : segs[j] \in V
      BY <1>1, <1>15, <2>0, Downward
    <2>2. segs[0] \in V
      <3>1. 0 \in Nat /\ 0 <= n /\ \A k \in Nat : k > 0 => segs[k] \in V
        BY <1>1, <2>1
      <3> QED BY <1>16, <3>1
    <2> QED BY <2>1, <2>2
  <1>18. segs \in [Nat -> V]
    BY <1>14, <1>17
  <1> QED BY <1>5, <1>14, <1>18 DEF stop, seg, V, All

\* The segments from i on begin where one can begin, and end in the utterance.
LEMMA SegmentsFit ==
    ASSUME NEW p, ParseFits(p), NEW i \in 1 .. p.n
    PROVE  \E X : /\ En!Segments(p, i) \in Seq(X)
                  /\ \A s \in X : s.start \in 1 .. p.n /\ SegmentFits(p, s, s.start)
  <1> DEFINE All == {SegmentAt(p, j) : j \in Nat}
             Good == {s \in All : s.start \in 1 .. p.n /\ SegmentFits(p, s, s.start)}
             W == Seq(Good)
  <1>1. p.n \in Nat
    BY DEF ParseFits
  <1>2. PICK segs \in [Nat -> Seq(All)] :
           /\ En!Segments(p, i) = segs[i]
           /\ \A j \in Nat : segs[j] = IF StopsAt(p, i, j) THEN <<>>
                                       ELSE <<SegmentAt(p, j)>> \o segs[SegmentAt(p, j).end]
    BY SegmentsRecur
  <1>3. <<>> \in W
    OBVIOUS
  <1>4. \A j \in Nat : j > p.n => segs[j] \in W
    <2> HIDE DEF W
    <2> QED BY <1>2, <1>3 DEF StopsAt
  <1>5. ASSUME NEW j \in 1 .. p.n, \A k \in Nat : k > j => segs[k] \in W
        PROVE  segs[j] \in W
    <2>0. j \in Nat /\ j <= p.n
      BY <1>1
    <2>1. CASE StopsAt(p, i, j)
      <3> HIDE DEF W
      <3> QED BY <1>2, <1>3, <2>0, <2>1
    <2>2. CASE ~ StopsAt(p, i, j)
      <3> DEFINE seg == SegmentAt(p, j)
      <3>1. SegmentFits(p, seg, j) /\ seg.end \in Nat /\ seg.end > j
        BY <2>0, <2>2, SegmentIsNext DEF StopsAt
      <3>2. seg \in All
        BY <2>0
      <3>3. segs[j] = <<seg>> \o segs[seg.end]
        BY <1>2, <2>0, <2>2
      <3> HIDE DEF seg, All
      <3>4. seg \in Good
        BY <3>1, <3>2 DEF SegmentFits
      <3>5. segs[seg.end] \in Seq(Good)
        BY <1>5, <3>1
      <3> HIDE DEF Good
      <3> QED BY <3>3, <3>4, <3>5, Prepended
    <2> QED BY <2>1, <2>2
  <1> HIDE DEF W
  <1>6. \A j \in Nat \ {0} : segs[j] \in W
    BY <1>1, <1>4, <1>5, Downward
  <1> HIDE DEF Good
  <1>7. En!Segments(p, i) \in Seq(Good)
    BY <1>2, <1>6 DEF W
  <1>8. \A s \in Good : s.start \in 1 .. p.n /\ SegmentFits(p, s, s.start)
    BY DEF Good
  <1> QED BY <1>7, <1>8

\* No member of a run is in S when the position before it is not and S holds
\* with each of them the one before it.
LEMMA FreeRun ==
    ASSUME NEW S, NEW a \in Nat, NEW b \in Int, a - 1 \notin S,
           \A q \in a .. b : q \in S => q - 1 \in S
    PROVE  \A q \in a .. b : q \notin S
  <1> DEFINE out == {q \in a .. b : q \in S}
  <1>1. CASE out # {}
    <2>1. out \in SUBSET Nat
      OBVIOUS
    <2>2. PICK x \in out : \A y \in out : x <= y
      <3> HIDE DEF out
      <3> QED BY <1>1, <2>1, SmallestIn
    <2>3. x \in a .. b /\ x - 1 \in S /\ x - 1 # a - 1
      BY <2>2
    <2>4. x - 1 \in out /\ ~ x <= x - 1
      BY <2>3
    <2> QED BY <2>2, <2>4
  <1> QED BY <1>1

\* The words a location takes begin where one can begin.
LocationTakes(p, S) ==
    S \subseteq 1 .. p.n /\ \A q \in S : p.w[q] \notin Starts => q - 1 \in S

LEMMA LocationSpan ==
    ASSUME NEW p, ParseFits(p)
    PROVE  LocationTakes(p, En!SpanOf(En!extractLocation(p)))
  <1> DEFINE at == {i \in 1 .. p.n : En!segAt(p, {}, i) # {}}
             group == En!extractLocation(p)
  <1>1. group = IF at = {} THEN <<>> ELSE En!Segments(p, En!MinOf(at))
    BY DEF En!extractLocation
  <1>2. p.n \in Nat
    BY DEF ParseFits
  <1>3. at \subseteq 1 .. p.n /\ at \in SUBSET Nat
    BY <1>2
  <1> HIDE DEF at, group
  <1>4. \E X : group \in Seq(X) /\ \A s \in X : s.start \in 1 .. p.n /\ SegmentFits(p, s, s.start)
    <2>1. CASE at = {}
      <3>1. <<>> \in Seq({}) /\ \A s \in {} : s.start \in 1 .. p.n /\ SegmentFits(p, s, s.start)
        OBVIOUS
      <3> QED BY <1>1, <2>1, <3>1
    <2>2. CASE at # {}
      <3>1. En!MinOf(at) \in 1 .. p.n
        BY <1>3, <2>2, MinIn
      <3> QED BY <1>1, <2>2, <3>1, SegmentsFit
    <2> QED BY <2>1, <2>2
  <1>5. PICK X : group \in Seq(X) /\ \A s \in X : s.start \in 1 .. p.n /\ SegmentFits(p, s, s.start)
    BY <1>4
  <1>6. \A q : q \in En!SpanOf(group)
               <=> \E k \in DOMAIN group : q \in group[k].start .. (group[k].end - 1)
    BY DEF En!SpanOf, En!Span
  <1>7. ASSUME NEW k \in DOMAIN group
        PROVE  /\ group[k].start \in 1 .. p.n /\ group[k].end \in Int
               /\ group[k].end <= p.n + 1 /\ p.w[group[k].start] \in Starts
    <2>1. group[k] \in X
      BY <1>5
    <2> QED BY <1>2, <1>5, <2>1 DEF SegmentFits
  <1>8. ASSUME NEW q \in En!SpanOf(group)
        PROVE  q \in 1 .. p.n /\ (p.w[q] \notin Starts => q - 1 \in En!SpanOf(group))
    <2>1. PICK k \in DOMAIN group : q \in group[k].start .. (group[k].end - 1)
      BY <1>6
    <2> DEFINE a == group[k].start
               b == group[k].end
    <2>2. a \in 1 .. p.n /\ b \in Int /\ b <= p.n + 1 /\ p.w[a] \in Starts /\ q \in a .. (b - 1)
      BY <1>7, <2>1
    <2> HIDE DEF a, b
    <2>3. q \in 1 .. p.n /\ (p.w[q] \notin Starts => q - 1 \in a .. (b - 1))
      BY <1>2, <2>2
    <2> QED BY <1>6, <2>3 DEF a, b
  <1> QED BY <1>8 DEF LocationTakes, group

-----------------------------------------------------------------------------
(* Corrections: the words one takes begin with its marker. *)

CorrectionTakes(p, used, S) ==
    /\ S \subseteq 1 .. p.n /\ S \cap used = {}
    /\ \A q \in S : p.w[q] \notin Openers => q - 1 \in S

Overrides(p, used) ==
    [loc  : {<<>>} \cup {En!locationFromSpan(p, t, a, b) : t \in SUBSET Nat, a \in Nat, b \in Nat},
     qty  : {{}} \cup {En!qtyFromSpan(p, a, b) : a \in Nat, b \in Nat},
     used : {S \in SUBSET (1 .. p.n) : CorrectionTakes(p, used, S)}]

LEMMA CorrectionEnds ==
    ASSUME NEW p, ParseFits(p), NEW i \in 1 .. p.n, NEW from \in Nat,
           from < En!CorrectionEnd(p, i, from)
    PROVE  En!CorrectionEnd(p, i, from) \in 1 .. (p.n + 1)
  <1>1. p.n \in Nat /\ En!clauseEnd(p, i) \in (i + 1) .. (p.n + 1)
    BY ClauseEnds DEF ParseFits
  <1>2. CASE from < En!clauseEnd(p, i)
    BY <1>1, <1>2 DEF En!CorrectionEnd
  <1>3. CASE ~ from < En!clauseEnd(p, i)
    <2>1. CASE from > p.n
      BY <1>3, <2>1 DEF En!CorrectionEnd
    <2>2. CASE ~ from > p.n
      <3>1. from \in 0 .. p.n
        BY <1>1, <2>2
      <3>2. En!clauseEnd(p, from) \in (from + 1) .. (p.n + 1)
        BY <3>1, ClauseEnds
      <3> QED BY <1>1, <1>3, <2>2, <3>2 DEF En!CorrectionEnd
    <2> QED BY <2>1, <2>2
  <1> QED BY <1>2, <1>3

\* The words after a marker up to the end of a correction, and the marker.
LEMMA MarkerTakes ==
    ASSUME NEW p, ParseFits(p), NEW used, LocationTakes(p, used), NEW S,
           CorrectionTakes(p, used, S), NEW i \in 1 .. p.n, NEW n \in Nat, n > 0,
           n = En!MatchAt(En!T.negationSet, p.w, i), NEW to \in 1 .. (p.n + 1), i + n < to,
           ({i} \cup En!Span(i + n, to)) \cap (used \cup S) = {}
    PROVE  CorrectionTakes(p, used, S \cup En!Span(i, to))
  <1> DEFINE ph == SubSeq(p.w, i, i + n - 1)
  <1>1. p.n \in Nat /\ p.w \in Words /\ Len(p.w) = p.n
    BY DEF ParseFits
  <1>2. ph \in En!T.negationSet /\ Len(ph) = n /\ \A k \in 1 .. n : ph[k] = p.w[i + k - 1]
    <2>1. En!T.negationSet \in SUBSET (Words \ {<<>>})
      BY EnglishTables
    <2>2. i \in Nat
      OBVIOUS
    <2> QED BY <1>1, <2>1, <2>2, EnglishMatched
  <1> HIDE DEF ph
  <1>3. ph[1] \in Openers /\ \A k \in 2 .. n : ph[k] \notin Starts
    BY <1>2, EnglishTables DEF Openers
  <1>4. p.w[i] \in Openers
    <2>1. 1 \in 1 .. n /\ i + 1 - 1 = i
      OBVIOUS
    <2> QED BY <1>2, <1>3, <2>1
  <1>5. \A q \in (i + 1) .. (i + n - 1) : p.w[q] \notin Starts
    <2> SUFFICES ASSUME NEW q \in (i + 1) .. (i + n - 1)
                 PROVE  p.w[q] \notin Starts
      OBVIOUS
    <2>1. q - i + 1 \in 2 .. n /\ q - i + 1 \in 1 .. n /\ i + (q - i + 1) - 1 = q
      OBVIOUS
    <2> QED BY <1>2, <1>3, <2>1
  <1>6. i \notin used /\ \A q \in (i + n) .. (to - 1) : q \notin used
    BY DEF En!Span
  <1>7. \A q \in (i + 1) .. (i + n - 1) : q \notin used
    <2>1. (i + 1) - 1 \notin used /\ i + 1 \in Nat /\ i + n - 1 \in Int
      BY <1>6
    <2>2. \A q \in (i + 1) .. (i + n - 1) : q \in used => q - 1 \in used
      BY <1>5 DEF LocationTakes
    <2> QED BY <2>1, <2>2, FreeRun
  <1>8. \A q \in En!Span(i, to) : q \notin used
    <2> SUFFICES ASSUME NEW q \in i .. (to - 1)
                 PROVE  q \notin used
      BY DEF En!Span
    <2>1. q = i \/ q \in (i + 1) .. (i + n - 1) \/ q \in (i + n) .. (to - 1)
      OBVIOUS
    <2> QED BY <1>6, <1>7, <2>1
  <1>9. En!Span(i, to) \subseteq 1 .. p.n
    BY <1>1 DEF En!Span
  <1>10. \A q \in En!Span(i, to) : p.w[q] \notin Openers => q - 1 \in En!Span(i, to)
    <2> SUFFICES ASSUME NEW q \in i .. (to - 1), p.w[q] \notin Openers
                 PROVE  q - 1 \in i .. (to - 1)
      BY DEF En!Span
    <2>1. q # i
      BY <1>4
    <2> QED BY <2>1
  <1> QED BY <1>8, <1>9, <1>10 DEF CorrectionTakes

LEMMA NegationTakes ==
    ASSUME NEW p, ParseFits(p), NEW used, LocationTakes(p, used), NEW i \in Nat, i > 0,
           NEW o \in Overrides(p, used)
    PROVE  En!Negation(p, used, o, i) \in Overrides(p, used)
  <1> DEFINE n == En!MatchAt(En!T.negationSet, p.w, i)
             taken == used \cup o.used
             from == i + n
             to == En!CorrectionEnd(p, i, from)
             loc == En!locationFromSpan(p, taken, from, to)
             qty == En!qtyFromSpan(p, from, to)
             span == En!Span(i, to)
             Locs == {<<>>} \cup {En!locationFromSpan(p, t, a, b) : t \in SUBSET Nat, a \in Nat, b \in Nat}
             Qtys == {{}} \cup {En!qtyFromSpan(p, a, b) : a \in Nat, b \in Nat}
             Useds == {S \in SUBSET (1 .. p.n) : CorrectionTakes(p, used, S)}
             V == [loc : Locs, qty : Qtys, used : Useds]
             clear == n > 0 /\ from < to /\ ({i} \cup En!Span(from, to)) \cap taken = {}
             r == En!CorrectedBy(p, o, loc, from, to, span)
  <1>1. V = Overrides(p, used)
    BY DEF Overrides
  <1>2. En!Negation(p, used, o, i) = IF clear THEN r ELSE o
    BY DEF En!Negation, En!CorrectionAt
  <1>3. p.n \in Nat /\ p.w \in Words /\ Len(p.w) = p.n
    BY DEF ParseFits
  <1>4. n \in Nat /\ (n > 0 => i \in 1 .. p.n)
    <2>1. En!T.negationSet \in SUBSET (Words \ {<<>>})
      BY EnglishTables
    <2>2. n \in Nat /\ (n > 0 => i + n - 1 <= Len(p.w))
      BY <1>3, <2>1, EnglishMatched
    <2> HIDE DEF n
    <2> QED BY <1>3, <2>2
  <1>5. o.loc \in Locs /\ o.qty \in Qtys /\ o.used \in Useds
    <2>1. o \in V
      <3> HIDE DEF V
      <3> QED BY <1>1
    <2> HIDE DEF Locs, Qtys, Useds
    <2> QED BY <2>1
  <1>6. ASSUME clear
        PROVE  to \in 1 .. (p.n + 1) /\ o.used \cup span \in Useds
    <2> HIDE DEF n
    <2>1. i \in 1 .. p.n /\ from \in Nat /\ from < to
      BY <1>4, <1>6
    <2>2. to \in 1 .. (p.n + 1)
      BY <2>1, CorrectionEnds
    <2> HIDE DEF to
    <2>3. CorrectionTakes(p, used, o.used)
      BY <1>5
    <2>4. n > 0 /\ i + n < to /\ ({i} \cup En!Span(i + n, to)) \cap (used \cup o.used) = {}
      BY <1>6
    <2>5. CorrectionTakes(p, used, o.used \cup span)
      BY <1>4, <2>1, <2>2, <2>3, <2>4, MarkerTakes DEF n
    <2> QED BY <2>2, <2>5 DEF CorrectionTakes
  <1>7. ASSUME clear
        PROVE  loc \in Locs /\ qty \in Qtys
    <2>1. taken \in SUBSET Nat /\ from \in Nat /\ to \in Nat
      <3>1. taken \in SUBSET Nat
        <4>1. used \subseteq 1 .. p.n /\ o.used \subseteq 1 .. p.n
          BY <1>5 DEF LocationTakes
        <4>2. \A q \in 1 .. p.n : q \in Nat
          BY <1>3
        <4> QED BY <4>1, <4>2, Zenon
      <3>2. from \in Nat /\ to \in Nat
        BY <1>3, <1>4, <1>6, <1>7
      <3> QED BY <3>1, <3>2
    <2> HIDE DEF taken, from, to
    <2> QED BY <2>1
  <1>8. <<>> \in Locs /\ {} \in Qtys
    OBVIOUS
  <1>9. r \in {o, En!Override(o, loc, {}, span), En!Override(o, <<>>, qty, span)}
    BY DEF En!CorrectedBy, En!Replace
  <1> HIDE DEF Locs, Qtys, Useds
  <1>10. ASSUME NEW l \in Locs, NEW q \in Qtys, o.used \cup span \in Useds
         PROVE  En!Override(o, l, q, span) \in V
    BY <1>5, <1>10 DEF En!Override
  <1> HIDE DEF V, r, span, loc, qty, clear
  <1>11. CASE clear
    BY <1>1, <1>2, <1>6, <1>7, <1>8, <1>9, <1>10, <1>11
  <1>12. CASE ~ clear
    BY <1>2, <1>12
  <1> QED BY <1>11, <1>12

LEMMA CorrectionsRecur ==
    ASSUME NEW p, ParseFits(p), NEW used, LocationTakes(p, used)
    PROVE  \E up \in [Nat -> Overrides(p, used)] :
              /\ En!applyNegations(p, used) = up[p.n]
              /\ \A i \in Nat : up[i] = IF i < 2 THEN En!NoOverride
                                        ELSE En!Negation(p, used, up[i - 1], i)
  <1> DEFINE V == Overrides(p, used)
             c == En!NoOverride
             F == [x \in Nat \X V |-> IF x[1] < 2 THEN c ELSE En!Negation(p, used, x[2], x[1])]
             Is(f) == f = [i \in Nat |-> IF i < 2 THEN c ELSE En!Negation(p, used, f[i - 1], i)]
             up == CHOOSE f : Is(f)
  <1>1. c \in V
    <2> DEFINE Locs == {<<>>} \cup {En!locationFromSpan(p, t, a, b) : t \in SUBSET Nat, a \in Nat, b \in Nat}
               Qtys == {{}} \cup {En!qtyFromSpan(p, a, b) : a \in Nat, b \in Nat}
               Useds == {S \in SUBSET (1 .. p.n) : CorrectionTakes(p, used, S)}
    <2>1. V = [loc : Locs, qty : Qtys, used : Useds]
      BY DEF Overrides
    <2>2. <<>> \in Locs /\ {} \in Qtys
      OBVIOUS
    <2>3. {} \in Useds
      BY DEF CorrectionTakes
    <2> HIDE DEF V, Locs, Qtys, Useds
    <2> QED BY <2>1, <2>2, <2>3 DEF En!NoOverride
  <1>2. ASSUME NEW i \in Nat, NEW o \in V
        PROVE  (IF i < 2 THEN c ELSE En!Negation(p, used, o, i)) \in V
    <2>1. CASE i < 2
      BY <1>1, <2>1
    <2>2. CASE ~ i < 2
      <3>1. i > 0
        BY <2>2
      <3>2. En!Negation(p, used, o, i) \in V
        BY <3>1, NegationTakes
      <3> HIDE DEF V, c
      <3> QED BY <2>2, <3>2
    <2> QED BY <2>1, <2>2
  <1>3. En!applyNegations(p, used) = up[p.n]
    BY DEF En!applyNegations
  <1> HIDE DEF V, c
  <1>4. F \in [Nat \X V -> V]
    BY <1>2
  <1>5. \A i \in Nat, o \in V : F[<<i, o>>] = IF i < 2 THEN c ELSE En!Negation(p, used, o, i)
    OBVIOUS
  <1> HIDE DEF F
  <1>6. PICK f \in [Nat -> V] : Recurs(f, c, F)
    BY <1>1, <1>4, Recursion
  <1>7. ASSUME NEW i \in Nat
        PROVE  f[i] = IF i < 2 THEN c ELSE En!Negation(p, used, f[i - 1], i)
    <2>1. CASE i = 0
      BY <1>6, <2>1 DEF Recurs
    <2>2. CASE i # 0
      <3>1. i \in Nat \ {0} /\ i - 1 \in Nat
        BY <2>2
      <3>2. f[i] = F[<<i, f[i - 1]>>] /\ f[i - 1] \in V
        BY <1>6, <3>1 DEF Recurs
      <3> QED BY <1>5, <3>2
    <2> QED BY <2>1, <2>2
  <1>8. Is(f)
    BY <1>6, <1>7
  <1>9. Is(up)
    <2> HIDE DEF Is
    <2> QED BY <1>8
  <1>10. /\ \A i \in Nat : up[i] = IF i < 2 THEN c ELSE En!Negation(p, used, up[i - 1], i)
         /\ up = [i \in Nat |-> up[i]]
    <2> HIDE DEF up
    <2>1. \A i \in Nat : up[i] = IF i < 2 THEN c ELSE En!Negation(p, used, up[i - 1], i)
      BY <1>9
    <2>2. up = [i \in Nat |-> IF i < 2 THEN c ELSE En!Negation(p, used, up[i - 1], i)]
      BY <1>9
    <2> QED BY <2>1, <2>2
  <1> DEFINE S == {i \in Nat : up[i] \in V}
  <1> HIDE DEF up
  <1>11. 0 \in S
    <2>1. 0 \in Nat /\ 0 < 2
      OBVIOUS
    <2>2. up[0] = c
      BY <1>10, <2>1
    <2> QED BY <1>1, <2>2
  <1>12. ASSUME NEW i \in Nat, i \in S
         PROVE  i + 1 \in S
    <2>1. i + 1 \in Nat /\ (i + 1) - 1 = i /\ up[i] \in V
      BY <1>12
    <2>2. up[i + 1] = IF i + 1 < 2 THEN c ELSE En!Negation(p, used, up[i], i + 1)
      BY <1>10, <2>1
    <2>3. up[i + 1] \in V
      BY <1>2, <2>1, <2>2
    <2> QED BY <2>1, <2>3
  <1>13. \A i \in Nat : i \in S
    <2> HIDE DEF S
    <2> QED BY <1>11, <1>12, Inductive
  <1>14. up \in [Nat -> V]
    BY <1>10, <1>13
  <1> QED BY <1>3, <1>10, <1>14 DEF V, c

LEMMA CorrectionsTake ==
    ASSUME NEW p, ParseFits(p), NEW used, LocationTakes(p, used)
    PROVE  En!applyNegations(p, used) \in Overrides(p, used)
  <1>1. PICK up \in [Nat -> Overrides(p, used)] : En!applyNegations(p, used) = up[p.n]
    BY CorrectionsRecur
  <1> QED BY <1>1 DEF ParseFits

-----------------------------------------------------------------------------
(* The count: its number, its unit and the words "of" around it are free. *)

\* Of the words used, "of" is never the first of a run.
OfInside(p, used) ==
    used \subseteq 1 .. p.n /\ \A q \in used : p.w[q] \in En!T.Of => q - 1 \in used

CountTakes(p, used, c) ==
    /\ c.num \subseteq 1 .. p.n /\ c.of \subseteq 1 .. p.n /\ c.unit \in 0 .. p.n
    /\ c.num \cap used = {} /\ c.of \cap used = {} /\ c.num \cap c.of = {}
    /\ c.unit \notin used /\ c.unit \notin c.num /\ c.unit \notin c.of

LEMMA OfsAreFree ==
    ASSUME NEW p, NEW used, OfInside(p, used), NEW a \in Nat, NEW b \in Int, a - 1 \notin used,
           \A q \in a .. b : p.w[q] \in En!T.Of
    PROVE  \A q \in a .. b : q \notin used
  <1>1. \A q \in a .. b : q \in used => q - 1 \in used
    BY DEF OfInside
  <1> QED BY <1>1, FreeRun

LEMMA NumberTakes ==
    ASSUME NEW p, ParseFits(p), NEW used, OfInside(p, used), En!FreeNums(p, used) # {}
    PROVE  CountTakes(p, used, En!CountNumber(p, used))
  <1> DEFINE x    == p.nums[En!MinOf(En!FreeNums(p, used))]
             s    == x.mark
             e    == x.end
             end  == En!clauseEnd(p, e - 1)
             j    == En!PastOf(p, e, end)
             unit == /\ j < end /\ j \notin used
                     /\ En!IsUnit(p.w[j]) \/ (j + 1 < end /\ p.w[j + 1] \in En!T.Of)
             k    == IF unit THEN j + 1 ELSE j
             last == IF j < end /\ j \notin used THEN En!PastOf(p, k, end) ELSE j
             num  == En!Span(s, e)
             un   == IF unit THEN j ELSE 0
             of   == En!Span(e, last) \ (IF unit THEN {j} ELSE {})
             c    == En!CountNumber(p, used)
  <1>1. c.num = num /\ c.unit = un /\ c.of = of
    BY DEF En!CountNumber
  <1>2. p.n \in Nat
    BY DEF ParseFits
  <1>3. NumberFits(x, p.n) /\ En!Span(s, e) \cap used = {}
    <2> DEFINE nums == En!FreeNums(p, used)
    <2>1. nums \subseteq DOMAIN p.nums /\ \A m \in nums : En!Span(p.nums[m].mark, p.nums[m].end) \cap used = {}
      BY DEF En!FreeNums
    <2>2. nums \in SUBSET Nat
      BY <2>1, NumberOfParse
    <2> HIDE DEF nums
    <2>3. En!MinOf(nums) \in nums
      BY <2>2, MinIn DEF nums
    <2> QED BY <2>1, <2>3, NumberOfParse DEF nums
  <1>4. s \in 1 .. p.n /\ e \in 2 .. (p.n + 1) /\ s < e
    BY <1>2, <1>3 DEF NumberFits
  <1> HIDE DEF x, c, s, e
  <1>5. end \in Nat /\ e <= end /\ end <= p.n + 1
    <2>1. e - 1 \in 0 .. p.n
      BY <1>2, <1>4
    <2>2. end \in ((e - 1) + 1) .. (p.n + 1)
      BY <2>1, ClauseEnds
    <2> QED BY <1>2, <1>4, <2>2
  <1> HIDE DEF end
  <1>6. j \in Nat /\ e <= j /\ j <= end /\ \A q \in e .. (j - 1) : p.w[q] \in En!T.Of
    <2>1. e \in Nat
      BY <1>2, <1>4
    <2> QED BY <1>5, <2>1, PastOfs
  <1> HIDE DEF j
  <1>7. unit \in BOOLEAN /\ (unit => j < end /\ j \notin used)
    OBVIOUS
  <1> HIDE DEF unit
  <1>8. k \in Nat /\ j <= k /\ (unit => k = j + 1) /\ (~ unit => k = j)
        /\ (j < end => k <= end)
    BY <1>5, <1>6, <1>7
  <1> HIDE DEF k
  <1>9. /\ last \in Nat /\ j <= last /\ last <= end
        /\ last # j => j \notin used
        /\ \A q \in k .. (last - 1) : p.w[q] \in En!T.Of
    <2>1. CASE j < end /\ j \notin used
      <3>1. last = En!PastOf(p, k, end)
        BY <2>1
      <3> HIDE DEF last
      <3>2. last \in Nat /\ k <= last /\ last <= end /\ \A q \in k .. (last - 1) : p.w[q] \in En!T.Of
        BY <1>5, <1>8, <2>1, <3>1, PastOfs
      <3> QED BY <1>6, <1>8, <2>1, <3>2
    <2>2. CASE ~ (j < end /\ j \notin used)
      <3>1. last = j /\ ~ unit
        BY <1>7, <2>2
      <3> HIDE DEF last
      <3> QED BY <1>5, <1>6, <1>8, <3>1
    <2> QED BY <2>1, <2>2
  <1> HIDE DEF last
  <1>10. e - 1 \notin used
    BY <1>2, <1>3, <1>4 DEF En!Span
  <1>11. \A q \in e .. (j - 1) : q \notin used
    BY <1>2, <1>4, <1>6, <1>10, OfsAreFree
  <1>12. \A q \in k .. (last - 1) : q \notin used
    <2>1. k - 1 \notin used \/ last = j
      BY <1>4, <1>6, <1>7, <1>8, <1>9, <1>10, <1>11
    <2>2. CASE k - 1 \notin used
      <3>1. k \in Nat /\ last - 1 \in Int
        BY <1>8, <1>9
      <3>2. \A q \in k .. (last - 1) : p.w[q] \in En!T.Of
        BY <1>9
      <3> QED BY <2>2, <3>1, <3>2, OfsAreFree
    <2>3. CASE last = j
      BY <1>6, <1>8, <2>3
    <2> QED BY <2>1, <2>2, <2>3
  <1>13. \A q \in of : q \in e .. (j - 1) \/ q \in k .. (last - 1)
    <2> SUFFICES ASSUME NEW q \in e .. (last - 1), unit => q # j
                 PROVE  q \in e .. (j - 1) \/ q \in k .. (last - 1)
      BY DEF En!Span
    <2>1. last \in Int /\ e \in Int
      BY <1>4, <1>9
    <2> QED BY <1>6, <1>7, <1>8, <2>1
  <1>14. of \subseteq e .. end /\ of \subseteq 1 .. p.n /\ num \subseteq 1 .. p.n
         /\ of \cap num = {}
    BY <1>2, <1>4, <1>5, <1>9 DEF En!Span
  <1>15. un \in 0 .. p.n /\ un \notin of /\ un \notin used /\ un \notin num
    <2>1. CASE unit
      <3>1. un = j /\ j \in e .. p.n /\ j \notin of
        BY <1>2, <1>4, <1>5, <1>6, <1>7, <2>1
      <3> QED BY <1>2, <1>4, <1>7, <2>1, <3>1 DEF En!Span
    <2>2. CASE ~ unit
      <3>1. un = 0 /\ 0 \notin 1 .. p.n
        BY <2>2
      <3> HIDE DEF un, of, num
      <3> QED BY <1>2, <1>14, <3>1 DEF OfInside
    <2> QED BY <2>1, <2>2
  <1>16. of \cap used = {} /\ num \cap used = {}
    BY <1>3, <1>11, <1>12, <1>13
  <1> HIDE DEF un, of, num
  <1> QED BY <1>1, <1>14, <1>15, <1>16, SMTT(30) DEF CountTakes, c

LEMMA ArticleTakes ==
    ASSUME NEW p, ParseFits(p), NEW used, OfInside(p, used)
    PROVE  CountTakes(p, used, En!CountArticle(p, used))
  <1> DEFINE at == {i \in 1 .. (p.n - 1) :
                      /\ {i, i + 1} \cap used = {} /\ p.w[i] \in En!T.NumArticles
                      /\ p.clause[i] = p.clause[i + 1] /\ En!IsUnit(p.w[i + 1])}
             i == En!MinOf(at)
             end == En!clauseEnd(p, i)
             last == En!PastOf(p, i + 2, end)
             c == En!CountArticle(p, used)
  <1>0. p.n \in Nat
    BY DEF ParseFits
  <1>1. CASE at = {}
    <2>1. c.num = {} /\ c.unit = 0 /\ c.of = {}
      BY <1>1 DEF En!CountArticle, En!NoCount
    <2> HIDE DEF c
    <2> QED BY <1>0, <2>1 DEF CountTakes, OfInside, c
  <1>2. CASE at # {}
    <2>1. c.num = {i} /\ c.unit = i + 1 /\ c.of = En!Span(i + 2, last)
      BY <1>2 DEF En!CountArticle, En!NoCount
    <2>2. at \in SUBSET Nat
      BY <1>0
    <2>3. i \in at
      <3> HIDE DEF at
      <3> QED BY <1>2, <2>2, MinIn
    <2>4. i \in 1 .. (p.n - 1) /\ i \notin used /\ i + 1 \notin used
      BY <2>3
    <2> HIDE DEF at, i, c
    <2>5. end \in (i + 1) .. (p.n + 1)
      BY <1>0, <2>4, ClauseEnds
    <2> HIDE DEF end
    <2>6. i + 2 \in Nat /\ end \in Nat
      BY <1>0, <2>4, <2>5
    <2>7. /\ last \in Nat /\ i + 2 <= last
          /\ i + 2 <= end => last <= end
          /\ i + 2 >= end => last = i + 2
          /\ \A q \in (i + 2) .. (last - 1) : p.w[q] \in En!T.Of
      BY <2>6, PastOfs
    <2> HIDE DEF last
    <2>8. \A q \in (i + 2) .. (last - 1) : q \notin used
      <3>1. (i + 2) - 1 = i + 1 /\ last - 1 \in Int
        BY <2>4, <2>7
      <3> QED BY <2>4, <2>6, <2>7, <3>1, OfsAreFree
    <2>9. last <= p.n + 1
      BY <1>0, <2>4, <2>5, <2>6, <2>7
    <2>10. En!Span(i + 2, last) \subseteq 1 .. p.n /\ i \in 1 .. p.n /\ i + 1 \in 1 .. p.n
           /\ i \notin En!Span(i + 2, last) /\ i + 1 \notin En!Span(i + 2, last)
      BY <1>0, <2>4, <2>7, <2>9 DEF En!Span
    <2>11. En!Span(i + 2, last) \cap used = {}
      BY <2>8 DEF En!Span
    <2>12. i + 1 \notin {i} /\ i + 1 \in 0 .. p.n
      BY <2>10
    <2> DEFINE of == En!Span(i + 2, last)
    <2> HIDE DEF of
    <2> QED BY <2>1, <2>4, <2>10, <2>11, <2>12 DEF CountTakes, c, of
  <1> QED BY <1>1, <1>2

LEMMA CountFits ==
    ASSUME NEW p, ParseFits(p), NEW used, OfInside(p, used), NEW ov
    PROVE  CountTakes(p, used, En!Count(p, used, ov))
  <1>1. CASE En!FreeNums(p, used) # {}
    BY <1>1, NumberTakes DEF En!Count
  <1>2. CASE En!FreeNums(p, used) = {} /\ ov.qty = {}
    BY <1>2, ArticleTakes DEF En!Count
  <1>3. CASE En!FreeNums(p, used) = {} /\ ov.qty # {}
    <2> DEFINE c == En!Count(p, used, ov)
    <2>1. c.num = {} /\ c.unit = 0 /\ c.of = {}
      BY <1>3 DEF En!Count, En!NoCount
    <2>2. p.n \in Nat
      BY DEF ParseFits
    <2> HIDE DEF c
    <2> QED BY <2>1, <2>2 DEF CountTakes, OfInside, c
  <1> QED BY <1>1, <1>2, <1>3

-----------------------------------------------------------------------------
(* One slot per word. *)

LEMMA ItemIsFree ==
    ASSUME NEW p, NEW used, NEW after
    PROVE  En!ItemSpan(p, used, after) \subseteq (1 .. p.n) \ used
  BY DEF En!ItemSpan

\* Disjoint parts of a set, and what is left of it.
LEMMA SevenParts ==
    ASSUME NEW N, NEW A \in SUBSET N, NEW B \in SUBSET N, NEW C \in SUBSET N,
           NEW D \in SUBSET N, NEW E \in SUBSET N,
           A \cap B = {}, (A \cup B) \cap C = {}, (A \cup B) \cap D = {},
           (A \cup B) \cap E = {}, C \cap D = {}, C \cap E = {}, D \cap E = {},
           NEW I \in SUBSET (N \ (A \cup B \cup C \cup D \cup E))
    PROVE  Partition(<<A, B, C, D, E, I, (N \ (A \cup B \cup C \cup D \cup E)) \ I>>, N)
  <1> DEFINE L == (N \ (A \cup B \cup C \cup D \cup E)) \ I
             s == <<A, B, C, D, E, I, L>>
  <1>1. /\ DOMAIN s = 1 .. 7 /\ s[1] = A /\ s[2] = B /\ s[3] = C /\ s[4] = D
        /\ s[5] = E /\ s[6] = I /\ s[7] = L
    OBVIOUS
  <1>2. A \cup B \cup C \cup D \cup E \cup I \cup L = N
    OBVIOUS
  <1>3. /\ A \cap (B \cup C \cup D \cup E \cup I \cup L) = {}
        /\ B \cap (C \cup D \cup E \cup I \cup L) = {} /\ C \cap (D \cup E \cup I \cup L) = {}
        /\ D \cap (E \cup I \cup L) = {} /\ E \cap (I \cup L) = {} /\ I \cap L = {}
    OBVIOUS
  <1> HIDE DEF L, s
  <1>4. \A k \in DOMAIN s : k \in {1, 2, 3, 4, 5, 6, 7}
    BY <1>1
  <1>5. UNION {s[k] : k \in DOMAIN s} = N
    <2>1. \A k \in DOMAIN s : s[k] \subseteq N
      BY <1>1, <1>2, <1>4
    <2>2. ASSUME NEW x \in N
          PROVE  \E k \in DOMAIN s : x \in s[k]
      <3>1. \A k \in 1 .. 7 : k \in DOMAIN s
        BY <1>1
      <3>2. x \in A \/ x \in B \/ x \in C \/ x \in D \/ x \in E \/ x \in I \/ x \in L
        BY <1>2
      <3> QED BY <1>1, <3>1, <3>2
    <2> QED BY <2>1, <2>2
  <1>6. ASSUME NEW j \in DOMAIN s, NEW k \in DOMAIN s, j < k
        PROVE  s[j] \cap s[k] = {}
    <2>1. CASE j = 1
      <3>1. s[k] \subseteq B \cup C \cup D \cup E \cup I \cup L
        BY <1>1, <1>4, <1>6, <2>1
      <3> QED BY <1>1, <1>3, <2>1, <3>1
    <2>2. CASE j = 2
      <3>1. s[k] \subseteq C \cup D \cup E \cup I \cup L
        BY <1>1, <1>4, <1>6, <2>2
      <3> QED BY <1>1, <1>3, <2>2, <3>1
    <2>3. CASE j = 3
      <3>1. s[k] \subseteq D \cup E \cup I \cup L
        BY <1>1, <1>4, <1>6, <2>3
      <3> QED BY <1>1, <1>3, <2>3, <3>1
    <2>4. CASE j = 4
      <3>1. s[k] \subseteq E \cup I \cup L
        BY <1>1, <1>4, <1>6, <2>4
      <3> QED BY <1>1, <1>3, <2>4, <3>1
    <2>5. CASE j = 5
      <3>1. s[k] \subseteq I \cup L
        BY <1>1, <1>4, <1>6, <2>5
      <3> QED BY <1>1, <1>3, <2>5, <3>1
    <2>6. CASE j = 6
      <3>1. s[k] \subseteq L
        BY <1>1, <1>4, <1>6, <2>6
      <3> QED BY <1>1, <1>3, <2>6, <3>1
    <2>7. j # 7
      BY <1>1, <1>6
    <2> QED BY <1>4, <2>1, <2>2, <2>3, <2>4, <2>5, <2>6, <2>7
  <1>7. \A j, k \in DOMAIN s : j # k => s[j] \cap s[k] = {}
    <2> SUFFICES ASSUME NEW j \in DOMAIN s, NEW k \in DOMAIN s, j # k
                 PROVE  s[j] \cap s[k] = {}
      OBVIOUS
    <2>1. j < k \/ k < j
      BY <1>1
    <2> QED BY <1>6, <2>1
  <1> QED BY <1>5, <1>7 DEF Partition, s, L

\* A parse gives every word one slot.
LEMMA ParseIsSlotted ==
    ASSUME NEW p, ParseFits(p)
    PROVE  Partition(En!Parsed(p).spans, 1 .. p.n)
  <1> DEFINE group == En!extractLocation(p)
             A     == En!SpanOf(group)
             ov    == En!applyNegations(p, A)
             B     == ov.used
             used  == A \cup B
             c     == En!Count(p, used, ov)
             E     == {c.unit} \ {0}
             all   == used \cup c.num \cup c.of \cup E
             item  == En!ItemSpan(p, all, c.after)
             left  == ((1 .. p.n) \ all) \ item
  <1>1. LocationTakes(p, A)
    BY LocationSpan
  <1>2. En!Parsed(p) = En!Slots(p, group, ov, c, all, item)
    BY DEF En!Parsed, En!Located, En!Corrected, En!Counted, En!Itemed
  <1>3. En!Parsed(p).spans = <<A, B, c.num, c.of, E, item, left>>
    <2> HIDE DEF group, A, ov, c, E, all, item
    <2> QED BY <1>2 DEF En!Slots, A, B, E, left
  <1> HIDE DEF group
  <1>4. ov \in Overrides(p, A)
    <2> HIDE DEF A
    <2> QED BY <1>1, CorrectionsTake
  <1> HIDE DEF A, ov
  <1>5. CorrectionTakes(p, A, B)
    <2> DEFINE Locs == {<<>>} \cup {En!locationFromSpan(p, t, a, b) : t \in SUBSET Nat, a \in Nat, b \in Nat}
               Qtys == {{}} \cup {En!qtyFromSpan(p, a, b) : a \in Nat, b \in Nat}
               Useds == {S \in SUBSET (1 .. p.n) : CorrectionTakes(p, A, S)}
    <2>1. ov \in [loc : Locs, qty : Qtys, used : Useds]
      BY <1>4 DEF Overrides
    <2>2. \A S \in Useds : CorrectionTakes(p, A, S)
      OBVIOUS
    <2> HIDE DEF Locs, Qtys, Useds
    <2>3. ov.used \in Useds
      BY <2>1
    <2> QED BY <2>2, <2>3
  <1> HIDE DEF B
  <1>6. OfInside(p, used)
    BY <1>1, <1>5, EnglishTables DEF LocationTakes, CorrectionTakes, OfInside
  <1> HIDE DEF used
  <1>7. CountTakes(p, used, c)
    BY <1>6, CountFits
  <1> HIDE DEF c
  <1>8. A \cap B = {} /\ A \subseteq 1 .. p.n /\ B \subseteq 1 .. p.n
    BY <1>1, <1>5 DEF LocationTakes, CorrectionTakes
  <1>9. /\ c.num \subseteq 1 .. p.n /\ c.of \subseteq 1 .. p.n /\ E \subseteq 1 .. p.n
        /\ used \cap c.num = {} /\ used \cap c.of = {} /\ used \cap E = {}
        /\ c.num \cap c.of = {} /\ c.num \cap E = {} /\ c.of \cap E = {}
    <2>1. \A u \in 0 .. p.n : u # 0 => u \in 1 .. p.n
      BY DEF ParseFits
    <2> QED BY <1>7, <2>1 DEF CountTakes
  <1>10. item \subseteq (1 .. p.n) \ all
    BY ItemIsFree
  <1> DEFINE num == c.num
             of == c.of
  <1>11. En!Parsed(p).spans = <<A, B, num, of, E, item, ((1 .. p.n) \ (A \cup B \cup num \cup of \cup E)) \ item>>
    BY <1>3 DEF used
  <1>12. item \in SUBSET ((1 .. p.n) \ (A \cup B \cup num \cup of \cup E))
    BY <1>10 DEF used
  <1>13. /\ num \in SUBSET (1 .. p.n) /\ of \in SUBSET (1 .. p.n) /\ E \in SUBSET (1 .. p.n)
         /\ (A \cup B) \cap num = {} /\ (A \cup B) \cap of = {} /\ (A \cup B) \cap E = {}
         /\ num \cap of = {} /\ num \cap E = {} /\ of \cap E = {}
    BY <1>9 DEF used
  <1> HIDE DEF num, of, E, item
  <1>14. A \in SUBSET (1 .. p.n) /\ B \in SUBSET (1 .. p.n)
    BY <1>8
  <1>15. A \cap B = {}
    BY <1>8
  <1>16. Partition(<<A, B, num, of, E, item, ((1 .. p.n) \ (A \cup B \cup num \cup of \cup E)) \ item>>,
                   1 .. p.n)
    BY <1>12, <1>13, <1>14, <1>15, SevenParts
  <1> QED BY <1>11, <1>16, Zenon

LEMMA TextIsSlotted ==
    ASSUME NEW toks \in Tokens
    PROVE  Slotted(En!parseTokens(toks), toks)
  <1>1. ParseFits(En!newParse(toks)) /\ En!newParse(toks).n = Len(toks)
    BY NewParseFits
  <1>2. DOMAIN toks = 1 .. Len(toks)
    BY DEF Tokens
  <1>3. Partition(En!Parsed(En!newParse(toks)).spans, DOMAIN toks)
    BY <1>1, <1>2, ParseIsSlotted
  <1> QED BY <1>3 DEF Slotted, En!parseTokens

-----------------------------------------------------------------------------
(* Several items in one utterance: each part is an utterance of its own. *)

LEMMA CloneIsTokens ==
    ASSUME NEW toks \in Tokens
    PROVE  En!cloneAsUtterance(toks) \in Tokens
  <1> DEFINE Token == [w : STRING, end : BOOLEAN]
             n == Len(toks)
             last == [toks[n] EXCEPT !.end = TRUE]
  <1>1. toks \in Seq(Token)
    BY DEF Tokens
  <1>2. CASE toks = <<>>
    BY <1>2 DEF En!cloneAsUtterance
  <1>3. CASE toks # <<>>
    <2>1. \A t \in Token : [t EXCEPT !.end = TRUE] \in Token
      OBVIOUS
    <2>2. En!cloneAsUtterance(toks) = [toks EXCEPT ![n] = last]
      BY <1>3 DEF En!cloneAsUtterance
    <2> HIDE DEF Token, last
    <2>3. n \in Nat \ {0} /\ DOMAIN toks = 1 .. n
      BY <1>1, <1>3, EmptySeq
    <2>4. toks[n] \in Token
      BY <1>1, <2>3
    <2>5. last \in Token
      BY <2>1, <2>4 DEF last
    <2>6. [toks EXCEPT ![n] = last] \in Seq(Token)
      BY <1>1, <2>3, <2>5
    <2> QED BY <2>2, <2>6 DEF Tokens, Token
  <1> QED BY <1>2, <1>3

LEMMA PartsAreTokens ==
    ASSUME NEW toks \in Tokens, NEW cuts, cuts \subseteq 2 .. (Len(toks) - 1)
    PROVE  En!PartsCut(toks, cuts) \in Seq(Tokens)
  <1> DEFINE n == Len(toks)
             later(i) == {c \in cuts : c >= i}
             cut(i) == IF later(i) = {} THEN n + 1 ELSE En!MinOf(later(i))
             part(i) == En!cloneAsUtterance(SubSeq(toks, i, cut(i) - 1))
             first(i) == IF part(i) = <<>> THEN <<>> ELSE <<part(i)>>
             All == {part(i) : i \in Nat} \cup Tokens
             V == Seq(All)
             W == Seq(Tokens)
             next == [i \in Nat |-> IF later(i) = {} THEN i + 1 ELSE cut(i) + 1]
             G == [x \in Nat \X V |-> first(x[1]) \o (IF later(x[1]) = {} THEN <<>> ELSE x[2])]
             Is(f) == f = [i \in Nat |->
                             first(i) \o (IF later(i) = {} THEN <<>> ELSE f[cut(i) + 1])]
             parts == CHOOSE f : Is(f)
  <1>0. toks \in Seq([w : STRING, end : BOOLEAN]) /\ DOMAIN toks = 1 .. n
    BY DEF Tokens
  <1>1. n \in Nat /\ \A c \in cuts : c \in Nat /\ c <= n - 1
    BY DEF Tokens
  <1>2. ASSUME NEW i \in Nat
        PROVE  cut(i) \in Nat /\ cut(i) <= n + 1 /\ (later(i) # {} => cut(i) >= i)
    <2>1. \A c \in later(i) : c >= i /\ c <= n + 1
      BY <1>1
    <2>s. later(i) \in SUBSET Nat
      BY <1>1
    <2>2. CASE later(i) = {}
      BY <1>1, <2>2
    <2>3. CASE later(i) # {}
      <3> DEFINE S == later(i)
      <3> HIDE DEF S
      <3>1. En!MinOf(S) \in S /\ En!MinOf(S) \in Nat
        BY <2>s, <2>3, MinIn DEF S
      <3>2. cut(i) = En!MinOf(S)
        BY <2>3 DEF S
      <3> QED BY <2>1, <3>1, <3>2 DEF S
    <2> QED BY <2>2, <2>3
  <1>3. ASSUME NEW i \in Nat, i > n
        PROVE  later(i) = {} /\ part(i) = <<>>
    <2>0. \A c \in cuts : ~ c >= i
      BY <1>1, <1>3
    <2>1. later(i) = {}
      BY <2>0
    <2>2. cut(i) - 1 = n
      BY <1>1, <2>1
    <2>3. SubSeq(toks, i, n) = <<>>
      BY <1>1, <1>3, SubSeqEmpty
    <2> QED BY <2>1, <2>2, <2>3 DEF En!cloneAsUtterance
  <1>4. ASSUME NEW i \in Nat, i > 0
        PROVE  part(i) \in Tokens
    <2> DEFINE e == cut(i) - 1
               Token == [w : STRING, end : BOOLEAN]
    <2>1. e \in Int /\ e <= n
      BY <1>1, <1>2
    <2> HIDE DEF e
    <2>2. \A k \in i .. e : toks[k] \in Token
      <3>1. toks \in Seq(Token)
        BY <1>0
      <3> HIDE DEF Token
      <3>2. \A k \in 1 .. n : toks[k] \in Token
        BY <1>0, <3>1
      <3> QED BY <1>1, <1>4, <2>1, <3>2
    <2> HIDE DEF Token
    <2>3. SubSeq(toks, i, e) \in Seq(Token)
      BY <2>1, <2>2, SubSeqProperties
    <2> QED BY <2>3, CloneIsTokens DEF Tokens, Token, e
  <1>5. \A i \in Nat : part(i) \in All
    OBVIOUS
  <1>6. En!PartsCut(toks, cuts) = parts[1]
    BY DEF En!PartsCut, n, later, cut, part, first, Is, parts
  <1> HIDE DEF n, later, cut, part
  <1>7. next \in [Nat -> Nat] /\ \A i \in Nat : next[i] > i
    <2>1. ASSUME NEW i \in Nat
          PROVE  next[i] \in Nat /\ next[i] > i
      <3>1. CASE later(i) = {}
        BY <3>1
      <3>2. CASE later(i) # {}
        <4>1. cut(i) \in Nat /\ cut(i) >= i /\ next[i] = cut(i) + 1
          BY <1>2, <3>2
        <4> HIDE DEF next
        <4> QED BY <4>1
      <3> QED BY <3>1, <3>2
    <2>2. next = [i \in Nat |-> next[i]]
      OBVIOUS
    <2> HIDE DEF next
    <2> QED BY <2>1, <2>2
  <1>8. ASSUME NEW i \in Nat
        PROVE  /\ first(i) \in V
               /\ i > 0 => first(i) \in W
    <2> HIDE DEF All
    <2>1. <<part(i)>> \in V
      BY <1>5
    <2>2. i > 0 => <<part(i)>> \in W
      BY <1>4
    <2>3. <<>> \in V /\ <<>> \in W
      OBVIOUS
    <2> HIDE DEF V, W
    <2> QED BY <2>1, <2>2, <2>3
  <1> HIDE DEF first, All
  <1>9. <<>> \in V /\ <<>> \in W
    OBVIOUS
  <1>10. G \in [Nat \X V -> V]
    <2>1. ASSUME NEW i \in Nat, NEW s \in V
          PROVE  first(i) \o (IF later(i) = {} THEN <<>> ELSE s) \in V
      <3>1. first(i) \in Seq(All) /\ (IF later(i) = {} THEN <<>> ELSE s) \in Seq(All)
        BY <1>8, <1>9
      <3> QED BY <3>1
    <2> HIDE DEF V
    <2> QED BY <2>1
  <1>11. \A i \in Nat, s \in V : G[<<i, s>>] = first(i) \o (IF later(i) = {} THEN <<>> ELSE s)
    OBVIOUS
  <1>12. \A i \in Nat : later(i) # {} => next[i] = cut(i) + 1
    OBVIOUS
  <1> HIDE DEF V, G, next
  <1>13. PICK f \in [Nat -> V] : Walks(f, n, next, G)
    BY <1>1, <1>7, <1>9, <1>10, WalkExists
  <1>14. Is(f)
    <2>1. ASSUME NEW i \in Nat
          PROVE  f[i] = first(i) \o (IF later(i) = {} THEN <<>> ELSE f[cut(i) + 1])
      <3>1. f[i] = IF i > n THEN <<>> ELSE G[<<i, f[next[i]]>>]
        BY <1>13 DEF Walks
      <3>2. CASE i > n
        <4>1. later(i) = {} /\ first(i) = <<>>
          BY <1>3, <3>2 DEF first
        <4>2. <<>> \o <<>> = <<>>
          OBVIOUS
        <4> QED BY <3>1, <3>2, <4>1, <4>2
      <3>3. CASE ~ i > n
        <4>1. f[next[i]] \in V
          BY <1>7
        <4>2. G[<<i, f[next[i]]>>] = first(i) \o (IF later(i) = {} THEN <<>> ELSE f[next[i]])
          BY <1>11, <4>1
        <4> QED BY <1>12, <3>1, <3>3, <4>2
      <3> QED BY <3>2, <3>3
    <2> QED BY <2>1
  <1>15. Is(parts)
    <2> HIDE DEF Is
    <2> QED BY <1>14
  <1>16. \A i \in Nat : parts[i] = first(i) \o (IF later(i) = {} THEN <<>> ELSE parts[cut(i) + 1])
    <2> HIDE DEF parts
    <2> QED BY <1>15
  <1> HIDE DEF parts
  <1>17. ASSUME NEW i \in Nat, i > 0, later(i) # {} => parts[cut(i) + 1] \in W
         PROVE  parts[i] \in W
    <2> DEFINE rest == IF later(i) = {} THEN <<>> ELSE parts[cut(i) + 1]
    <2>1. first(i) \in W /\ rest \in W
      BY <1>8, <1>9, <1>17
    <2>2. parts[i] = first(i) \o rest
      BY <1>16
    <2> HIDE DEF rest
    <2> QED BY <2>1, <2>2
  <1>18. \A i \in Nat : i > n => parts[i] \in W
    <2> HIDE DEF W
    <2> QED BY <1>1, <1>3, <1>17
  <1>19. ASSUME NEW i \in 1 .. n, \A j \in Nat : j > i => parts[j] \in W
         PROVE  parts[i] \in W
    <2>1. i \in Nat /\ i > 0
      BY <1>1
    <2>2. ASSUME later(i) # {}
          PROVE  cut(i) + 1 \in Nat /\ cut(i) + 1 > i
      <3>1. cut(i) \in Nat /\ cut(i) >= i
        BY <1>2, <2>1, <2>2
      <3> QED BY <2>1, <3>1
    <2> HIDE DEF W
    <2> QED BY <1>17, <1>19, <2>1, <2>2
  <1>20. parts[1] \in W
    <2> HIDE DEF W
    <2>1. \A i \in Nat \ {0} : parts[i] \in W
      BY <1>1, <1>18, <1>19, Downward
    <2> QED BY <2>1
  <1> QED BY <1>6, <1>20

LEMMA CutsFit ==
    ASSUME NEW toks \in Tokens
    PROVE  En!findItemCuts(toks) \subseteq 2 .. (Len(toks) - 1)
  <1> DEFINE p == En!newParse(toks)
  <1>1. p.n = Len(toks)
    BY NewParseFits
  <1>2. En!findItemCuts(toks) = En!itemCutsOf(p)
    BY DEF En!findItemCuts
  <1> HIDE DEF p
  <1>3. En!itemCutsOf(p) \subseteq 2 .. (p.n - 1)
    BY DEF En!itemCutsOf
  <1> QED BY <1>1, <1>2, <1>3

LEMMA AllSlotted ==
    ASSUME NEW toks \in Tokens
    PROVE  SlottedParts(En!Parts(toks), En!ParseAll(toks))
  <1> DEFINE parts == En!Parts(toks)
             each == En!ParseEach(parts)
             all == En!ParseAll(toks)
  <1>1. parts \in Seq(Tokens)
    BY CutsFit, PartsAreTokens DEF En!Parts
  <1>2. all = En!Inherited(each)
    BY DEF En!ParseAll
  <1> HIDE DEF parts, all
  <1>3. ASSUME NEW k \in DOMAIN parts
        PROVE  Slotted(all[k], parts[k])
    <2>1. each[k] = En!parseTokens(parts[k]) /\ k \in DOMAIN each
      BY DEF En!ParseEach
    <2> HIDE DEF each
    <2>2. Inherits(all[k], En!parseTokens(parts[k]))
      BY <1>2, <2>1 DEF En!Inherited, Inherits
    <2>3. all[k].spans = En!parseTokens(parts[k]).spans
      BY <2>2, InheritsRest
    <2>4. Slotted(En!parseTokens(parts[k]), parts[k])
      BY <1>1, TextIsSlotted
    <2> QED BY <2>3, <2>4 DEF Slotted
  <1> QED BY <1>3 DEF SlottedParts, parts, all

TextFits == text \in Tokens

LEMMA TextInvariant == Spec => []TextFits
  <1>1. Init => TextFits
    BY DEF Init, TextFits, Tokens
  <1>2. TextFits /\ [Next]_vars => TextFits'
    <2> SUFFICES ASSUME TextFits, [Next]_vars
                 PROVE  TextFits'
      OBVIOUS
    <2>1. CASE Say
      <3> DEFINE Token == [w : STRING, end : BOOLEAN]
      <3>1. PICK p \in Phrases : text' = text \o p
        BY <2>1 DEF Say
      <3>2. p \in Seq(Token) /\ text \in Seq(Token)
        BY UtterancesAssumption DEF TextFits, Tokens
      <3> HIDE DEF Token
      <3>3. text \o p \in Seq(Token)
        BY <3>2
      <3> QED BY <3>1, <3>3 DEF TextFits, Tokens, Token
    <2>2. CASE UNCHANGED vars
      BY <2>2 DEF vars, TextFits
    <2> QED BY <2>1, <2>2 DEF Next
  <1> QED BY <1>1, <1>2, PTL DEF Spec

\* Every word of whatever was said has one slot: of the utterance, and of each
\* part of it that names an item (parseTokens, ParseAll).
THEOREM WordsHaveOneSlot == Spec => []OneSlotPerWord
  <1>1. TextFits => OneSlotPerWord
    <2> SUFFICES ASSUME TextFits
                 PROVE  OneSlotPerWord
      OBVIOUS
    <2>1. Said \in Tokens
      BY CloneIsTokens DEF TextFits, Said
    <2> HIDE DEF Said
    <2> QED BY <2>1, TextIsSlotted, AllSlotted DEF OneSlotPerWord
  <1> QED BY <1>1, TextInvariant, PTL

-----------------------------------------------------------------------------
(* Words that can only be heard in one way. *)

LEMMA EnglishWords ==
    LET t == En!T
        others(w, phrases) == WordsOf(phrases \ {<<w>>})
    IN  /\ Starts \cap NumberWords(t) = {} /\ Starts \cap WordsOf(t.approxSet) = {}
        /\ Starts \cap En!Letters = {} /\ Starts \cap En!Codes = {}
        /\ <<"no">> \in t.negationSet /\ "no" \notin others("no", t.negationSet)
        /\ <<"about">> \in t.approxSet /\ "about" \notin others("about", t.approxSet)
        /\ "no" \notin Starts /\ "no" \notin NumberWords(t) /\ "no" \notin WordsOf(t.approxSet)
        /\ "no" \notin t.Articles /\ "no" \notin t.ChangeWords /\ "no" \notin DOMAIN t.FieldAliases
        /\ \A w \in {"b-2", "about", "thirty", "reels"} : w \notin Starts /\ w \notin WordsOf(t.negationSet)
        /\ \A w \in {"about", "reels", "nails"} : w \notin NumberWords(t)
        /\ "nails" \notin Starts
        /\ "thirty" \in DOMAIN t.Tens /\ t.Tens["thirty"] = 30
        /\ "thirty" \notin WordsOf(DOMAIN t.vagues) /\ "thirty" \notin WordsOf(t.approxSet)
        /\ "reels" \in t.Units
  <1>1. En!T = Packs["en"]
    BY EnglishTables
  <1>2. \A f, g : WordsOf(f \cup g) = WordsOf(f) \cup WordsOf(g)
    BY DEF WordsOf
  <1> QED BY <1>1, <1>2, EnglishAssumption DEF Starts

\* A phrase that is there is matched, or a longer one is.
LEMMA MatchAtLeast ==
    ASSUME NEW c, NEW phrases \in SUBSET (Words \ {<<>>}), NEW toks \in Words, NEW i \in Nat,
           NEW p \in phrases, i + Len(p) - 1 <= Len(toks), SubSeq(toks, i, i + Len(p) - 1) = p
    PROVE  In(c)!MatchAt(phrases, toks, i) >= Len(p) /\ Len(p) > 0
  <1> DEFINE here == {q \in phrases : /\ i + Len(q) - 1 <= Len(toks)
                                      /\ SubSeq(toks, i, i + Len(q) - 1) = q}
             lens == {Len(q) : q \in here}
             n == In(c)!MatchAt(phrases, toks, i)
  <1>1. n = IF lens = {} THEN 0 ELSE CHOOSE m \in lens : \A l \in lens : l <= m
    BY DEF In!MatchAt
  <1>2. Len(toks) \in Nat
    BY DEF Words
  <1>3. \A q \in here : Len(q) \in Nat \ {0} /\ Len(q) <= Len(toks) + 1
    <2> SUFFICES ASSUME NEW q \in here
                 PROVE  Len(q) \in Nat \ {0} /\ Len(q) <= Len(toks) + 1
      OBVIOUS
    <2>1. q \in Seq(STRING) /\ q # <<>> /\ i + Len(q) - 1 <= Len(toks)
      BY DEF Words
    <2>2. Len(q) \in Nat \ {0}
      BY <2>1, EmptySeq
    <2> QED BY <1>2, <2>1, <2>2
  <1>4. p \in here
    OBVIOUS
  <1>5. Len(p) \in lens
    BY <1>4
  <1>6. lens \in SUBSET (0 .. (Len(toks) + 1))
    BY <1>2, <1>3
  <1>7. Len(p) > 0
    BY <1>3, <1>4
  <1> HIDE DEF lens, here
  <1>8. \E x \in lens : \A y \in lens : y <= x
    <2>1. Len(toks) + 1 \in Nat /\ lens # {}
      BY <1>2, <1>5
    <2> QED BY <1>6, <2>1, Largest
  <1>9. n \in lens /\ \A y \in lens : y <= n
    BY <1>1, <1>5, <1>8
  <1>10. n \in Nat /\ Len(p) \in Nat
    <2>1. \A y \in 0 .. (Len(toks) + 1) : y \in Nat
      BY <1>2
    <2> QED BY <1>5, <1>6, <1>9, <2>1
  <1> HIDE DEF n
  <1> QED BY <1>5, <1>7, <1>9, <1>10 DEF n

\* A word of no phrase begins none.
LEMMA NotMatched ==
    ASSUME NEW c, NEW phrases \in SUBSET (Words \ {<<>>}), NEW toks \in Words, NEW i \in Nat,
           toks[i] \notin WordsOf(phrases)
    PROVE  In(c)!MatchAt(phrases, toks, i) = 0
  <1> DEFINE n == In(c)!MatchAt(phrases, toks, i)
  <1>1. n \in Nat
    BY Matched
  <1>2. n > 0 => \A q \in i .. (i + n - 1) : toks[q] \in WordsOf(phrases)
    BY PhraseWords
  <1> HIDE DEF n
  <1>3. n > 0 => i \in i .. (i + n - 1)
    BY <1>1
  <1>4. n = 0
    BY <1>1, <1>2, <1>3
  <1> QED BY <1>4 DEF n

\* A word that is in one phrase, alone, is matched alone; and no longer phrase
\* takes it along.
LEMMA MatchedAlone ==
    ASSUME NEW c, NEW phrases \in SUBSET (Words \ {<<>>}), NEW toks \in Words,
           NEW i \in 1 .. Len(toks), <<toks[i]>> \in phrases,
           toks[i] \notin WordsOf(phrases \ {<<toks[i]>>})
    PROVE  /\ In(c)!MatchAt(phrases, toks, i) = 1
           /\ \A j \in 1 .. (i - 1) : j + In(c)!MatchAt(phrases, toks, j) <= i
  <1> DEFINE w == toks[i]
  <1>1. Len(toks) \in Nat /\ i \in Nat /\ i >= 1 /\ i <= Len(toks) /\ w \in STRING
    BY DEF Words
  <1>2. ASSUME NEW j \in Nat, NEW m \in Nat, m = In(c)!MatchAt(phrases, toks, j),
               j <= i, i < j + m
        PROVE  m = 1
    <2> DEFINE ph == SubSeq(toks, j, j + m - 1)
    <2>1. m > 0
      BY <1>1, <1>2
    <2>2. ph \in phrases /\ Len(ph) = m /\ \A k \in 1 .. m : ph[k] = toks[j + k - 1]
      BY <1>2, <2>1, Matched
    <2> HIDE DEF ph
    <2>3. ph \in Words
      BY <2>2
    <2>4. i - j + 1 \in 1 .. m /\ j + (i - j + 1) - 1 = i /\ DOMAIN ph = 1 .. m
      BY <1>1, <1>2, <2>2, <2>3 DEF Words
    <2>5. w \in {ph[k] : k \in DOMAIN ph}
      BY <2>2, <2>4
    <2>6. ph = <<w>>
      <3>1. ph # <<w>> => w \in WordsOf(phrases \ {<<w>>})
        BY <2>2, <2>5 DEF WordsOf
      <3> QED BY <3>1
    <2> QED BY <2>2, <2>6
  <1>3. In(c)!MatchAt(phrases, toks, i) = 1
    <2> DEFINE n == In(c)!MatchAt(phrases, toks, i)
    <2>1. Len(<<w>>) = 1 /\ i + 1 - 1 = i /\ i + Len(<<w>>) - 1 <= Len(toks)
      BY <1>1
    <2>2. SubSeq(toks, i, i + Len(<<w>>) - 1) = <<w>>
      <3>1. toks \in Seq(STRING) /\ i \in 1 .. (Len(toks) + 1) /\ i \in (i - 1) .. Len(toks)
        BY <1>1 DEF Words
      <3>2. /\ SubSeq(toks, i, i) \in Seq(STRING) /\ Len(SubSeq(toks, i, i)) = 1
            /\ SubSeq(toks, i, i)[1] = toks[i]
        <4>1. Len(SubSeq(toks, i, i)) = i - i + 1
          BY <1>1, <3>1, SubSeqProperties
        <4>2. SubSeq(toks, i, i) \in Seq(STRING) /\ \A k \in 1 .. (i - i + 1) : SubSeq(toks, i, i)[k] = toks[i + k - 1]
          BY <1>1, <3>1, SubSeqProperties
        <4> QED BY <1>1, <4>1, <4>2
      <3>3. SubSeq(toks, i, i) = <<toks[i]>>
        <4> DEFINE u == SubSeq(toks, i, i)
        <4>1. u \in Seq(STRING) /\ Len(u) = 1 /\ u[1] = toks[i]
          BY <3>2
        <4> HIDE DEF u
        <4>2. u = <<toks[i]>>
          BY <4>1
        <4> QED BY <4>2 DEF u
      <3> QED BY <2>1, <3>3
    <2>3. n \in Nat
      BY <1>1, Matched
    <2>4. n >= 1
      <3> HIDE DEF w
      <3>1. <<w>> \in phrases
        BY DEF w
      <3> QED BY <1>1, <2>1, <2>2, <3>1, MatchAtLeast
    <2> HIDE DEF n
    <2>5. i <= i /\ i < i + n
      BY <1>1, <2>3, <2>4
    <2> QED BY <1>1, <1>2, <2>3, <2>5 DEF n
  <1>4. ASSUME NEW j \in 1 .. (i - 1)
        PROVE  j + In(c)!MatchAt(phrases, toks, j) <= i
    <2> DEFINE m == In(c)!MatchAt(phrases, toks, j)
    <2>1. m \in Nat /\ j \in Nat /\ j < i
      BY <1>1, Matched
    <2>2. i < j + m => m = 1
      <3> HIDE DEF m
      <3>1. j <= i
        BY <1>1, <2>1
      <3> QED BY <1>2, <2>1, <3>1 DEF m
    <2> HIDE DEF m
    <2>3. j + m <= i
      BY <1>1, <2>1, <2>2
    <2> QED BY <2>3 DEF m
  <1> QED BY <1>3, <1>4

\* No number begins at a word of none.
LEMMA HeardNothing ==
    ASSUME NEW c \in DOMAIN Packs, NEW toks \in Words, NEW i \in 1 .. Len(toks),
           toks[i] \notin NumberWords(In(c)!T)
    PROVE  HeardIn(c, toks, i) = <<>>
  <1> DEFINE x == HeardIn(c, toks, i)[1]
  <1>1. i \in Nat /\ i <= Len(toks) /\ Len(toks) \in Nat
    BY DEF Words
  <1>2. ASSUME HeardIn(c, toks, i) # <<>>
        PROVE  FALSE
    <2>1. NumberAt(c, toks, i, x)
      BY <1>1, <1>2, FoundFits
    <2> HIDE DEF x
    <2>2. x.end \in (i + 1) .. (Len(toks) + 1) /\ \A q \in i .. (x.end - 1) : toks[q] \in NumberWords(In(c)!T)
      BY <2>1 DEF NumberAt
    <2>3. i \in i .. (x.end - 1)
      BY <1>1, <2>2
    <2> QED BY <2>2, <2>3
  <1> QED BY <1>2

\* What is heard behind a word of no number is one of the numbers.
LEMMA HeardIsNumber ==
    ASSUME NEW c \in DOMAIN Packs, NEW toks \in Words, NEW i \in 1 .. Len(toks), NEW x,
           HeardIn(c, toks, i) = <<x>>,
           i > 1 => toks[i - 1] \notin NumberWords(In(c)!T)
    PROVE  \E k \in DOMAIN In(c)!ScanNumbers(toks) : In(c)!ScanNumbers(toks)[k] = x
  <1> DEFINE nums == In(c)!ScanNumbers(toks)
  <1>0. i \in Nat /\ i <= Len(toks) /\ Len(toks) \in Nat /\ i >= 1
    BY DEF Words
  <1>1. PICK k \in DOMAIN nums : i \in nums[k].start .. (nums[k].end - 1)
    <2>1. HeardIn(c, toks, i) # <<>>
      OBVIOUS
    <2> QED BY <2>1, Scanned DEF AllHeard
  <1>2. NumberAt(c, toks, nums[k].start, nums[k]) /\ HeardIn(c, toks, nums[k].start) = <<nums[k]>>
        /\ NumberFits(nums[k], Len(toks))
    BY NumbersFit
  <1>3. nums[k].start = i
    <2>1. nums[k].start \in 1 .. Len(toks) /\ nums[k].end \in Int
      BY <1>0, <1>2 DEF NumberFits
    <2>2. \A q \in nums[k].start .. (nums[k].end - 1) : toks[q] \in NumberWords(In(c)!T)
      BY <1>2 DEF NumberAt
    <2> HIDE DEF nums
    <2>3. nums[k].start # i => i - 1 \in nums[k].start .. (nums[k].end - 1) /\ i > 1
      BY <1>0, <1>1, <2>1
    <2> QED BY <2>2, <2>3
  <1> QED BY <1>2, <1>3

-----------------------------------------------------------------------------
(* A run over words of one role each. *)

\* A numeral of one role is of no other: but for an article that is a one.
LEMMA RoleWords ==
    ASSUME NEW c \in DOMAIN Packs, NEW k \in 1 .. 9, NEW w \in Roles(In(c)!T)[k]
    PROVE  /\ k # 1 => w \notin DOMAIN In(c)!T.Ones /\ w \notin In(c)!T.NumArticles
           /\ k # 2 => w \notin DOMAIN In(c)!T.Tens
           /\ k # 3 => w \notin DOMAIN In(c)!T.Hundreds
           /\ k # 4 => w \notin In(c)!T.ScaleHundred
           /\ k # 5 => w \notin DOMAIN In(c)!T.ScaleBig
           /\ k # 6 => w \notin In(c)!T.DozenWords
           /\ k # 7 => w \notin In(c)!T.HalfWords
           /\ k # 8 => w \notin In(c)!T.NumConnectors
           /\ k # 9 => w \notin DOMAIN In(c)!Digits
  <1> DEFINE R == Roles(In(c)!T)
  <1>1. (\A j \in 1 .. 9 : j # k => w \notin R[j]) /\ (k # 1 => w \notin In(c)!T.NumArticles)
    BY OneRole
  <1>2. \A j \in 1 .. 9 : k # j => w \notin R[j]
    BY <1>1
  <1>3. /\ R[1] = DOMAIN In(c)!T.Ones /\ R[2] = DOMAIN In(c)!T.Tens /\ R[3] = DOMAIN In(c)!T.Hundreds
        /\ R[4] = In(c)!T.ScaleHundred /\ R[5] = DOMAIN In(c)!T.ScaleBig /\ R[6] = In(c)!T.DozenWords
        /\ R[7] = In(c)!T.HalfWords /\ R[8] = In(c)!T.NumConnectors /\ R[9] = DOMAIN In(c)!Digits
    BY RolesOf
  <1> HIDE DEF R
  <1> QED BY <1>1, <1>2, <1>3

\* The run q is r past one more word.
Past(q, r, total, cur, ones, tens, hund) ==
    /\ q \in RunStates /\ q.i = r.i + 1 /\ q.total = total /\ q.cur = cur /\ q.started
    /\ (q.ones <=> ones) /\ (q.tens <=> tens) /\ (q.hund <=> hund) /\ ~ q.done

LEMMA GoPast ==
    ASSUME NEW r \in RunStates, ~ r.done, NEW x \in Int
    PROVE  LET skip == [r EXCEPT !.i = r.i + 1]
               go == [skip EXCEPT !.started = TRUE]
           IN  /\ Past([go EXCEPT !.cur = x, !.ones = TRUE], r, r.total, x, TRUE, r.tens, r.hund)
               /\ Past([go EXCEPT !.cur = x, !.tens = TRUE], r, r.total, x, r.ones, TRUE, r.hund)
               /\ Past([go EXCEPT !.cur = x, !.hund = TRUE], r, r.total, x, r.ones, r.tens, TRUE)
               /\ Past([go EXCEPT !.cur = x, !.ones = FALSE, !.tens = FALSE, !.hund = TRUE], r,
                       r.total, x, FALSE, FALSE, TRUE)
               /\ Past([go EXCEPT !.total = x, !.cur = 0, !.ones = FALSE, !.tens = FALSE, !.hund = FALSE],
                       r, x, 0, FALSE, FALSE, FALSE)
               /\ r.started => Past(skip, r, r.total, r.cur, r.ones, r.tens, r.hund)
  <1> DEFINE skip == [r EXCEPT !.i = r.i + 1]
             go == [skip EXCEPT !.started = TRUE]
  <1>1. /\ skip \in RunStates /\ skip.i = r.i + 1 /\ skip.total = r.total /\ skip.cur = r.cur
        /\ skip.started = r.started /\ skip.ones = r.ones /\ skip.tens = r.tens
        /\ skip.hund = r.hund /\ ~ skip.done
    BY DEF RunStates
  <1> HIDE DEF skip
  <1>2. /\ go \in RunStates /\ go.i = r.i + 1 /\ go.total = r.total /\ go.cur = r.cur
        /\ go.started /\ go.ones = r.ones /\ go.tens = r.tens
        /\ go.hund = r.hund /\ ~ go.done
    BY <1>1 DEF RunStates
  <1> HIDE DEF go
  <1>3. Past([go EXCEPT !.cur = x, !.ones = TRUE], r, r.total, x, TRUE, r.tens, r.hund)
    BY <1>2 DEF Past, RunStates
  <1>4. Past([go EXCEPT !.cur = x, !.tens = TRUE], r, r.total, x, r.ones, TRUE, r.hund)
    BY <1>2 DEF Past, RunStates
  <1>5. Past([go EXCEPT !.cur = x, !.hund = TRUE], r, r.total, x, r.ones, r.tens, TRUE)
    BY <1>2 DEF Past, RunStates
  <1>6. Past([go EXCEPT !.cur = x, !.ones = FALSE, !.tens = FALSE, !.hund = TRUE], r,
             r.total, x, FALSE, FALSE, TRUE)
    BY <1>2 DEF Past, RunStates
  <1>7. Past([go EXCEPT !.total = x, !.cur = 0, !.ones = FALSE, !.tens = FALSE, !.hund = FALSE],
             r, x, 0, FALSE, FALSE, FALSE)
    <2> DEFINE h == [go EXCEPT !.total = x]
               g == [h EXCEPT !.cur = 0]
    <2>0. /\ h \in RunStates /\ h.i = r.i + 1 /\ h.total = x /\ h.started /\ ~ h.done
      BY <1>2 DEF RunStates
    <2> HIDE DEF h
    <2>1. /\ g \in RunStates /\ g.i = r.i + 1 /\ g.total = x /\ g.cur = 0 /\ g.started /\ ~ g.done
      BY <2>0 DEF RunStates
    <2> HIDE DEF g
    <2>2. Past([g EXCEPT !.ones = FALSE, !.tens = FALSE, !.hund = FALSE], r, x, 0, FALSE, FALSE, FALSE)
      BY <2>1 DEF Past, RunStates
    <2> QED BY <2>2 DEF g, h
  <1>8. r.started => Past(skip, r, r.total, r.cur, r.ones, r.tens, r.hund)
    BY <1>1 DEF Past, RunStates
  <1> QED BY <1>3, <1>4, <1>5, <1>6, <1>7, <1>8 DEF go, skip

LEMMA StepOnes ==
    ASSUME NEW c \in DOMAIN Packs, NEW toks, NEW r \in RunStates, ~ r.done,
           NEW w, toks[r.i] = w, w \in DOMAIN In(c)!T.Ones, ~ r.ones,
           w \in In(c)!T.NumArticles =>
              r.tens \/ r.cur # 0 \/ ~ In(c)!startsScale(toks, r.i + 1)
    PROVE  Past(In(c)!RunStep(toks, r), r, r.total, r.cur + In(c)!T.Ones[w], TRUE, r.tens, r.hund)
  <1>1. /\ w \notin DOMAIN In(c)!T.Tens /\ w \notin DOMAIN In(c)!T.Hundreds /\ w \notin In(c)!T.ScaleHundred
        /\ w \notin DOMAIN In(c)!T.ScaleBig /\ w \notin In(c)!T.DozenWords /\ w \notin In(c)!T.HalfWords
        /\ w \notin In(c)!T.NumConnectors /\ w \notin DOMAIN In(c)!Digits
    <2>1. w \in Roles(In(c)!T)[1]
      BY RolesOf
    <2>2. 1 \in 1 .. 9
      OBVIOUS
    <2> QED BY <2>1, <2>2, RoleWords
  <1>2. In(c)!Fits(r, w)
    BY DEF In!Fits
  <1>3. r.cur + In(c)!T.Ones[w] \in Int
    BY Tables DEF RunStates, In!OneOr
  <1> QED BY <1>1, <1>2, <1>3, GoPast DEF In!RunStep

LEMMA StepTens ==
    ASSUME NEW c \in DOMAIN Packs, NEW toks, NEW r \in RunStates, ~ r.done,
           NEW w, toks[r.i] = w, w \in DOMAIN In(c)!T.Tens, ~ r.ones, ~ r.tens
    PROVE  Past(In(c)!RunStep(toks, r), r, r.total, r.cur + In(c)!T.Tens[w], r.ones, TRUE, r.hund)
  <1>1. /\ w \notin DOMAIN In(c)!T.Ones /\ w \notin DOMAIN In(c)!T.Hundreds /\ w \notin In(c)!T.ScaleHundred
        /\ w \notin DOMAIN In(c)!T.ScaleBig /\ w \notin In(c)!T.DozenWords /\ w \notin In(c)!T.HalfWords
        /\ w \notin In(c)!T.NumConnectors /\ w \notin DOMAIN In(c)!Digits /\ w \notin In(c)!T.NumArticles
    <2>1. w \in Roles(In(c)!T)[2]
      BY RolesOf
    <2>2. 2 \in 1 .. 9
      OBVIOUS
    <2> QED BY <2>1, <2>2, RoleWords
  <1>2. In(c)!Fits(r, w)
    BY DEF In!Fits
  <1>3. r.cur + In(c)!T.Tens[w] \in Int
    BY Tables DEF RunStates, In!OneOr
  <1> QED BY <1>1, <1>2, <1>3, GoPast DEF In!RunStep

LEMMA StepHundreds ==
    ASSUME NEW c \in DOMAIN Packs, NEW toks, NEW r \in RunStates, ~ r.done,
           NEW w, toks[r.i] = w, w \in DOMAIN In(c)!T.Hundreds, ~ r.ones, ~ r.tens, ~ r.hund
    PROVE  Past(In(c)!RunStep(toks, r), r, r.total, r.cur + In(c)!T.Hundreds[w], r.ones, r.tens, TRUE)
  <1>1. /\ w \notin DOMAIN In(c)!T.Ones /\ w \notin DOMAIN In(c)!T.Tens /\ w \notin In(c)!T.ScaleHundred
        /\ w \notin DOMAIN In(c)!T.ScaleBig /\ w \notin In(c)!T.DozenWords /\ w \notin In(c)!T.HalfWords
        /\ w \notin In(c)!T.NumConnectors /\ w \notin DOMAIN In(c)!Digits /\ w \notin In(c)!T.NumArticles
    <2>1. w \in Roles(In(c)!T)[3]
      BY RolesOf
    <2>2. 3 \in 1 .. 9
      OBVIOUS
    <2> QED BY <2>1, <2>2, RoleWords
  <1>2. In(c)!Fits(r, w)
    BY DEF In!Fits
  <1>3. r.cur + In(c)!T.Hundreds[w] \in Int
    BY Tables DEF RunStates, In!OneOr
  <1> QED BY <1>1, <1>2, <1>3, GoPast DEF In!RunStep

LEMMA StepScaleHundred ==
    ASSUME NEW c \in DOMAIN Packs, NEW toks, NEW r \in RunStates, ~ r.done,
           NEW w, toks[r.i] = w, w \in In(c)!T.ScaleHundred, ~ r.hund
    PROVE  Past(In(c)!RunStep(toks, r), r, r.total, 100 * In(c)!OneOr(r.cur), FALSE, FALSE, TRUE)
  <1>1. /\ w \notin DOMAIN In(c)!T.Ones /\ w \notin DOMAIN In(c)!T.Tens /\ w \notin DOMAIN In(c)!T.Hundreds
        /\ w \notin DOMAIN In(c)!T.ScaleBig /\ w \notin In(c)!T.DozenWords /\ w \notin In(c)!T.HalfWords
        /\ w \notin In(c)!T.NumConnectors /\ w \notin DOMAIN In(c)!Digits /\ w \notin In(c)!T.NumArticles
    <2>1. w \in Roles(In(c)!T)[4]
      BY RolesOf
    <2>2. 4 \in 1 .. 9
      OBVIOUS
    <2> QED BY <2>1, <2>2, RoleWords
  <1>3. 100 * In(c)!OneOr(r.cur) \in Int
    BY Tables DEF RunStates, In!OneOr
  <1> QED BY <1>1, <1>3, GoPast DEF In!RunStep

LEMMA StepScaleBig ==
    ASSUME NEW c \in DOMAIN Packs, NEW toks, NEW r \in RunStates, ~ r.done,
           NEW w, toks[r.i] = w, w \in DOMAIN In(c)!T.ScaleBig, r.cur # 0 \/ ~ r.started
    PROVE  Past(In(c)!RunStep(toks, r), r, r.total + In(c)!OneOr(r.cur) * In(c)!T.ScaleBig[w], 0, FALSE, FALSE, FALSE)
  <1>1. /\ w \notin DOMAIN In(c)!T.Ones /\ w \notin DOMAIN In(c)!T.Tens /\ w \notin DOMAIN In(c)!T.Hundreds
        /\ w \notin In(c)!T.ScaleHundred /\ w \notin In(c)!T.DozenWords /\ w \notin In(c)!T.HalfWords
        /\ w \notin In(c)!T.NumConnectors /\ w \notin DOMAIN In(c)!Digits /\ w \notin In(c)!T.NumArticles
    <2>1. w \in Roles(In(c)!T)[5]
      BY RolesOf
    <2>2. 5 \in 1 .. 9
      OBVIOUS
    <2> QED BY <2>1, <2>2, RoleWords
  <1>3. r.total + In(c)!OneOr(r.cur) * In(c)!T.ScaleBig[w] \in Int
    BY Tables DEF RunStates, In!OneOr
  <1> QED BY <1>1, <1>3, GoPast DEF In!RunStep

LEMMA StepConnector ==
    ASSUME NEW c \in DOMAIN Packs, NEW toks, NEW r \in RunStates, ~ r.done,
           NEW w, toks[r.i] = w, w \in In(c)!T.NumConnectors, r.started,
           In(c)!At(toks, r.i + 1) \in In(c)!Small
    PROVE  Past(In(c)!RunStep(toks, r), r, r.total, r.cur, r.ones, r.tens, r.hund)
  <1>1. /\ w \notin DOMAIN In(c)!T.Ones /\ w \notin DOMAIN In(c)!T.Tens /\ w \notin DOMAIN In(c)!T.Hundreds
        /\ w \notin In(c)!T.ScaleHundred /\ w \notin DOMAIN In(c)!T.ScaleBig /\ w \notin In(c)!T.DozenWords
        /\ w \notin In(c)!T.HalfWords /\ w \notin DOMAIN In(c)!Digits /\ w \notin In(c)!T.NumArticles
    <2>1. w \in Roles(In(c)!T)[8]
      BY RolesOf
    <2>2. 8 \in 1 .. 9
      OBVIOUS
    <2> QED BY <2>1, <2>2, RoleWords
  <1>3. 0 \in Int
    OBVIOUS
  <1> QED BY <1>1, <1>3, GoPast DEF In!RunStep

\* What is heard of a run that ends before a word of no numeral.
LEMMA RunResults ==
    ASSUME NEW c \in DOMAIN Packs, NEW toks \in Words, NEW r \in RunStates, r.started, ~ r.done,
           r.i <= Len(toks) + 1, r.i <= Len(toks) => toks[r.i] \notin Numerals(In(c)!T)
    PROVE  LET q == In(c)!Run(toks, r) IN q.i = r.i /\ q.started /\ q.total = r.total /\ q.cur = r.cur
  <1> DEFINE q == In(c)!Run(toks, r)
             e == [r EXCEPT !.done = TRUE]
  <1>1. r.i \in Nat /\ Len(toks) \in Nat
    BY DEF RunStates, Words
  <1>2. CASE r.i > Len(toks)
    BY <1>2, RunOver
  <1>3. CASE r.i <= Len(toks)
    <2>1. In(c)!RunStep(toks, r) = e
      BY <1>3, RunStops
    <2>2. q = In(c)!Run(toks, e)
      BY <1>3, <2>1, RunOn
    <2>3. e \in RunStates /\ e.done /\ e.i = r.i /\ e.started /\ e.total = r.total /\ e.cur = r.cur
      BY DEF RunStates
    <2>4. In(c)!Run(toks, e) = e
      BY <2>3, RunOver
    <2> QED BY <2>2, <2>3, <2>4
  <1> QED BY <1>1, <1>2, <1>3

\* The number a run gives, when it begins no vague phrase.
LEMMA HeardRun ==
    ASSUME NEW c \in DOMAIN Packs, NEW toks \in Words, NEW i \in 1 .. Len(toks),
           In(c)!VagueAt(toks, i).n = 0,
           NEW q, q = In(c)!Run(toks, Begun(i, 0, FALSE)), q.started
    PROVE  HeardIn(c, toks, i) = <<In(c)!Number(toks, q.total + q.cur, FALSE, i, q.i)>>
  <1> DEFINE v == In(c)!VagueAt(toks, i)
             run == In(c)!parseRun(toks, i)
  <1>1. ~ (v.n > 0)
    OBVIOUS
  <1>2. HeardIn(c, toks, i) = In(c)!Heard(toks, i, v, In(c)!NoRun, run)
    BY <1>1 DEF HeardIn, In!HeardAt
  <1>3. ~ In(c)!NoRun.ok
    BY DEF In!NoRun
  <1>4. run = In(c)!RunResult(q, i, FALSE)
    BY DEF In!parseRun, In!parseRunFrom, Begun
  <1>5. run.ok /\ run.value = q.total + q.cur /\ run.end = q.i
    BY <1>4 DEF In!RunResult
  <1> HIDE DEF v, run
  <1> QED BY <1>1, <1>2, <1>3, <1>5 DEF In!Heard

\* A word that marks the number behind it as approximate, alone.
LEMMA MarkedAlone ==
    ASSUME NEW c \in DOMAIN Packs, NEW toks \in Words, NEW i \in 2 .. Len(toks),
           <<toks[i - 1]>> \in In(c)!T.approxSet,
           toks[i - 1] \notin WordsOf(In(c)!T.approxSet \ {<<toks[i - 1]>>})
    PROVE  In(c)!MatchApproxEndingAt(toks, i) = 1
  <1> DEFINE m == In(c)!MatchApproxEndingAt(toks, i)
             At(j) == In(c)!MatchAt(In(c)!T.approxSet, toks, j)
  <1>1. i \in Nat /\ i <= Len(toks) + 1 /\ Len(toks) \in Nat /\ i - 1 \in 1 .. Len(toks)
    BY DEF Words
  <1>2. /\ m \in 0 .. 3 /\ (m > 0 => i - m >= 1 /\ At(i - m) = m)
        /\ \A n \in 1 .. 3 : i - n >= 1 /\ At(i - n) = n => n <= m
    BY <1>1, ApproxBefore
  <1>3. At(i - 1) = 1 /\ \A j \in 1 .. (i - 1 - 1) : j + At(j) <= i - 1
    <2> DEFINE k == i - 1
    <2>1. k \in 1 .. Len(toks) /\ <<toks[k]>> \in In(c)!T.approxSet
          /\ toks[k] \notin WordsOf(In(c)!T.approxSet \ {<<toks[k]>>})
      BY <1>1
    <2>2. In(c)!T.approxSet \in SUBSET (Words \ {<<>>})
      BY Tables
    <2> HIDE DEF k
    <2>3. At(k) = 1 /\ \A j \in 1 .. (k - 1) : j + At(j) <= k
      BY <2>1, <2>2, MatchedAlone
    <2> QED BY <2>3 DEF k
  <1> HIDE DEF m, At
  <1>4. m >= 1
    BY <1>1, <1>2, <1>3
  <1>5. m > 1 => i - m \in 1 .. (i - 1 - 1)
    BY <1>1, <1>2
  <1>6. m > 1 => (i - m) + At(i - m) <= i - 1 /\ At(i - m) = m
    BY <1>2, <1>3, <1>5
  <1>7. m = 1
    BY <1>1, <1>2, <1>4, <1>6
  <1> QED BY <1>7 DEF m

\* "about thirty reels", at i.
Thirty(i) == [value |-> 30, vague |-> FALSE, approx |-> TRUE, start |-> i, end |-> i + 1, mark |-> i - 1]

LEMMA ThirtyHeard ==
    ASSUME NEW toks \in Words, NEW i \in 2 .. (Len(toks) - 1),
           toks[i - 1] = "about", toks[i] = "thirty", toks[i + 1] = "reels"
    PROVE  HeardIn("en", toks, i) = <<Thirty(i)>>
  <1> DEFINE t == In("en")!T
             b == Begun(i, 0, FALSE)
             r == In("en")!RunStep(toks, b)
             q == In("en")!Run(toks, b)
  <1>0. "en" \in DOMAIN Packs /\ t = En!T
    BY OfEnglish
  <1>1. i \in Nat /\ i + 1 \in Nat /\ Len(toks) \in Nat /\ i + 1 <= Len(toks) /\ i \in 2 .. Len(toks)
        /\ i \in 1 .. Len(toks)
    BY DEF Words
  <1>2. /\ "thirty" \in DOMAIN t.Tens /\ t.Tens["thirty"] = 30
        /\ "thirty" \notin WordsOf(DOMAIN t.vagues) /\ "reels" \notin NumberWords(t)
        /\ <<"about">> \in t.approxSet /\ "about" \notin WordsOf(t.approxSet \ {<<"about">>})
    BY <1>0, EnglishWords
  <1>3. In("en")!VagueAt(toks, i).n = 0
    <2>1. DOMAIN t.vagues \in SUBSET (Words \ {<<>>})
      BY <1>0, Tables
    <2>2. In("en")!MatchAt(DOMAIN t.vagues, toks, i) = 0
      BY <1>1, <1>2, <2>1, NotMatched
    <2> QED BY <2>2 DEF In!VagueAt
  <1>4. b \in RunStates /\ b.i = i /\ ~ b.done /\ ~ b.ones /\ ~ b.tens /\ b.total = 0 /\ b.cur = 0
    BY <1>1 DEF Begun, RunStates
  <1> HIDE DEF b
  <1>5. Past(r, b, 0, 0 + 30, b.ones, TRUE, b.hund)
    <2>1. Past(r, b, b.total, b.cur + t.Tens["thirty"], b.ones, TRUE, b.hund)
      <3> DEFINE w == "thirty"
      <3>1. toks[b.i] = w /\ w \in DOMAIN t.Tens
        BY <1>2, <1>4
      <3> HIDE DEF w
      <3>2. Past(r, b, b.total, b.cur + t.Tens[w], b.ones, TRUE, b.hund)
        BY <1>0, <1>4, <3>1, StepTens
      <3> QED BY <3>2 DEF w
    <2> QED BY <1>2, <1>4, <2>1
  <1>6. q = In("en")!Run(toks, r)
    BY <1>0, <1>1, <1>4, RunOn
  <1> HIDE DEF r
  <1>7. r \in RunStates /\ r.started /\ ~ r.done /\ r.i = i + 1 /\ r.total = 0 /\ r.cur = 30
    BY <1>4, <1>5 DEF Past
  <1>8. toks[r.i] \notin Numerals(t)
    BY <1>2, <1>7 DEF NumberWords
  <1>9. q.i = i + 1 /\ q.started /\ q.total = 0 /\ q.cur = 30
    <2>1. r.i <= Len(toks) + 1
      BY <1>1, <1>7
    <2> QED BY <1>0, <1>6, <1>7, <1>8, <2>1, RunResults
  <1>10. HeardIn("en", toks, i) = <<In("en")!Number(toks, q.total + q.cur, FALSE, i, q.i)>>
    <2> HIDE DEF q
    <2>1. q = In("en")!Run(toks, Begun(i, 0, FALSE))
      BY DEF q, b
    <2> QED BY <1>0, <1>1, <1>3, <1>9, <2>1, HeardRun
  <1> HIDE DEF q
  <1>11. In("en")!MatchApproxEndingAt(toks, i) = 1
    BY <1>0, <1>1, <1>2, MarkedAlone
  <1>12. In("en")!NaN # 30
    BY DEF In!NaN
  <1>13. q.total + q.cur = 30
    BY <1>9
  <1>14. In("en")!Number(toks, 30, FALSE, i, i + 1) = Thirty(i)
    <2>1. In("en")!Number(toks, 30, FALSE, i, i + 1) =
            [value |-> 30, vague |-> 30 = In("en")!NaN, approx |-> FALSE \/ 1 > 0,
             start |-> i, end |-> i + 1, mark |-> i - 1]
      BY <1>11, Zenon DEF In!Number
    <2>2. (30 = In("en")!NaN) = FALSE /\ (FALSE \/ 1 > 0) = TRUE
      BY <1>12
    <2> QED BY <2>1, <2>2, Zenon DEF Thirty
  <1> QED BY <1>9, <1>10, <1>13, <1>14

-----------------------------------------------------------------------------
(* A span read as a location: segments up to its end. *)

CoverAt(p, used, j) == En!One(En!segAt(p, used, j))
CoverStops(p, used, j, end) ==
    j >= end \/ En!segAt(p, used, j) = {} \/ CoverAt(p, used, j).end > end
CoverOn(p, used, j, end, rest) ==
    IF CoverStops(p, used, j, end) THEN <<>>
    ELSE IF CoverAt(p, used, j).end = end THEN <<CoverAt(p, used, j)>>
    ELSE IF rest = <<>> THEN <<>> ELSE <<CoverAt(p, used, j)>> \o rest

CoversOf(p, used) == {CoverAt(p, used, j) : j \in Nat}

\* cover[j] is the segments from j to the end, or <<>> when they do not reach it.
CoverFrom(p, used, i, end, cover) ==
    /\ cover \in [Nat -> Seq(CoversOf(p, used))]
    /\ En!Cover(p, used, i, end) = cover[i]
    /\ \A j \in Nat : cover[j] = CoverOn(p, used, j, end, cover[CoverAt(p, used, j).end])

LEMMA CoverIsNext ==
    ASSUME NEW p, ParseFits(p), NEW used, NEW end \in Nat, end <= p.n + 1, NEW j \in Nat,
           ~ CoverStops(p, used, j, end)
    PROVE  /\ j \in 0 .. p.n /\ SegmentFits(p, CoverAt(p, used, j), j)
           /\ CoverAt(p, used, j) \in En!segAt(p, used, j)
           /\ CoverAt(p, used, j).end \in Nat /\ CoverAt(p, used, j).end > j
           /\ CoverAt(p, used, j).end <= end
  <1> DEFINE s == CoverAt(p, used, j)
  <1>1. p.n \in Nat
    BY DEF ParseFits
  <1>2. j \in 0 .. p.n /\ En!segAt(p, used, j) # {}
    BY <1>1 DEF CoverStops
  <1>3. s \in En!segAt(p, used, j)
    BY <1>2 DEF CoverAt, En!One
  <1> HIDE DEF s
  <1>4. SegmentFits(p, s, j)
    BY <1>2, <1>3, SegFits
  <1>5. s.end \in Nat /\ s.end > j
    BY <1>1, <1>2, <1>4 DEF SegmentFits
  <1>6. s.end <= end
    BY <1>5 DEF CoverStops, s
  <1> QED BY <1>2, <1>3, <1>4, <1>5, <1>6 DEF s

LEMMA CoverRecurs ==
    ASSUME NEW p, ParseFits(p), NEW used, NEW i \in Nat, NEW end \in Nat, end <= p.n + 1
    PROVE  \E cover : CoverFrom(p, used, i, end, cover)
  <1> DEFINE n == p.n
             stop(j) == CoverStops(p, used, j, end)
             seg(j) == CoverAt(p, used, j)
             All == CoversOf(p, used)
             V == Seq(All)
             next == [j \in Nat |-> IF stop(j) THEN j + 1 ELSE seg(j).end]
             On(j, s) == CoverOn(p, used, j, end, s)
             G == [x \in Nat \X V |-> On(x[1], x[2])]
             Is(f) == f = [j \in Nat |-> On(j, f[seg(j).end])]
             cover == CHOOSE f : Is(f)
  <1>1. n \in Nat
    BY DEF ParseFits
  <1>2. ASSUME NEW j \in Nat, ~ stop(j)
        PROVE  j <= n /\ seg(j).end \in Nat /\ seg(j).end > j
    BY <1>1, <1>2, CoverIsNext
  <1>3. \A j \in Nat : seg(j) \in All
    BY DEF CoversOf
  <1>4. \A j \in Nat : j > n => stop(j)
    BY <1>1 DEF CoverStops
  <1>5. En!Cover(p, used, i, end) = cover[i]
    BY Zenon DEF En!Cover, CoverOn, CoverStops, CoverAt
  <1>6. \A j \in Nat : \A s : stop(j) => On(j, s) = <<>>
    BY DEF CoverOn
  <1> HIDE DEF n, stop, seg, All
  <1>7. next \in [Nat -> Nat] /\ \A j \in Nat : next[j] > j
    BY <1>2
  <1>8. ASSUME NEW j \in Nat, NEW s \in V
        PROVE  On(j, s) \in V
    <2>1. <<>> \in V
      OBVIOUS
    <2>2. <<seg(j)>> \o s \in V /\ <<seg(j)>> \in V
      BY <1>3, Prepended
    <2> HIDE DEF V
    <2> QED BY <2>1, <2>2 DEF CoverOn, seg
  <1>9. <<>> \in V
    OBVIOUS
  <1> HIDE DEF V, On
  <1>10. G \in [Nat \X V -> V]
    BY <1>8
  <1>11. \A j \in Nat, s \in V : G[<<j, s>>] = On(j, s)
    OBVIOUS
  <1>12. \A j \in Nat : ~ stop(j) => next[j] = seg(j).end
    OBVIOUS
  <1> HIDE DEF G, next
  <1>13. PICK f \in [Nat -> V] : Walks(f, n, next, G)
    BY <1>1, <1>7, <1>9, <1>10, WalkExists
  <1>14. Is(f)
    <2>1. ASSUME NEW j \in Nat
          PROVE  f[j] = On(j, f[seg(j).end])
      <3>1. f[j] = IF j > n THEN <<>> ELSE G[<<j, f[next[j]]>>]
        BY <1>13 DEF Walks
      <3>2. f[next[j]] \in V
        BY <1>7
      <3>3. G[<<j, f[next[j]]>>] = On(j, f[next[j]])
        BY <1>11, <3>2
      <3>4. CASE stop(j)
        <4>1. On(j, f[seg(j).end]) = <<>> /\ On(j, f[next[j]]) = <<>>
          BY <1>6, <3>4
        <4> QED BY <3>1, <3>3, <4>1
      <3>5. CASE ~ stop(j)
        <4>1. ~ j > n
          BY <1>4, <3>5
        <4> QED BY <1>12, <3>1, <3>3, <3>5, <4>1
      <3> QED BY <3>4, <3>5
    <2> QED BY <2>1
  <1>15. Is(cover)
    <2> HIDE DEF Is
    <2> QED BY <1>14
  <1>16. /\ \A j \in Nat : cover[j] = On(j, cover[seg(j).end])
         /\ cover = [j \in Nat |-> cover[j]]
    <2> HIDE DEF cover
    <2>1. \A j \in Nat : cover[j] = On(j, cover[seg(j).end])
      BY <1>15
    <2>2. cover = [j \in Nat |-> On(j, cover[seg(j).end])]
      BY <1>15
    <2> QED BY <2>1, <2>2
  <1> HIDE DEF cover
  <1>17. \A j \in Nat : j > n => cover[j] \in V
    BY <1>4, <1>6, <1>9, <1>16
  <1>18. ASSUME NEW j \in Nat, j <= n, \A k \in Nat : k > j => cover[k] \in V
         PROVE  cover[j] \in V
    <2>1. CASE stop(j)
      <3>1. On(j, cover[seg(j).end]) = <<>>
        BY <1>6, <2>1
      <3> QED BY <1>9, <1>16, <3>1
    <2>2. CASE ~ stop(j)
      <3>1. seg(j).end \in Nat /\ seg(j).end > j
        BY <1>2, <2>2
      <3>2. cover[seg(j).end] \in V
        BY <1>18, <3>1
      <3>3. On(j, cover[seg(j).end]) \in V
        BY <1>8, <3>2
      <3> QED BY <1>16, <3>3
    <2> QED BY <2>1, <2>2
  <1>19. \A j \in Nat : cover[j] \in V
    <2>0. \A j \in 1 .. n : (\A k \in Nat : k > j => cover[k] \in V) => cover[j] \in V
      BY <1>1, <1>18
    <2>1. \A j \in Nat \ {0} : cover[j] \in V
      BY <1>1, <1>17, <2>0, Downward
    <2>2. cover[0] \in V
      <3>1. 0 \in Nat /\ 0 <= n /\ \A k \in Nat : k > 0 => cover[k] \in V
        BY <1>1, <2>1
      <3> QED BY <1>18, <3>1
    <2> QED BY <2>1, <2>2
  <1>20. cover \in [Nat -> V]
    BY <1>16, <1>19
  <1>21. V = Seq(CoversOf(p, used))
    BY DEF V, All
  <1>22. \A j \in Nat : cover[j] = CoverOn(p, used, j, end, cover[CoverAt(p, used, j).end])
    BY <1>16 DEF On, seg
  <1>23. CoverFrom(p, used, i, end, cover)
    BY <1>5, <1>20, <1>21, <1>22 DEF CoverFrom
  <1> QED BY <1>23

\* A span that begins with a word no location begins with is none.
LEMMA NoCover ==
    ASSUME NEW p, ParseFits(p), NEW used, NEW i \in Nat, NEW end \in Nat, end <= p.n + 1,
           p.w[i] \notin Starts
    PROVE  En!Cover(p, used, i, end) = <<>> /\ En!renderLocation(p, <<>>) = <<>>
  <1>1. PICK cover : CoverFrom(p, used, i, end, cover)
    BY CoverRecurs
  <1>2. En!segAt(p, used, i) = {}
    BY DEF En!segAt, Starts
  <1>3. cover[i] = <<>>
    BY <1>1, <1>2 DEF CoverFrom, CoverOn, CoverStops
  <1>4. En!renderLocation(p, <<>>) = <<>>
    BY DEF En!renderLocation
  <1> QED BY <1>1, <1>3, <1>4 DEF CoverFrom

LEMMA SpanIsCover ==
    ASSUME NEW p, NEW used, NEW start \in Nat, NEW end \in Nat, start < end,
           end - start # 1 \/ p.w[start] \notin En!Codes, p.w[start] \notin En!Letters
    PROVE  En!locationFromSpan(p, used, start, end) = En!renderLocation(p, En!Cover(p, used, start, end))
  <1>1. ~ (start >= end) /\ ~ (end - start = 1 /\ p.w[start] \in En!Codes)
    OBVIOUS
  <1>2. \A a : ~ (end - start > 1 /\ p.w[start] \in En!Letters /\ a # {})
    OBVIOUS
  <1> QED BY <1>1, <1>2, Zenon DEF En!locationFromSpan

-----------------------------------------------------------------------------
(* A correction at the end of an utterance: "no", the first word of the last *)
(* clause, and words that begin no location and no correction.               *)

EndsCorrected(p, s) ==
    /\ ParseFits(p) /\ s \in 1 .. (p.n - 2) /\ p.w[s + 1] = "no"
    /\ \A q \in (s + 2) .. p.n : p.w[q] \notin Starts /\ p.w[q] \notin WordsOf(En!T.negationSet)
    /\ \A i \in 1 .. s, k \in (s + 1) .. p.n : p.clause[i] # p.clause[k]
    /\ \A i, k \in (s + 1) .. p.n : p.clause[i] = p.clause[k]

LEMMA LastClause ==
    ASSUME NEW p, NEW s, EndsCorrected(p, s)
    PROVE  /\ \A i \in 1 .. s : En!clauseEnd(p, i) \in (i + 1) .. (s + 1)
           /\ \A i \in (s + 1) .. p.n : En!clauseEnd(p, i) = p.n + 1
  <1> DEFINE S(i) == {j \in (i + 1) .. (p.n + 1) : j = p.n + 1 \/ p.clause[j] # p.clause[i]}
  <1>1. ParseFits(p) /\ p.n \in Nat /\ s \in Nat /\ s >= 1 /\ s + 2 <= p.n
    BY DEF EndsCorrected, ParseFits
  <1>2. ASSUME NEW i \in 1 .. p.n
        PROVE  En!clauseEnd(p, i) \in S(i) /\ \A y \in S(i) : En!clauseEnd(p, i) <= y
    <2>1. S(i) \in SUBSET Nat /\ p.n + 1 \in S(i)
      BY <1>1
    <2>2. En!clauseEnd(p, i) = En!MinOf(S(i))
      BY DEF En!clauseEnd
    <2> HIDE DEF S
    <2> QED BY <2>1, <2>2, MinIn
  <1>3. ASSUME NEW i \in 1 .. s
        PROVE  En!clauseEnd(p, i) \in (i + 1) .. (s + 1)
    <2>1. i \in 1 .. p.n /\ s + 1 \in (i + 1) .. (p.n + 1)
      BY <1>1
    <2>2. p.clause[s + 1] # p.clause[i]
      <3>1. s + 1 \in (s + 1) .. p.n
        BY <1>1
      <3> QED BY <3>1 DEF EndsCorrected
    <2>3. s + 1 \in S(i)
      BY <2>1, <2>2
    <2>4. En!clauseEnd(p, i) <= s + 1 /\ En!clauseEnd(p, i) \in (i + 1) .. (p.n + 1)
      BY <1>2, <2>1, <2>3
    <2> QED BY <1>1, <2>4
  <1>4. ASSUME NEW i \in (s + 1) .. p.n
        PROVE  En!clauseEnd(p, i) = p.n + 1
    <2>1. i \in 1 .. p.n
      BY <1>1
    <2>2. \A j \in (i + 1) .. p.n : p.clause[j] = p.clause[i]
      <3>1. \A j \in (i + 1) .. p.n : j \in (s + 1) .. p.n
        BY <1>1
      <3> QED BY <3>1 DEF EndsCorrected
    <2>3. \A j \in S(i) : j = p.n + 1
      BY <1>1, <2>2
    <2> QED BY <1>2, <2>1, <2>3
  <1> QED BY <1>3, <1>4

LEMMA LocationBefore ==
    ASSUME NEW p, NEW s, EndsCorrected(p, s)
    PROVE  En!SpanOf(En!extractLocation(p)) \subseteq 1 .. s
  <1> DEFINE at == {i \in 1 .. p.n : En!segAt(p, {}, i) # {}}
             group == En!extractLocation(p)
  <1>0. ParseFits(p) /\ p.n \in Nat /\ s \in Nat /\ s >= 1 /\ s + 2 <= p.n
    BY DEF EndsCorrected, ParseFits
  <1>1. group = IF at = {} THEN <<>> ELSE En!Segments(p, En!MinOf(at))
    BY DEF En!extractLocation
  <1>3. at \subseteq 1 .. p.n /\ at \in SUBSET Nat
    BY <1>0
  <1> HIDE DEF at, group
  <1>4. \E X : group \in Seq(X) /\ \A g \in X : g.start \in 1 .. p.n /\ SegmentFits(p, g, g.start)
    <2>1. CASE at = {}
      <3>1. <<>> \in Seq({}) /\ \A g \in {} : g.start \in 1 .. p.n /\ SegmentFits(p, g, g.start)
        OBVIOUS
      <3> QED BY <1>1, <2>1, <3>1
    <2>2. CASE at # {}
      <3>1. En!MinOf(at) \in 1 .. p.n
        BY <1>3, <2>2, MinIn
      <3> QED BY <1>0, <1>1, <2>2, <3>1, SegmentsFit
    <2> QED BY <2>1, <2>2
  <1>5. PICK X : group \in Seq(X) /\ \A g \in X : g.start \in 1 .. p.n /\ SegmentFits(p, g, g.start)
    BY <1>4
  <1>6. ASSUME NEW q \in En!SpanOf(group)
        PROVE  q \in 1 .. s
    <2>1. PICK k \in DOMAIN group : q \in group[k].start .. (group[k].end - 1)
      BY DEF En!SpanOf, En!Span
    <2> DEFINE a == group[k].start
               b == group[k].end
    <2>2. a \in 1 .. p.n /\ SegmentFits(p, group[k], a)
      BY <1>5
    <2>3. /\ b \in (a + 1) .. (p.n + 1) /\ p.w[a] \in Starts
          /\ \A x \in a .. (b - 1) : p.clause[x] = p.clause[a]
      BY <2>2 DEF SegmentFits
    <2>4. q \in a .. (b - 1)
      BY <2>1
    <2> HIDE DEF a, b
    <2>5. a <= s
      <3>1. a \in (s + 2) .. p.n => p.w[a] \notin Starts
        BY DEF EndsCorrected
      <3>2. p.w[s + 1] \notin Starts
        BY EnglishWords DEF EndsCorrected
      <3>3. a = s + 1 \/ a \in (s + 2) .. p.n \/ a <= s
        BY <1>0, <2>2
      <3> QED BY <2>3, <3>1, <3>2, <3>3
    <2>6. a \in 1 .. s /\ q \in 1 .. p.n /\ p.clause[q] = p.clause[a]
      BY <1>0, <2>2, <2>3, <2>4, <2>5
    <2>7. q \notin (s + 1) .. p.n
      BY <2>6 DEF EndsCorrected
    <2> QED BY <1>0, <2>6, <2>7
  <1> QED BY <1>6 DEF group

\* The words before the correction, corrected: no word of it is taken.
LEMMA MarkerBefore ==
    ASSUME NEW p, NEW s, EndsCorrected(p, s)
    PROVE  /\ En!MatchAt(En!T.negationSet, p.w, s + 1) = 1
           /\ \A i \in 1 .. s : i + En!MatchAt(En!T.negationSet, p.w, i) <= s + 1
           /\ \A i \in (s + 2) .. p.n : En!MatchAt(En!T.negationSet, p.w, i) = 0
  <1> DEFINE ph == En!T.negationSet
             At(i) == In("en")!MatchAt(ph, p.w, i)
             k == s + 1
  <1>1. ParseFits(p) /\ p.n \in Nat /\ s \in Nat /\ s >= 1 /\ s + 2 <= p.n /\ p.w \in Words /\ Len(p.w) = p.n
    BY DEF EndsCorrected, ParseFits
  <1>2. \A i : En!MatchAt(ph, p.w, i) = At(i)
    BY OfEnglish
  <1>3. ph \in SUBSET (Words \ {<<>>})
    BY EnglishTables
  <1>4. k \in 1 .. Len(p.w) /\ p.w[k] = "no"
    BY <1>1 DEF EndsCorrected
  <1>5. <<p.w[k]>> \in ph /\ p.w[k] \notin WordsOf(ph \ {<<p.w[k]>>})
    BY <1>4, EnglishWords
  <1>6. At(k) = 1 /\ \A j \in 1 .. (k - 1) : j + At(j) <= k
    <2> HIDE DEF k, ph
    <2> QED BY <1>1, <1>3, <1>4, <1>5, MatchedAlone
  <1>7. ASSUME NEW i \in (s + 2) .. p.n
        PROVE  At(i) = 0
    <2>1. p.w[i] \notin WordsOf(ph) /\ i \in Nat
      BY <1>1 DEF EndsCorrected
    <2> HIDE DEF ph
    <2> QED BY <1>1, <1>3, <2>1, NotMatched
  <1> HIDE DEF At, ph
  <1>8. \A i \in 1 .. s : i \in 1 .. (k - 1)
    BY <1>1
  <1> QED BY <1>2, <1>6, <1>7, <1>8 DEF ph

LEMMA NegationBefore ==
    ASSUME NEW p, NEW s, EndsCorrected(p, s), NEW used, NEW o, o.used \subseteq 1 .. s,
           NEW i \in 2 .. s
    PROVE  En!Negation(p, used, o, i).used \subseteq 1 .. s
  <1> DEFINE n    == En!MatchAt(En!T.negationSet, p.w, i)
             from == i + n
             to   == En!CorrectionEnd(p, i, from)
             taken == used \cup o.used
             loc  == En!locationFromSpan(p, taken, from, to)
             qty  == En!qtyFromSpan(p, from, to)
  <1>1. ParseFits(p) /\ p.n \in Nat /\ s \in Nat /\ s >= 1 /\ s + 2 <= p.n
    BY DEF EndsCorrected, ParseFits
  <1>2. n \in Nat /\ from <= s + 1
    <2>1. n \in Nat
      <3>1. p.w \in Words /\ i \in Nat
        BY <1>1 DEF ParseFits
      <3> QED BY <3>1, EnglishTables, EnglishMatched
    <2>2. i \in 1 .. s
      BY <1>1
    <2> QED BY <2>1, <2>2, MarkerBefore
  <1>3. En!clauseEnd(p, i) \in (i + 1) .. (s + 1)
    BY <1>1, LastClause
  <1>4. \/ En!Negation(p, used, o, i) = o
        \/ n > 0 /\ from < to /\ (loc # <<>> \/ qty # {})
           /\ En!Negation(p, used, o, i).used = o.used \cup En!Span(i, to)
    <2>1. En!Negation(p, used, o, i) =
            IF n > 0 /\ from < to /\ ({i} \cup En!Span(from, to)) \cap taken = {}
            THEN En!Replace(o, loc, qty, En!Span(i, to)) ELSE o
      BY DEF En!Negation, En!CorrectionAt, En!CorrectedBy
    <2> HIDE DEF n, from, to, taken, loc, qty
    <2> QED BY <2>1 DEF En!Replace, En!Override
  <1>5. ASSUME n > 0, from <= s, from < to
        PROVE  En!Span(i, to) \subseteq 1 .. s
    <2>1. from \in 1 .. s
      BY <1>1, <1>2, <1>5
    <2> HIDE DEF from
    <2>2. En!clauseEnd(p, from) \in (from + 1) .. (s + 1)
      BY <2>1, LastClause
    <2>3. to \in Int /\ to <= s + 1
      BY <1>1, <1>2, <1>3, <2>1, <2>2 DEF En!CorrectionEnd
    <2> HIDE DEF to
    <2> QED BY <1>1, <2>3 DEF En!Span
  <1>6. ASSUME n > 0, from = s + 1
        PROVE  loc = <<>> /\ qty = {}
    <2>1. to = p.n + 1
      <3>1. En!clauseEnd(p, s + 1) = p.n + 1
        BY <1>1, LastClause
      <3>2. ~ (s + 1 < En!clauseEnd(p, i)) /\ ~ (s + 1 > p.n)
        BY <1>1, <1>3
      <3>3. to = IF s + 1 < En!clauseEnd(p, i) THEN En!clauseEnd(p, i)
                 ELSE IF s + 1 > p.n THEN s + 1 ELSE En!clauseEnd(p, s + 1)
        BY <1>6, Zenon DEF En!CorrectionEnd
      <3> QED BY <3>1, <3>2, <3>3
    <2>2. p.w[s + 1] = "no" /\ "no" \notin Starts /\ "no" \notin NumberWords(En!T)
          /\ "no" \notin WordsOf(En!T.approxSet) /\ "no" \notin En!Letters
      BY EnglishWords DEF EndsCorrected, En!Letters
    <2>3. loc = <<>>
      <3>1. loc = En!locationFromSpan(p, taken, s + 1, p.n + 1)
        BY <1>6, <2>1
      <3>2. En!Cover(p, taken, s + 1, p.n + 1) = <<>> /\ En!renderLocation(p, <<>>) = <<>>
        <4>1. s + 1 \in Nat /\ p.n + 1 \in Nat /\ p.n + 1 <= p.n + 1 /\ p.w[s + 1] \notin Starts
          BY <1>1, <2>2
        <4> QED BY <1>1, <4>1, NoCover
      <3>3. ~ (s + 1 >= p.n + 1) /\ (p.n + 1) - (s + 1) # 1 /\ p.w[s + 1] \notin En!Letters
        BY <1>1, <2>2
      <3> HIDE DEF taken
      <3>4. En!locationFromSpan(p, taken, s + 1, p.n + 1) = <<>>
        <4>1. s + 1 \in Nat /\ p.n + 1 \in Nat /\ s + 1 < p.n + 1
          BY <1>1
        <4> DEFINE a == s + 1
                   b == p.n + 1
        <4>2. a \in Nat /\ b \in Nat /\ a < b /\ b - a # 1 /\ p.w[a] \notin En!Letters
              /\ En!Cover(p, taken, a, b) = <<>>
          BY <3>2, <3>3, <4>1
        <4> HIDE DEF a, b
        <4>3. En!locationFromSpan(p, taken, a, b) = En!renderLocation(p, En!Cover(p, taken, a, b))
          BY <4>2, SpanIsCover, SMTT(30)
        <4> QED BY <3>2, <4>2, <4>3 DEF a, b
      <3> QED BY <3>1, <3>4
    <2>4. qty = {}
      <3> DEFINE at == {k \in DOMAIN p.nums : s + 1 \in {p.nums[k].mark, p.nums[k].start}}
      <3>1. ASSUME NEW k \in at
            PROVE  FALSE
        <4> DEFINE x == p.nums[k]
        <4>1. NumberFits(x, p.n) /\ NumberAt("en", p.w, x.start, x)
          BY <1>1, NumberOfParse
        <4>2. s + 1 = x.mark \/ s + 1 = x.start
          OBVIOUS
        <4> HIDE DEF x
        <4>3. /\ x.start \in 1 .. p.n /\ x.end \in (x.start + 1) .. (p.n + 1) /\ x.mark \in 1 .. x.start
              /\ \A q \in x.start .. (x.end - 1) : p.w[q] \in NumberWords(En!T)
              /\ \A q \in x.mark .. (x.start - 1) : p.w[q] \in WordsOf(En!T.approxSet)
          BY <4>1, OfEnglish DEF NumberFits, NumberAt
        <4>4. s + 1 \in x.start .. (x.end - 1) \/ s + 1 \in x.mark .. (x.start - 1)
          BY <1>1, <4>2, <4>3
        <4> QED BY <2>2, <4>3, <4>4
      <3>2. at = {}
        <4> HIDE DEF at
        <4> QED BY <3>1
      <3> QED BY <1>6, <3>2 DEF En!qtyFromSpan
    <2> QED BY <2>3, <2>4
  <1>7. CASE En!Negation(p, used, o, i) = o
    BY <1>7
  <1>8. CASE n > 0 /\ from < to /\ (loc # <<>> \/ qty # {})
             /\ En!Negation(p, used, o, i).used = o.used \cup En!Span(i, to)
    <2>1. n > 0 /\ from < to /\ (loc # <<>> \/ qty # {})
          /\ En!Negation(p, used, o, i).used = o.used \cup En!Span(i, to)
      BY <1>8
    <2>2. from <= s
      <3>1. from # s + 1
        BY <1>6, <2>1
      <3>2. from \in Nat
        BY <1>1, <1>2
      <3> HIDE DEF from
      <3> QED BY <1>1, <1>2, <3>1, <3>2
    <2> HIDE DEF n, from, to, loc, qty
    <2>3. En!Span(i, to) \subseteq 1 .. s
      BY <1>5, <2>1, <2>2
    <2> QED BY <2>1, <2>3
  <1> QED BY <1>4, <1>7, <1>8

\* The slots that a correction or the words themselves fill.
LEMMA SlotsOf ==
    ASSUME NEW p
    PROVE  LET group == En!extractLocation(p)
               used  == En!SpanOf(group)
               ov    == En!applyNegations(p, used)
               c     == En!Count(p, used \cup ov.used, ov)
               q     == IF ov.qty = {} THEN [qty |-> c.value, approx |-> c.approx, unit |-> 0]
                        ELSE En!One(ov.qty)
               r     == En!Parsed(p)
           IN  /\ r.location = IF ov.loc # <<>> THEN ov.loc ELSE En!renderLocation(p, group)
               /\ r.quantity = q.qty /\ r.approx = q.approx /\ r.vague = (ov.qty = {} /\ c.vague)
  <1> DEFINE group == En!extractLocation(p)
             A     == En!SpanOf(group)
             ov    == En!applyNegations(p, A)
             used  == A \cup ov.used
             c     == En!Count(p, used, ov)
             all   == used \cup c.num \cup c.of \cup ({c.unit} \ {0})
             item  == En!ItemSpan(p, all, c.after)
  <1>1. En!Parsed(p) = En!Slots(p, group, ov, c, all, item)
    BY DEF En!Parsed, En!Located, En!Corrected, En!Counted, En!Itemed
  <1> HIDE DEF group, ov, c, all, item
  <1>2. LET q == IF ov.qty = {} THEN [qty |-> c.value, approx |-> c.approx, unit |-> 0]
                 ELSE En!One(ov.qty)
            r == En!Parsed(p)
        IN  /\ r.location = IF ov.loc # <<>> THEN ov.loc ELSE En!renderLocation(p, group)
            /\ r.quantity = q.qty /\ r.approx = q.approx /\ r.vague = (ov.qty = {} /\ c.vague)
    BY <1>1 DEF En!Slots
  <1> QED BY <1>2 DEF c, used, ov, A, group

\* What is said after "no" at the end is the last correction.
LEMMA LastCorrection ==
    ASSUME NEW p, NEW s, EndsCorrected(p, s)
    PROVE  \E o, t : En!applyNegations(p, En!SpanOf(En!extractLocation(p))) =
                        En!Replace(o, En!locationFromSpan(p, t, s + 2, p.n + 1),
                                   En!qtyFromSpan(p, s + 2, p.n + 1), En!Span(s + 1, p.n + 1))
  <1> DEFINE used == En!SpanOf(En!extractLocation(p))
             loc(t) == En!locationFromSpan(p, t, s + 2, p.n + 1)
             qty == En!qtyFromSpan(p, s + 2, p.n + 1)
             span == En!Span(s + 1, p.n + 1)
  <1>1. ParseFits(p) /\ p.n \in Nat /\ s \in Nat /\ s >= 1 /\ s + 2 <= p.n
    BY DEF EndsCorrected, ParseFits
  <1>2. LocationTakes(p, used)
    BY <1>1, LocationSpan
  <1>3. used \subseteq 1 .. s
    BY LocationBefore
  <1> HIDE DEF used
  <1>4. PICK up \in [Nat -> Overrides(p, used)] :
              /\ En!applyNegations(p, used) = up[p.n]
              /\ \A i \in Nat : up[i] = IF i < 2 THEN En!NoOverride
                                        ELSE En!Negation(p, used, up[i - 1], i)
    BY <1>1, <1>2, CorrectionsRecur
  <1> DEFINE before == {i \in Nat : i <= s => up[i].used \subseteq 1 .. s}
             after == {i \in Nat : s + 1 <= i /\ i <= p.n => up[i] = up[s + 1]}
  <1>5. \A i \in Nat : i \in before
    <2>1. 0 \in before
      <3>1. up[0] = En!NoOverride
        BY <1>4
      <3> QED BY <3>1 DEF En!NoOverride
    <2>2. ASSUME NEW i \in Nat, i \in before
          PROVE  i + 1 \in before
      <3>1. CASE i + 1 < 2
        <4>1. up[i + 1] = En!NoOverride
          BY <1>4, <3>1
        <4> QED BY <4>1 DEF En!NoOverride
      <3>2. CASE ~ (i + 1 < 2) /\ i + 1 <= s
        <4>1. up[i + 1] = En!Negation(p, used, up[i], i + 1)
          <5>1. i + 1 \in Nat /\ (i + 1) - 1 = i
            OBVIOUS
          <5> QED BY <1>4, <3>2, <5>1
        <4>2. up[i].used \subseteq 1 .. s /\ i + 1 \in 2 .. s
          BY <1>1, <2>2, <3>2
        <4>3. En!Negation(p, used, up[i], i + 1).used \subseteq 1 .. s
          BY <4>2, NegationBefore
        <4> QED BY <4>1, <4>3
      <3>3. CASE ~ (i + 1 <= s)
        BY <3>3
      <3> QED BY <3>1, <3>2, <3>3
    <2> HIDE DEF before
    <2> QED BY <2>1, <2>2, Inductive
  <1>6. up[s].used \subseteq 1 .. s
    BY <1>1, <1>5
  <1>7. up[s + 1] = En!Replace(up[s], loc(used \cup up[s].used), qty, span)
    <2> DEFINE o == up[s]
               t == used \cup o.used
    <2>1. up[s + 1] = En!Negation(p, used, o, s + 1)
      <3>1. s + 1 \in Nat /\ ~ (s + 1 < 2) /\ (s + 1) - 1 = s
        BY <1>1
      <3> QED BY <1>4, <3>1
    <2>2. En!MatchAt(En!T.negationSet, p.w, s + 1) = 1
      BY MarkerBefore
    <2>3. En!CorrectionEnd(p, s + 1, s + 2) = p.n + 1
      <3>1. En!clauseEnd(p, s + 1) = p.n + 1
        BY <1>1, LastClause
      <3> QED BY <1>1, <3>1 DEF En!CorrectionEnd
    <2>4. ({s + 1} \cup En!Span(s + 2, p.n + 1)) \cap t = {}
      <3>1. t \subseteq 1 .. s
        BY <1>3, <1>6
      <3> HIDE DEF t
      <3> QED BY <1>1, <3>1 DEF En!Span
    <2>5. En!Negation(p, used, o, s + 1) = En!CorrectionAt(p, t, o, s + 1, 1)
      BY <2>2 DEF En!Negation
    <2>6. 1 > 0 /\ s + 2 < p.n + 1 /\ (s + 1) + 1 = s + 2
      BY <1>1
    <2> HIDE DEF t, o
    <2>7. En!CorrectionAt(p, t, o, s + 1, 1) = En!Replace(o, loc(t), qty, span)
      BY <2>3, <2>4, <2>6 DEF En!CorrectionAt, En!CorrectedBy
    <2> QED BY <2>1, <2>5, <2>7 DEF t, o
  <1>8. \A i \in Nat : i \in after
    <2>1. 0 \in after
      BY <1>1
    <2>2. ASSUME NEW i \in Nat, i \in after
          PROVE  i + 1 \in after
      <3>1. CASE s + 1 <= i /\ i + 1 <= p.n
        <4>1. i + 1 \in Nat /\ (i + 1) - 1 = i /\ ~ (i + 1 < 2) /\ i + 1 \in (s + 2) .. p.n
          BY <1>1, <3>1
        <4>2. up[i + 1] = En!Negation(p, used, up[i], i + 1)
          BY <1>4, <4>1
        <4>3. En!MatchAt(En!T.negationSet, p.w, i + 1) = 0
          BY <4>1, MarkerBefore
        <4>4. En!Negation(p, used, up[i], i + 1) = up[i]
          BY <4>3 DEF En!Negation, En!CorrectionAt
        <4> QED BY <1>1, <2>2, <3>1, <4>2, <4>4
      <3>2. CASE ~ (s + 1 <= i /\ i + 1 <= p.n)
        <4>1. s + 1 <= i + 1 /\ i + 1 <= p.n => i + 1 = s + 1
          BY <1>1, <3>2
        <4> QED BY <4>1
      <3> QED BY <3>1, <3>2
    <2> HIDE DEF after
    <2> QED BY <2>1, <2>2, Inductive
  <1>9. up[p.n] = up[s + 1]
    BY <1>1, <1>8
  <1> QED BY <1>4, <1>7, <1>9 DEF used

\* A location code after "no" is the location.
LEMMA CodeWins ==
    ASSUME NEW p, NEW s, EndsCorrected(p, s), p.n = s + 2, p.w[s + 2] = "b-2"
    PROVE  En!Parsed(p).location = << <<"", <<"b", 2>> >> >>
  <1> DEFINE B == << <<"", <<"b", 2>> >> >>
             loc(t) == En!locationFromSpan(p, t, s + 2, p.n + 1)
             qty == En!qtyFromSpan(p, s + 2, p.n + 1)
             span == En!Span(s + 1, p.n + 1)
             ov == En!applyNegations(p, En!SpanOf(En!extractLocation(p)))
  <1>1. p.n \in Nat /\ s \in Nat
    BY DEF EndsCorrected, ParseFits
  <1>2. PICK o, t : ov = En!Replace(o, loc(t), qty, span)
    BY LastCorrection
  <1>3. loc(t) = B
    <2>1. "b-2" \in En!Codes /\ En!CodeValue["b-2"] = <<"b", 2>>
      BY DEF En!Codes, En!CodeValue
    <2>2. "b-2" \notin En!Letters
      BY DEF En!Letters
    <2>3. ~ (s + 2 >= p.n + 1) /\ (p.n + 1) - (s + 2) = 1 /\ ~ ((p.n + 1) - (s + 2) > 1)
      BY <1>1
    <2> QED BY <2>1, <2>2, <2>3 DEF En!locationFromSpan
  <1>4. B # <<>>
    OBVIOUS
  <1> HIDE DEF loc, qty, span, B
  <1>5. ov.loc = B
    BY <1>2, <1>3, <1>4 DEF En!Replace, En!Override
  <1>6. En!Parsed(p).location = ov.loc
    <2>1. ov.loc # <<>>
      BY <1>4, <1>5
    <2> QED BY <2>1, SlotsOf
  <1> QED BY <1>5, <1>6 DEF B

\* A number with its mark and a unit after "no" is the quantity.
LEMMA ThirtyWins ==
    ASSUME NEW p, NEW s, EndsCorrected(p, s), p.n = s + 4,
           p.w[s + 2] = "about", p.w[s + 3] = "thirty", p.w[s + 4] = "reels"
    PROVE  CountsThirty(En!Parsed(p))
  <1> DEFINE Q == [qty |-> 30, approx |-> TRUE, unit |-> s + 4]
             loc(t) == En!locationFromSpan(p, t, s + 2, p.n + 1)
             qty == En!qtyFromSpan(p, s + 2, p.n + 1)
             span == En!Span(s + 1, p.n + 1)
             ov == En!applyNegations(p, En!SpanOf(En!extractLocation(p)))
             at == {k \in DOMAIN p.nums : s + 2 \in {p.nums[k].mark, p.nums[k].start}}
             i == s + 3
  <1>0. /\ ParseFits(p) /\ p.n \in Nat /\ s \in Nat /\ s >= 1 /\ p.w \in Words /\ Len(p.w) = p.n
        /\ p.nums = In("en")!ScanNumbers(p.w) /\ "en" \in DOMAIN Packs /\ En!T = In("en")!T
    BY OfEnglish DEF EndsCorrected, ParseFits
  <1>1. /\ "about" \notin Starts /\ "about" \notin NumberWords(En!T) /\ "about" \notin En!Letters
        /\ "thirty" \notin WordsOf(En!T.approxSet) /\ "reels" \in En!T.Units
    BY EnglishWords DEF En!Letters
  <1>2. PICK o, t : ov = En!Replace(o, loc(t), qty, span)
    BY LastCorrection
  <1>3. loc(t) = <<>>
    <2> DEFINE a == s + 2
               b == p.n + 1
    <2>1. a \in Nat /\ b \in Nat /\ a < b /\ b - a # 1 /\ b <= p.n + 1
      BY <1>0
    <2>2. p.w[a] \notin En!Letters /\ p.w[a] \notin Starts
      BY <1>1
    <2> HIDE DEF a, b
    <2>3. En!Cover(p, t, a, b) = <<>> /\ En!renderLocation(p, <<>>) = <<>>
      BY <1>0, <2>1, <2>2, NoCover
    <2>4. En!locationFromSpan(p, t, a, b) = En!renderLocation(p, En!Cover(p, t, a, b))
      BY <2>1, <2>2, SpanIsCover
    <2> QED BY <2>3, <2>4 DEF a, b
  <1>4. i \in 2 .. (Len(p.w) - 1) /\ i \in 1 .. Len(p.w) /\ i - 1 = s + 2 /\ i + 1 = s + 4
        /\ p.w[i - 1] = "about" /\ p.w[i] = "thirty" /\ p.w[i + 1] = "reels"
    BY <1>0
  <1> HIDE DEF i
  <1>5. HeardIn("en", p.w, i) = <<Thirty(i)>>
    BY <1>0, <1>4, ThirtyHeard
  <1>6. \E k \in DOMAIN p.nums : p.nums[k] = Thirty(i)
    <2>1. i > 1 => p.w[i - 1] \notin NumberWords(In("en")!T)
      BY <1>0, <1>1, <1>4
    <2> QED BY <1>0, <1>4, <1>5, <2>1, HeardIsNumber
  <1>7. at # {}
    <2>1. PICK k \in DOMAIN p.nums : p.nums[k] = Thirty(i)
      BY <1>6
    <2>2. p.nums[k].mark = s + 2
      BY <1>4, <2>1 DEF Thirty
    <2> QED BY <2>2
  <1>8. ASSUME NEW k \in at
        PROVE  p.nums[k] = Thirty(i)
    <2> DEFINE x == p.nums[k]
    <2>1. NumberFits(x, p.n) /\ NumberAt("en", p.w, x.start, x) /\ HeardIn("en", p.w, x.start) = <<x>>
      BY <1>0, NumberOfParse
    <2>2. s + 2 = x.mark \/ s + 2 = x.start
      OBVIOUS
    <2> HIDE DEF x
    <2>3. /\ x.start \in 1 .. p.n /\ x.end \in (x.start + 1) .. (p.n + 1) /\ x.mark \in 1 .. x.start
          /\ \A q \in x.start .. (x.end - 1) : p.w[q] \in NumberWords(En!T)
          /\ \A q \in x.mark .. (x.start - 1) : p.w[q] \in WordsOf(En!T.approxSet)
      BY <1>0, <2>1 DEF NumberFits, NumberAt
    <2>4. x.start # s + 2
      <3>1. x.start = s + 2 => s + 2 \in x.start .. (x.end - 1)
        BY <1>0, <2>3
      <3> QED BY <1>1, <2>3, <3>1
    <2>5. x.start <= s + 3
      <3>1. x.start > s + 3 => s + 3 \in x.mark .. (x.start - 1)
        BY <1>0, <2>2, <2>3
      <3>2. ~ (x.start > s + 3)
        BY <1>1, <2>3, <3>1
      <3> QED BY <1>0, <2>3, <3>2
    <2>6. x.start = i
      BY <1>0, <2>2, <2>3, <2>4, <2>5 DEF i
    <2>7. <<x>> = <<Thirty(i)>>
      BY <1>5, <2>1, <2>6
    <2> QED BY <2>7 DEF x
  <1>9. qty = {Q}
    <2> DEFINE k == En!MinOf(at)
               x == p.nums[k]
    <2>1. k \in at
      <3>1. at \in SUBSET Nat
        BY <1>0, NumberOfParse
      <3> HIDE DEF at
      <3> QED BY <1>7, <3>1, MinIn
    <2>2. x = Thirty(i)
      BY <1>8, <2>1
    <2>3. qty = IF at = {} THEN {} ELSE
                  IF x.vague \/ ~ (x.end = p.n + 1 \/ (x.end = (p.n + 1) - 1 /\ En!IsUnit(p.w[(p.n + 1) - 1])))
                  THEN {} ELSE {[qty |-> x.value, approx |-> x.approx,
                                 unit |-> IF x.end = p.n + 1 THEN 0 ELSE (p.n + 1) - 1]}
      BY Zenon DEF En!qtyFromSpan
    <2> HIDE DEF at, k, x, qty
    <2>4. x.value = 30 /\ ~ x.vague /\ x.approx = TRUE /\ x.end = s + 4
      BY <1>4, <2>2 DEF Thirty
    <2>5. (p.n + 1) - 1 = s + 4 /\ s + 4 # p.n + 1
      BY <1>0
    <2>6. En!IsUnit(p.w[s + 4])
      BY <1>1 DEF En!IsUnit
    <2>7. qty = {[qty |-> 30, approx |-> TRUE, unit |-> s + 4]}
      BY <1>7, <2>3, <2>4, <2>5, <2>6
    <2> QED BY <2>7
  <1> HIDE DEF loc, qty, span, Q, at, i
  <1>10. {Q} # {} /\ En!One({Q}) = Q
    BY DEF En!One
  <1>11. ov.qty = {Q}
    BY <1>2, <1>3, <1>9, <1>10 DEF En!Replace, En!Override
  <1>12. En!Parsed(p).quantity = Q.qty /\ En!Parsed(p).approx = Q.approx /\ ~ En!Parsed(p).vague
    <2> HIDE DEF ov
    <2>1. ov.qty # {} /\ En!One(ov.qty) = Q
      BY <1>10, <1>11
    <2> QED BY <2>1, SlotsOf DEF ov
  <1>13. Q.qty = 30 /\ Q.approx
    BY DEF Q
  <1> QED BY <1>12, <1>13 DEF CountsThirty

\* The tokens as an utterance of their own differ in the last one's clause end.
LEMMA Cloned ==
    ASSUME NEW toks \in Tokens, toks # <<>>
    PROVE  LET c == En!cloneAsUtterance(toks)
               n == Len(toks)
           IN  /\ c \in Tokens /\ Len(c) = n /\ n \in Nat \ {0} /\ c[n].end /\ c # <<>>
               /\ \A i \in 1 .. n : c[i].w = toks[i].w
               /\ \A i \in 1 .. (n - 1) : c[i].end = toks[i].end
  <1> DEFINE Token == [w : STRING, end : BOOLEAN]
             n == Len(toks)
             c == En!cloneAsUtterance(toks)
             last == [toks[n] EXCEPT !.end = TRUE]
  <1>1. \A t \in Token : [t EXCEPT !.end = TRUE].w = t.w /\ [t EXCEPT !.end = TRUE].end
    OBVIOUS
  <1>2. c = [toks EXCEPT ![n] = last]
    BY DEF En!cloneAsUtterance
  <1>3. toks \in Seq(Token) /\ c \in Seq(Token)
    BY CloneIsTokens DEF Tokens
  <1> HIDE DEF Token, c
  <1>4. n \in Nat \ {0} /\ DOMAIN toks = 1 .. n /\ toks[n] \in Token
    BY <1>3, EmptySeq
  <1>5. last.w = toks[n].w /\ last.end
    BY <1>1, <1>4
  <1> HIDE DEF last, n
  <1>6. c[n] = last /\ \A i \in 1 .. (n - 1) : c[i] = toks[i]
    BY <1>2, <1>4
  <1>7. Len(c) = n
    BY <1>2, <1>3, <1>4 DEF n
  <1>8. \A i \in 1 .. n : i = n \/ i \in 1 .. (n - 1)
    BY <1>4
  <1>9. c # <<>>
    BY <1>4, <1>7
  <1>10. c \in Tokens
    BY <1>3 DEF Tokens, Token
  <1> QED BY <1>4, <1>5, <1>6, <1>7, <1>8, <1>9, <1>10 DEF c, n

LEMMA ParseOf ==
    ASSUME NEW toks \in Tokens
    PROVE  LET p == En!newParse(toks) IN
           /\ ParseFits(p) /\ p.n = Len(toks)
           /\ \A i \in 1 .. p.n : p.w[i] = toks[i].w /\ p.clause[i] = En!Clause(toks, i)
  <1> DEFINE p == En!newParse(toks)
  <1>1. ParseFits(p) /\ p.n = Len(toks)
    BY NewParseFits
  <1>2. DOMAIN toks = 1 .. Len(toks)
    BY DEF Tokens
  <1>3. p.w = En!foldsOf(toks) /\ p.clause = [i \in DOMAIN toks |-> En!Clause(toks, i)]
    BY DEF En!newParse
  <1> HIDE DEF p
  <1>4. \A i \in 1 .. p.n : p.w[i] = toks[i].w /\ p.clause[i] = En!Clause(toks, i)
    BY <1>1, <1>2, <1>3 DEF En!foldsOf
  <1> QED BY <1>1, <1>4 DEF p

\* A clause goes on up to a token that ends it.
LEMMA SameClause ==
    ASSUME NEW toks, NEW a \in Nat, NEW b \in Nat, 1 <= a, a <= b
    PROVE  /\ (\A q \in a .. (b - 1) : ~ toks[q].end) => En!Clause(toks, a) = En!Clause(toks, b)
           /\ (\E q \in a .. (b - 1) : toks[q].end) => En!Clause(toks, a) # En!Clause(toks, b)
  <1> DEFINE E(i) == {j \in 1 .. (i - 1) : toks[j].end}
  <1>1. En!Clause(toks, a) = Cardinality(E(a)) /\ En!Clause(toks, b) = Cardinality(E(b))
    <2>1. \A S : En!Cardinality(S) = Cardinality(S)
      BY Zenon DEF En!Cardinality, Cardinality
    <2> QED BY <2>1, Zenon DEF En!Clause
  <1>2. E(a) \subseteq E(b)
    OBVIOUS
  <1>3. ASSUME \A q \in a .. (b - 1) : ~ toks[q].end
        PROVE  E(a) = E(b)
    <2>1. \A q \in 1 .. (b - 1) : q \in 1 .. (a - 1) \/ q \in a .. (b - 1)
      OBVIOUS
    <2> QED BY <1>2, <1>3, <2>1
  <1>4. ASSUME NEW q \in a .. (b - 1), toks[q].end
        PROVE  Cardinality(E(a)) # Cardinality(E(b))
    <2>1. q \in 1 .. (b - 1) /\ q \notin 1 .. (a - 1)
      OBVIOUS
    <2>2. q \in E(b) /\ q \notin E(a)
      BY <1>4, <2>1
    <2>3. IsFiniteSet(E(b))
      <3>1. IsFiniteSet(1 .. (b - 1))
        BY FS_Interval
      <3>2. E(b) \subseteq 1 .. (b - 1)
        OBVIOUS
      <3> HIDE DEF E
      <3> QED BY <3>1, <3>2, FS_Subset
    <2> HIDE DEF E
    <2>4. Cardinality(E(a)) \in Nat /\ Cardinality(E(b)) \in Nat /\ (Cardinality(E(a)) = Cardinality(E(b)) => E(a) = E(b))
      BY <1>2, <2>3, FS_Subset, FS_CardinalityType
    <2> QED BY <2>2, <2>4
  <1> HIDE DEF E
  <1> QED BY <1>1, <1>3, <1>4

\* "no" and some words after it.
LEMMA CorrectionIs ==
    ASSUME NEW ws \in Words \ {<<>>}
    PROVE  /\ Correction(ws) \in Tokens /\ Len(Correction(ws)) = Len(ws) + 1
           /\ Len(ws) \in Nat \ {0} /\ Correction(ws)[1].w = "no"
           /\ \A k \in 1 .. Len(ws) : Correction(ws)[k + 1].w = ws[k]
           /\ \A k \in 1 .. Len(ws) : ~ Correction(ws)[k].end
  <1> DEFINE Token == [w : STRING, end : BOOLEAN]
             m == Len(ws)
             rest == [k \in DOMAIN ws |-> Tok(ws[k])]
             toks == <<Tok("no")>> \o rest
  <1>1. m \in Nat \ {0} /\ DOMAIN ws = 1 .. m /\ \A k \in 1 .. m : ws[k] \in STRING
    BY EmptySeq DEF Words
  <1>2. \A x \in STRING : Tok(x) \in Token /\ Tok(x).w = x /\ ~ Tok(x).end
    BY DEF Tok
  <1>3. rest = [k \in 1 .. m |-> Tok(ws[k])]
    BY <1>1
  <1> HIDE DEF Token, rest, m
  <1>4. rest \in Seq(Token) /\ Len(rest) = m /\ \A k \in 1 .. m : rest[k] = Tok(ws[k])
    <2>1. \A k \in 1 .. m : Tok(ws[k]) \in Token
      BY <1>1, <1>2
    <2> QED BY <1>1, <1>3, <2>1
  <1>5. "no" \in STRING
    BY EnglishAssumption
  <1>6. Tok("no") \in Token /\ Tok("no").w = "no" /\ ~ Tok("no").end
    BY <1>2, <1>5
  <1> DEFINE no == Tok("no")
  <1> HIDE DEF no
  <1>7. no \in Token
    BY <1>6 DEF no
  <1>8. /\ <<no>> \o rest \in Seq(Token) /\ Len(<<no>> \o rest) = m + 1
        /\ (<<no>> \o rest)[1] = no /\ \A k \in 1 .. m : (<<no>> \o rest)[k + 1] = rest[k]
    BY <1>1, <1>4, <1>7
  <1>9. toks = <<no>> \o rest
    BY DEF no
  <1> HIDE DEF toks
  <1>10. toks \in Tokens /\ Len(toks) = m + 1 /\ toks[1] = no /\ \A k \in 1 .. m : toks[k + 1] = Tok(ws[k])
    BY <1>4, <1>8, <1>9 DEF Tokens, Token
  <1>11. toks # <<>>
    BY <1>1, <1>10
  <1>12. Correction(ws) = En!cloneAsUtterance(toks)
    BY DEF Correction, toks, rest
  <1> DEFINE c == En!cloneAsUtterance(toks)
  <1>13. /\ c \in Tokens /\ Len(c) = m + 1
         /\ \A i \in 1 .. (m + 1) : c[i].w = toks[i].w
         /\ \A i \in 1 .. m : c[i].end = toks[i].end
    <2>1. (m + 1) - 1 = m
      BY <1>1
    <2> QED BY <1>10, <1>11, <2>1, Cloned
  <1> HIDE DEF c
  <1>14. c[1].w = "no"
    BY <1>1, <1>6, <1>10, <1>13 DEF no
  <1>15. \A k \in 1 .. m : c[k + 1].w = ws[k]
    <2>1. \A k \in 1 .. m : k + 1 \in 1 .. (m + 1)
      BY <1>1
    <2> QED BY <1>1, <1>2, <1>10, <1>13, <2>1
  <1>16. \A k \in 1 .. m : ~ c[k].end
    <2> SUFFICES ASSUME NEW k \in 1 .. m PROVE ~ toks[k].end
      BY <1>13
    <2>1. CASE k = 1
      BY <1>6, <1>10, <2>1 DEF no
    <2>2. CASE k # 1
      <3>1. k - 1 \in 1 .. m /\ (k - 1) + 1 = k
        BY <1>1, <2>2
      <3>2. toks[k] = Tok(ws[k - 1])
        BY <1>10, <3>1
      <3> QED BY <1>1, <1>2, <3>1, <3>2
    <2> QED BY <2>1, <2>2
  <1> QED BY <1>1, <1>12, <1>13, <1>14, <1>15, <1>16 DEF c, m

LEMMA Joined ==
    ASSUME NEW X, NEW a \in Seq(X), NEW b \in Seq(X)
    PROVE  /\ a \o b \in Seq(X) /\ Len(a \o b) = Len(a) + Len(b)
           /\ \A i \in 1 .. Len(a) : (a \o b)[i] = a[i]
           /\ \A k \in 1 .. Len(b) : (a \o b)[Len(a) + k] = b[k]
  OBVIOUS

\* An utterance with a correction at its end.
LEMMA CorrectedAtEnd ==
    ASSUME NEW S \in Tokens, S # <<>>, S[Len(S)].end,
           NEW ws \in Words \ {<<>>},
           \A k \in 1 .. Len(ws) : ws[k] \notin Starts /\ ws[k] \notin WordsOf(En!T.negationSet)
    PROVE  LET p == En!newParse(S \o Correction(ws)) IN
           /\ EndsCorrected(p, Len(S)) /\ p.n = Len(S) + 1 + Len(ws)
           /\ \A k \in 1 .. Len(ws) : p.w[Len(S) + 1 + k] = ws[k]
  <1> DEFINE Token == [w : STRING, end : BOOLEAN]
             s == Len(S)
             m == Len(ws)
             C == Correction(ws)
             toks == S \o C
             p == En!newParse(toks)
  <1>1. /\ C \in Tokens /\ Len(C) = m + 1 /\ m \in Nat \ {0} /\ C[1].w = "no"
        /\ \A k \in 1 .. m : C[k + 1].w = ws[k]
        /\ \A k \in 1 .. m : ~ C[k].end
    BY CorrectionIs
  <1> HIDE DEF C, Token
  <1>2. C \in Seq(Token) /\ S \in Seq(Token)
    BY <1>1 DEF Tokens, Token
  <1>3. s \in Nat \ {0}
    BY <1>2, EmptySeq
  <1> HIDE DEF s, m
  <1>4. /\ toks \in Seq(Token) /\ Len(toks) = s + (m + 1)
        /\ \A i \in 1 .. s : toks[i] = S[i]
        /\ \A k \in 1 .. (m + 1) : toks[s + k] = C[k]
    <2>1. Len(S) = s /\ Len(C) = m + 1
      BY <1>1 DEF s
    <2>2. /\ S \o C \in Seq(Token) /\ Len(S \o C) = Len(S) + Len(C)
          /\ \A i \in 1 .. Len(S) : (S \o C)[i] = S[i]
          /\ \A k \in 1 .. Len(C) : (S \o C)[Len(S) + k] = C[k]
      BY <1>2, Joined
    <2> QED BY <2>1, <2>2, Zenon
  <1>5. toks \in Tokens
    BY <1>4 DEF Tokens, Token
  <1>20. S[s].end
    BY DEF s
  <1> HIDE DEF toks
  <1>6. /\ ParseFits(p) /\ p.n = Len(toks)
        /\ \A i \in 1 .. p.n : p.w[i] = toks[i].w /\ p.clause[i] = En!Clause(toks, i)
    BY <1>5, ParseOf
  <1> HIDE DEF p
  <1>7. p.n = s + 1 + m /\ p.n \in Nat /\ s \in 1 .. (p.n - 2)
    BY <1>1, <1>3, <1>4, <1>6
  <1>8. \A k \in 1 .. (m + 1) : p.w[s + k] = C[k].w
    <2>1. \A k \in 1 .. (m + 1) : s + k \in 1 .. p.n
      BY <1>1, <1>3, <1>7
    <2> QED BY <1>4, <1>6, <2>1
  <1>9. p.w[s + 1] = "no"
    <2>1. 1 \in 1 .. (m + 1)
      BY <1>1
    <2> QED BY <1>1, <1>8, <2>1
  <1>10. \A k \in 1 .. m : p.w[s + 1 + k] = ws[k]
    <2>1. \A k \in 1 .. m : k + 1 \in 1 .. (m + 1) /\ s + (k + 1) = s + 1 + k
      BY <1>1, <1>3
    <2> QED BY <1>1, <1>8, <2>1
  <1>11. ASSUME NEW q \in (s + 2) .. p.n
         PROVE  p.w[q] \notin Starts /\ p.w[q] \notin WordsOf(En!T.negationSet)
    <2>1. q - (s + 1) \in 1 .. m /\ s + 1 + (q - (s + 1)) = q
      BY <1>1, <1>3, <1>7
    <2>2. ws[q - (s + 1)] \notin Starts /\ ws[q - (s + 1)] \notin WordsOf(En!T.negationSet)
      BY <2>1 DEF m
    <2> QED BY <1>10, <2>1, <2>2
  <1>12. ASSUME NEW i \in 1 .. s, NEW k \in (s + 1) .. p.n
         PROVE  p.clause[i] # p.clause[k]
    <2>1. s \in i .. (k - 1) /\ toks[s].end /\ i \in Nat /\ k \in Nat /\ 1 <= i /\ i <= k /\ i \in 1 .. p.n /\ k \in 1 .. p.n
      BY <1>3, <1>4, <1>7, <1>20
    <2> QED BY <1>6, <2>1, SameClause
  <1>13. \A k \in (s + 1) .. p.n : p.clause[k] = p.clause[s + 1]
    <2> SUFFICES ASSUME NEW k \in (s + 1) .. p.n
                 PROVE  p.clause[k] = p.clause[s + 1]
      OBVIOUS
    <2>1. \A q \in (s + 1) .. (k - 1) : ~ toks[q].end
      <3> SUFFICES ASSUME NEW q \in (s + 1) .. (k - 1) PROVE ~ toks[q].end
        OBVIOUS
      <3>1. q - s \in 1 .. m /\ q - s \in 1 .. (m + 1) /\ s + (q - s) = q
        BY <1>1, <1>3, <1>7
      <3> QED BY <1>1, <1>4, <3>1
    <2>2. s + 1 \in Nat /\ k \in Nat /\ 1 <= s + 1 /\ s + 1 <= k /\ k \in 1 .. p.n /\ s + 1 \in 1 .. p.n
      BY <1>1, <1>3, <1>7
    <2> QED BY <1>6, <2>1, <2>2, SameClause
  <1>14. EndsCorrected(p, s)
    BY <1>6, <1>7, <1>9, <1>11, <1>12, <1>13 DEF EndsCorrected
  <1> QED BY <1>7, <1>10, <1>14 DEF p, toks, C, s, m

\* What is said after "no" at the end of an utterance is the value of its slot.
LEMMA EndWins ==
    ASSUME NEW S \in Tokens, S # <<>>, S[Len(S)].end
    PROVE  /\ En!parseTokens(S \o Correction(<<"b-2">>)).location = << <<"", <<"b", 2>> >> >>
           /\ CountsThirty(En!parseTokens(S \o Correction(<<"about", "thirty", "reels">>)))
  <1>0. Len(S) \in Nat
    BY DEF Tokens
  <1>1. En!parseTokens(S \o Correction(<<"b-2">>)).location = << <<"", <<"b", 2>> >> >>
    <2> DEFINE ws == <<"b-2">>
               p == En!newParse(S \o Correction(ws))
    <2>1. ws \in Words \ {<<>>} /\ Len(ws) = 1 /\ ws[1] = "b-2" /\ \A k \in 1 .. Len(ws) : ws[k] = "b-2"
      BY EnglishAssumption DEF Words
    <2> HIDE DEF ws
    <2>2. /\ EndsCorrected(p, Len(S)) /\ p.n = Len(S) + 1 + Len(ws)
          /\ \A k \in 1 .. Len(ws) : p.w[Len(S) + 1 + k] = ws[k]
      <3>1. \A k \in 1 .. Len(ws) : ws[k] \notin Starts /\ ws[k] \notin WordsOf(En!T.negationSet)
        BY <2>1, EnglishWords
      <3> QED BY <2>1, <3>1, CorrectedAtEnd
    <2> HIDE DEF p
    <2>3. p.n = Len(S) + 2 /\ p.w[Len(S) + 2] = "b-2"
      BY <1>0, <2>1, <2>2
    <2>4. En!Parsed(p).location = << <<"", <<"b", 2>> >> >>
      BY <2>2, <2>3, CodeWins
    <2> QED BY <2>4 DEF p, ws, En!parseTokens
  <1>2. CountsThirty(En!parseTokens(S \o Correction(<<"about", "thirty", "reels">>)))
    <2> DEFINE ws == <<"about", "thirty", "reels">>
               p == En!newParse(S \o Correction(ws))
    <2>1. /\ ws \in Words \ {<<>>} /\ Len(ws) = 3 /\ ws[1] = "about" /\ ws[2] = "thirty" /\ ws[3] = "reels"
          /\ \A k \in 1 .. Len(ws) : k = 1 \/ k = 2 \/ k = 3
      BY EnglishAssumption DEF Words
    <2> HIDE DEF ws
    <2>2. /\ EndsCorrected(p, Len(S)) /\ p.n = Len(S) + 1 + Len(ws)
          /\ \A k \in 1 .. Len(ws) : p.w[Len(S) + 1 + k] = ws[k]
      <3>1. \A k \in 1 .. Len(ws) : ws[k] \notin Starts /\ ws[k] \notin WordsOf(En!T.negationSet)
        BY <2>1, EnglishWords
      <3> QED BY <2>1, <3>1, CorrectedAtEnd
    <2> HIDE DEF p
    <2>3. /\ p.n = Len(S) + 4 /\ p.w[Len(S) + 2] = "about" /\ p.w[Len(S) + 3] = "thirty"
          /\ p.w[Len(S) + 4] = "reels"
      BY <1>0, <2>1, <2>2
    <2>4. CountsThirty(En!Parsed(p))
      BY <2>2, <2>3, ThirtyWins
    <2> QED BY <2>4 DEF p, ws, En!parseTokens
  <1> QED BY <1>1, <1>2

-----------------------------------------------------------------------------
(* What is said after two more words is read as it is read alone. *)

\* The run q is r, two words on.
Alike(r, q) ==
    /\ r \in RunStates /\ q \in RunStates /\ q.i = r.i + 2
    /\ q.total = r.total /\ q.cur = r.cur /\ q.started = r.started /\ q.ones = r.ones
    /\ q.tens = r.tens /\ q.hund = r.hund /\ q.half = r.half /\ q.done = r.done

\* What a step makes of a run.
Skip(r) == [r EXCEPT !.i = r.i + 1]
Go(r) == [Skip(r) EXCEPT !.started = TRUE]
Stop(r) == [r EXCEPT !.done = TRUE]
AsHalf(r) == [Skip(r) EXCEPT !.half = TRUE]
AsOnes(r, x) == [Go(r) EXCEPT !.cur = x, !.ones = TRUE]
AsTens(r, x) == [Go(r) EXCEPT !.cur = x, !.tens = TRUE]
AsHundreds(r, x) == [Go(r) EXCEPT !.cur = x, !.hund = TRUE]
AsHundred(r, x) == [Go(r) EXCEPT !.cur = x, !.ones = FALSE, !.tens = FALSE, !.hund = TRUE]
AsBig(r, x) == [Go(r) EXCEPT !.total = x, !.cur = 0, !.ones = FALSE, !.tens = FALSE, !.hund = FALSE]
AsDozen(r, x) == [Go(r) EXCEPT !.cur = x, !.done = TRUE]
AsDigits(r, x) == [Go(r) EXCEPT !.cur = x, !.ones = TRUE, !.tens = TRUE, !.hund = FALSE]

LEMMA ArmsAlike ==
    ASSUME NEW r, NEW q, Alike(r, q)
    PROVE  /\ Alike(Skip(r), Skip(q)) /\ Alike(Stop(r), Stop(q)) /\ Alike(AsHalf(r), AsHalf(q))
           /\ \A x \in Int : /\ Alike(AsOnes(r, x), AsOnes(q, x))
                             /\ Alike(AsTens(r, x), AsTens(q, x))
                             /\ Alike(AsHundreds(r, x), AsHundreds(q, x))
                             /\ Alike(AsHundred(r, x), AsHundred(q, x))
                             /\ Alike(AsBig(r, x), AsBig(q, x))
                             /\ Alike(AsDozen(r, x), AsDozen(q, x))
                             /\ Alike(AsDigits(r, x), AsDigits(q, x))
  <1>1. Alike(Skip(r), Skip(q))
    BY DEF Alike, RunStates, Skip
  <1>2. Alike(Stop(r), Stop(q))
    BY DEF Alike, RunStates, Stop
  <1>3. Alike(AsHalf(r), AsHalf(q))
    BY <1>1 DEF Alike, RunStates, AsHalf
  <1>4. Alike(Go(r), Go(q))
    BY <1>1 DEF Alike, RunStates, Go
  <1>5. ASSUME NEW x \in Int
        PROVE  /\ Alike(AsOnes(r, x), AsOnes(q, x)) /\ Alike(AsTens(r, x), AsTens(q, x))
               /\ Alike(AsHundreds(r, x), AsHundreds(q, x)) /\ Alike(AsHundred(r, x), AsHundred(q, x))
               /\ Alike(AsBig(r, x), AsBig(q, x)) /\ Alike(AsDozen(r, x), AsDozen(q, x))
               /\ Alike(AsDigits(r, x), AsDigits(q, x))
    <2> DEFINE set(g) == [g EXCEPT !.cur = x]
               reset(g) == [g EXCEPT !.cur = 0]
               carry(g) == [g EXCEPT !.total = x]
    <2>1. \A g, h : Alike(g, h) => Alike(set(g), set(h)) /\ Alike(reset(g), reset(h)) /\ Alike(carry(g), carry(h))
      BY DEF Alike, RunStates
    <2>2. ASSUME NEW g, NEW h, Alike(g, h)
          PROVE  /\ Alike([g EXCEPT !.ones = TRUE], [h EXCEPT !.ones = TRUE])
                 /\ Alike([g EXCEPT !.tens = TRUE], [h EXCEPT !.tens = TRUE])
                 /\ Alike([g EXCEPT !.hund = TRUE], [h EXCEPT !.hund = TRUE])
                 /\ Alike([g EXCEPT !.done = TRUE], [h EXCEPT !.done = TRUE])
                 /\ Alike([g EXCEPT !.ones = FALSE], [h EXCEPT !.ones = FALSE])
                 /\ Alike([g EXCEPT !.tens = FALSE], [h EXCEPT !.tens = FALSE])
                 /\ Alike([g EXCEPT !.hund = FALSE], [h EXCEPT !.hund = FALSE])
      <3>1. Alike([g EXCEPT !.ones = TRUE], [h EXCEPT !.ones = TRUE])
        BY <2>2 DEF Alike, RunStates
      <3>2. Alike([g EXCEPT !.tens = TRUE], [h EXCEPT !.tens = TRUE])
        BY <2>2 DEF Alike, RunStates
      <3>3. Alike([g EXCEPT !.hund = TRUE], [h EXCEPT !.hund = TRUE])
        BY <2>2 DEF Alike, RunStates
      <3>4. Alike([g EXCEPT !.done = TRUE], [h EXCEPT !.done = TRUE])
        BY <2>2 DEF Alike, RunStates
      <3>5. Alike([g EXCEPT !.ones = FALSE], [h EXCEPT !.ones = FALSE])
        BY <2>2 DEF Alike, RunStates
      <3>6. Alike([g EXCEPT !.tens = FALSE], [h EXCEPT !.tens = FALSE])
        BY <2>2 DEF Alike, RunStates
      <3>7. Alike([g EXCEPT !.hund = FALSE], [h EXCEPT !.hund = FALSE])
        BY <2>2 DEF Alike, RunStates
      <3> QED BY <3>1, <3>2, <3>3, <3>4, <3>5, <3>6, <3>7
    <2>3. /\ \A g : set(g) = [g EXCEPT !.cur = x]
          /\ \A g : reset(g) = [g EXCEPT !.cur = 0]
          /\ \A g : carry(g) = [g EXCEPT !.total = x]
      OBVIOUS
    <2> HIDE DEF set, reset, carry
    <2>4. Alike(set(Go(r)), set(Go(q))) /\ Alike(reset(carry(Go(r))), reset(carry(Go(q))))
      BY <1>4, <2>1
    <2>5. Alike(AsOnes(r, x), AsOnes(q, x)) /\ Alike(AsTens(r, x), AsTens(q, x))
          /\ Alike(AsHundreds(r, x), AsHundreds(q, x)) /\ Alike(AsDozen(r, x), AsDozen(q, x))
      BY <2>2, <2>4 DEF AsOnes, AsTens, AsHundreds, AsDozen, set
    <2>6. Alike(AsHundred(r, x), AsHundred(q, x))
      BY <2>2, <2>4 DEF AsHundred, set
    <2>7. Alike(AsBig(r, x), AsBig(q, x))
      BY <2>2, <2>4 DEF AsBig, reset, carry
    <2>8. Alike(AsDigits(r, x), AsDigits(q, x))
      BY <2>2, <2>4 DEF AsDigits, set
    <2> QED BY <2>5, <2>6, <2>7, <2>8
  <1> QED BY <1>1, <1>2, <1>3, <1>5

\* What a step depends on: the word, and what is ahead of it.
Ahead(c, toks, i) ==
    <<In(c)!HalfDozen(toks, i), In(c)!startsScale(toks, i + 1), In(c)!At(toks, i + 1) \in In(c)!Small>>

OneAhead(c, r, w, ahead) == /\ w \in In(c)!T.NumArticles /\ ~ r.ones /\ ~ r.tens /\ r.cur = 0 /\ ahead[2]

Stepping(c, r, w, ahead) ==
    CASE w \in In(c)!T.HalfWords /\ ~ r.started /\ ahead[1] -> AsHalf(r)
      [] OneAhead(c, r, w, ahead) -> AsOnes(r, 1)
      [] ~ OneAhead(c, r, w, ahead) /\ w \in DOMAIN In(c)!T.Ones /\ In(c)!Fits(r, w) ->
            AsOnes(r, r.cur + In(c)!T.Ones[w])
      [] w \in DOMAIN In(c)!T.Tens /\ In(c)!Fits(r, w) -> AsTens(r, r.cur + In(c)!T.Tens[w])
      [] w \in DOMAIN In(c)!T.Hundreds /\ In(c)!Fits(r, w) -> AsHundreds(r, r.cur + In(c)!T.Hundreds[w])
      [] w \in In(c)!T.ScaleHundred /\ ~ r.hund -> AsHundred(r, 100 * In(c)!OneOr(r.cur))
      [] w \in DOMAIN In(c)!T.ScaleBig /\ ~ (r.cur = 0 /\ r.started) ->
            AsBig(r, r.total + In(c)!OneOr(r.cur) * In(c)!T.ScaleBig[w])
      [] w \in In(c)!T.DozenWords -> AsDozen(r, (In(c)!OneOr(r.cur) * 12) \div (IF r.half THEN 2 ELSE 1))
      [] w \in In(c)!T.NumConnectors /\ r.started /\ ahead[3] -> Skip(r)
      [] w \in DOMAIN In(c)!Digits /\ ~ r.started -> AsDigits(r, In(c)!Digits[w])
      [] OTHER -> Stop(r)

LEMMA StepIs ==
    ASSUME NEW c, NEW toks, NEW r
    PROVE  In(c)!RunStep(toks, r) = Stepping(c, r, toks[r.i], Ahead(c, toks, r.i))
  <1> DEFINE a == Ahead(c, toks, r.i)
  <1>1. /\ a[1] = In(c)!HalfDozen(toks, r.i)
        /\ a[2] = In(c)!startsScale(toks, r.i + 1)
        /\ a[3] = (In(c)!At(toks, r.i + 1) \in In(c)!Small)
    BY DEF Ahead
  <1> HIDE DEF a
  <1>2. In(c)!RunStep(toks, r) = Stepping(c, r, toks[r.i], a)
    BY <1>1, Zenon DEF In!RunStep, Stepping, OneAhead, Skip, Go, Stop, AsHalf, AsOnes, AsTens, AsHundreds,
              AsHundred, AsBig, AsDozen, AsDigits
  <1> QED BY <1>2 DEF a

LEMMA SteppingAlike ==
    ASSUME NEW c \in DOMAIN Packs, NEW r, NEW q, Alike(r, q), NEW w, NEW ahead
    PROVE  Alike(Stepping(c, r, w, ahead), Stepping(c, q, w, ahead))
  <1> DEFINE t == In(c)!T
             digits == In(c)!Digits
             one(x) == OneAhead(c, x, w, ahead)
             x1 == r.cur + t.Ones[w]
             x2 == r.cur + t.Tens[w]
             x3 == r.cur + t.Hundreds[w]
             x4 == 100 * In(c)!OneOr(r.cur)
             x5 == r.total + In(c)!OneOr(r.cur) * t.ScaleBig[w]
             x6 == (In(c)!OneOr(r.cur) * 12) \div (IF r.half THEN 2 ELSE 1)
             x7 == digits[w]
  <1>1. /\ q.cur = r.cur /\ q.total = r.total /\ q.half = r.half /\ q.started = r.started /\ q.hund = r.hund
        /\ q.ones = r.ones /\ q.tens = r.tens
    BY DEF Alike
  <1>2. one(q) = one(r) /\ In(c)!Fits(q, w) = In(c)!Fits(r, w)
    BY <1>1, Zenon DEF OneAhead, In!Fits
  <1>3. /\ w \in DOMAIN t.Ones => x1 \in Int
        /\ w \in DOMAIN t.Tens => x2 \in Int
        /\ w \in DOMAIN t.Hundreds => x3 \in Int
        /\ w \in DOMAIN t.ScaleBig => x5 \in Int
        /\ x4 \in Int /\ x6 \in Int
        /\ w \in DOMAIN digits => x7 \in Int
    <2>1. r.cur \in Int /\ r.total \in Int /\ In(c)!OneOr(r.cur) \in Int
      BY DEF Alike, RunStates, In!OneOr
    <2>2. /\ w \in DOMAIN t.Ones => t.Ones[w] \in Int
          /\ w \in DOMAIN t.Tens => t.Tens[w] \in Int
          /\ w \in DOMAIN t.Hundreds => t.Hundreds[w] \in Int
          /\ w \in DOMAIN t.ScaleBig => t.ScaleBig[w] \in Int
      BY Tables
    <2>3. w \in DOMAIN digits => digits[w] \in Int
      BY DEF In!Digits
    <2> QED BY <2>1, <2>2, <2>3
  <1> HIDE DEF x1, x2, x3, x4, x5, x6, x7, one
  <1>4. /\ Alike(Skip(r), Skip(q)) /\ Alike(Stop(r), Stop(q)) /\ Alike(AsHalf(r), AsHalf(q))
        /\ Alike(AsHundred(r, x4), AsHundred(q, x4)) /\ Alike(AsDozen(r, x6), AsDozen(q, x6))
        /\ Alike(AsOnes(r, 1), AsOnes(q, 1))
        /\ w \in DOMAIN t.Ones => Alike(AsOnes(r, x1), AsOnes(q, x1))
        /\ w \in DOMAIN t.Tens => Alike(AsTens(r, x2), AsTens(q, x2))
        /\ w \in DOMAIN t.Hundreds => Alike(AsHundreds(r, x3), AsHundreds(q, x3))
        /\ w \in DOMAIN t.ScaleBig => Alike(AsBig(r, x5), AsBig(q, x5))
        /\ w \in DOMAIN digits => Alike(AsDigits(r, x7), AsDigits(q, x7))
    <2>1. 1 \in Int
      OBVIOUS
    <2> QED BY <1>3, <2>1, ArmsAlike
  <1> DEFINE S(x) ==
    CASE w \in t.HalfWords /\ ~ r.started /\ ahead[1] -> AsHalf(x)
      [] one(r) -> AsOnes(x, 1)
      [] ~ one(r) /\ w \in DOMAIN t.Ones /\ In(c)!Fits(r, w) -> AsOnes(x, x1)
      [] w \in DOMAIN t.Tens /\ In(c)!Fits(r, w) -> AsTens(x, x2)
      [] w \in DOMAIN t.Hundreds /\ In(c)!Fits(r, w) -> AsHundreds(x, x3)
      [] w \in t.ScaleHundred /\ ~ r.hund -> AsHundred(x, x4)
      [] w \in DOMAIN t.ScaleBig /\ ~ (r.cur = 0 /\ r.started) -> AsBig(x, x5)
      [] w \in t.DozenWords -> AsDozen(x, x6)
      [] w \in t.NumConnectors /\ r.started /\ ahead[3] -> Skip(x)
      [] w \in DOMAIN digits /\ ~ r.started -> AsDigits(x, x7)
      [] OTHER -> Stop(x)
  <1>5. Stepping(c, r, w, ahead) = S(r)
    BY Zenon DEF Stepping, x1, x2, x3, x4, x5, x6, x7, one
  <1>6. Stepping(c, q, w, ahead) = S(q)
    BY <1>1, <1>2, Zenon DEF Stepping, x1, x2, x3, x4, x5, x6, x7, one
  <1>7. \A k \in 1 .. 9 : w \in Roles(t)[k] =>
           /\ k # 1 => w \notin DOMAIN t.Ones /\ w \notin t.NumArticles
           /\ k # 2 => w \notin DOMAIN t.Tens
           /\ k # 3 => w \notin DOMAIN t.Hundreds
           /\ k # 4 => w \notin t.ScaleHundred
           /\ k # 5 => w \notin DOMAIN t.ScaleBig
           /\ k # 6 => w \notin t.DozenWords
           /\ k # 7 => w \notin t.HalfWords
           /\ k # 8 => w \notin t.NumConnectors
           /\ k # 9 => w \notin DOMAIN digits
    BY RoleWords
  <1>8. /\ Roles(t)[1] = DOMAIN t.Ones /\ Roles(t)[2] = DOMAIN t.Tens
        /\ Roles(t)[3] = DOMAIN t.Hundreds /\ Roles(t)[4] = t.ScaleHundred
        /\ Roles(t)[5] = DOMAIN t.ScaleBig /\ Roles(t)[6] = t.DozenWords
        /\ Roles(t)[7] = t.HalfWords /\ Roles(t)[8] = t.NumConnectors
        /\ Roles(t)[9] = DOMAIN digits
    BY RolesOf
  <1>9. one(r) => w \in t.NumArticles
    BY DEF one, OneAhead
  <1> HIDE DEF digits, t
  <1>10. Alike(S(r), S(q))
    <2>1. CASE w \in DOMAIN t.Ones
      BY <1>4, <1>7, <1>8, <1>9, <2>1
    <2>2. CASE w \in DOMAIN t.Tens
      BY <1>4, <1>7, <1>8, <1>9, <2>2
    <2>3. CASE w \in DOMAIN t.Hundreds
      BY <1>4, <1>7, <1>8, <1>9, <2>3
    <2>4. CASE w \in t.ScaleHundred
      BY <1>4, <1>7, <1>8, <1>9, <2>4
    <2>5. CASE w \in DOMAIN t.ScaleBig
      BY <1>4, <1>7, <1>8, <1>9, <2>5
    <2>6. CASE w \in t.DozenWords
      BY <1>4, <1>7, <1>8, <1>9, <2>6
    <2>7. CASE w \in t.HalfWords
      BY <1>4, <1>7, <1>8, <1>9, <2>7
    <2>8. CASE w \in t.NumConnectors
      BY <1>4, <1>7, <1>8, <1>9, <2>8
    <2>9. CASE w \in DOMAIN digits
      BY <1>4, <1>7, <1>8, <1>9, <2>9
    <2>10. CASE \A k \in 1 .. 9 : w \notin Roles(t)[k]
      BY <1>4, <1>8, <2>10
    <2> QED BY <1>8, <2>1, <2>2, <2>3, <2>4, <2>5, <2>6, <2>7, <2>8, <2>9, <2>10
  <1> QED BY <1>5, <1>6, <1>10

\* The words of b are those of a, two words on.
Behind(a, b) ==
    /\ a \in Words /\ b \in Words /\ Len(b) = Len(a) + 2
    /\ \A i \in 1 .. Len(a) : b[i + 2] = a[i]

LEMMA AheadBehind ==
    ASSUME NEW c, NEW a, NEW b, Behind(a, b), NEW i \in Nat, i >= 1
    PROVE  /\ In(c)!At(b, i + 2) = In(c)!At(a, i)
           /\ In(c)!startsScale(b, i + 2) = In(c)!startsScale(a, i)
           /\ In(c)!startsNumber(b, i + 2) = In(c)!startsNumber(a, i)
           /\ Ahead(c, b, i + 2) = Ahead(c, a, i)
  <1>1. Len(a) \in Nat /\ Len(b) \in Nat /\ Len(b) = Len(a) + 2
    BY DEF Behind, Words
  <1>2. \A k \in Nat : k >= 1 => In(c)!At(b, k + 2) = In(c)!At(a, k)
    <2> SUFFICES ASSUME NEW k \in Nat, k >= 1
                 PROVE  In(c)!At(b, k + 2) = In(c)!At(a, k)
      OBVIOUS
    <2>1. CASE k <= Len(a)
      <3>1. k \in 1 .. Len(a) /\ k + 2 <= Len(b)
        BY <1>1, <2>1
      <3> QED BY <2>1, <3>1 DEF Behind, In!At
    <2>2. CASE ~ (k <= Len(a))
      <3>1. ~ (k + 2 <= Len(b))
        BY <1>1, <2>2
      <3> QED BY <2>2, <3>1 DEF In!At
    <2> QED BY <2>1, <2>2
  <1>3. \A k \in Nat : k >= 1 => In(c)!startsScale(b, k + 2) = In(c)!startsScale(a, k)
    BY <1>2, Zenon DEF In!startsScale
  <1>4. In(c)!startsNumber(b, i + 2) = In(c)!startsNumber(a, i)
    BY <1>2, <1>3, Zenon DEF In!startsNumber
  <1>5. i + 1 \in Nat /\ i + 1 >= 1 /\ (i + 2) + 1 = (i + 1) + 2 /\ i + 2 \in Nat /\ i + 2 >= 1 /\ (i + 2) + 2 \in Nat
    OBVIOUS
  <1>6. /\ In(c)!At(b, (i + 2) + 1) = In(c)!At(a, i + 1) /\ In(c)!At(b, (i + 2) + 2) = In(c)!At(a, i + 2)
        /\ In(c)!startsScale(b, (i + 2) + 1) = In(c)!startsScale(a, i + 1)
    BY <1>2, <1>3, <1>5
  <1>7. In(c)!HalfDozen(b, i + 2) = In(c)!HalfDozen(a, i)
    <2>1. CASE In(c)!At(a, i + 1) \in In(c)!T.NumArticles
      BY <1>6, <2>1, Zenon DEF In!HalfDozen
    <2>2. CASE In(c)!At(a, i + 1) \notin In(c)!T.NumArticles
      BY <1>6, <2>2, Zenon DEF In!HalfDozen
    <2> QED BY <2>1, <2>2
  <1>8. Ahead(c, b, i + 2) = Ahead(c, a, i)
    BY <1>6, <1>7, Zenon DEF Ahead
  <1> QED BY <1>2, <1>3, <1>4, <1>8

LEMMA RunBehind ==
    ASSUME NEW c \in DOMAIN Packs, NEW a, NEW b, Behind(a, b), NEW r, NEW q, Alike(r, q),
           r.i >= 1, r.i <= Len(a) + 1
    PROVE  Alike(In(c)!Run(a, r), In(c)!Run(b, q))
  <1>1. /\ a \in Words /\ b \in Words /\ Len(a) \in Nat /\ Len(b) = Len(a) + 2
        /\ r \in RunStates /\ q \in RunStates /\ r.i \in Nat /\ q.i = r.i + 2
    BY DEF Behind, Words, Alike, RunStates
  <1>2. PICK f : Stepped(c, a, r, f) /\ In(c)!Run(a, r) = f[Len(a) + 1 - r.i]
    BY <1>1, RunSequence
  <1>3. PICK g : Stepped(c, b, q, g) /\ In(c)!Run(b, q) = g[Len(b) + 1 - q.i]
    BY <1>1, RunSequence
  <1> DEFINE W == {k \in Nat : Alike(f[k], g[k]) /\ f[k].i >= 1}
  <1>4. 0 \in W
    BY <1>2, <1>3 DEF Stepped
  <1>5. ASSUME NEW k \in Nat, k \in W
        PROVE  k + 1 \in W
    <2> DEFINE x == f[k]
               y == g[k]
    <2>1. k + 1 \in Nat /\ k + 1 # 0 /\ (k + 1) - 1 = k
      OBVIOUS
    <2>2. f[k + 1] = In(c)!Step(a, x) /\ g[k + 1] = In(c)!Step(b, y)
      BY <1>2, <1>3, <2>1 DEF Stepped
    <2>3. Alike(x, y) /\ x.i >= 1
      BY <1>5
    <2> HIDE DEF x, y
    <2>4. /\ x \in RunStates /\ y \in RunStates /\ x.i \in Nat /\ y.i = x.i + 2 /\ y.done = x.done
          /\ x.done \in BOOLEAN
      BY <2>3 DEF Alike, RunStates
    <2>5. CASE x.done \/ x.i > Len(a)
      <3>1. y.done \/ y.i > Len(b)
        BY <1>1, <2>4, <2>5
      <3>2. f[k + 1] = x /\ g[k + 1] = y
        BY <2>2, <2>5, <3>1 DEF In!Step
      <3> QED BY <2>1, <2>3, <3>2
    <2>6. CASE ~ (x.done \/ x.i > Len(a))
      <3>1. ~ (y.done \/ y.i > Len(b))
        BY <1>1, <2>4, <2>6
      <3>2. f[k + 1] = In(c)!RunStep(a, x) /\ g[k + 1] = In(c)!RunStep(b, y)
        BY <2>2, <2>6, <3>1, Zenon DEF In!Step
      <3>3. b[y.i] = a[x.i] /\ Ahead(c, b, y.i) = Ahead(c, a, x.i)
        <4>1. x.i \in 1 .. Len(a)
          BY <1>1, <2>3, <2>4, <2>6
        <4>2. b[y.i] = a[x.i]
          BY <2>4, <4>1 DEF Behind
        <4>3. Ahead(c, b, x.i + 2) = Ahead(c, a, x.i)
          BY <2>3, <2>4, AheadBehind
        <4> QED BY <2>4, <4>2, <4>3
      <3>4. Alike(f[k + 1], g[k + 1])
        <4>1. f[k + 1] = Stepping(c, x, a[x.i], Ahead(c, a, x.i))
          BY <3>2, StepIs
        <4>2. g[k + 1] = Stepping(c, y, a[x.i], Ahead(c, a, x.i))
          BY <3>2, <3>3, StepIs
        <4> QED BY <2>3, <4>1, <4>2, SteppingAlike
      <3>5. f[k + 1].i >= 1
        <4>1. f[k + 1].i \in {x.i, x.i + 1}
          BY <1>1, <2>4, <3>2, RunSteps DEF Onward
        <4> QED BY <2>3, <2>4, <4>1
      <3> QED BY <2>1, <3>4, <3>5
    <2> QED BY <2>5, <2>6
  <1> HIDE DEF W
  <1>6. \A k \in Nat : k \in W
    BY <1>4, <1>5, Inductive
  <1>7. Len(b) + 1 - q.i = Len(a) + 1 - r.i
    BY <1>1
  <1>8. Len(a) + 1 - r.i \in Nat
    BY <1>1
  <1> QED BY <1>2, <1>3, <1>6, <1>7, <1>8 DEF W

\* A run, two words on.
RunLater(s, t) == s.ok = t.ok /\ (s.ok => t.value = s.value /\ t.end = s.end + 2)

LEMMA ParseRunBehind ==
    ASSUME NEW c \in DOMAIN Packs, NEW a, NEW b, Behind(a, b), NEW i \in Nat, i >= 1, i <= Len(a) + 1,
           NEW seed \in Int, NEW seeded \in BOOLEAN
    PROVE  RunLater(In(c)!parseRunFrom(a, i, seed, seeded), In(c)!parseRunFrom(b, i + 2, seed, seeded))
  <1> DEFINE r == Begun(i, seed, seeded)
             q == Begun(i + 2, seed, seeded)
             x == In(c)!Run(a, r)
             y == In(c)!Run(b, q)
             s == In(c)!parseRunFrom(a, i, seed, seeded)
             t == In(c)!parseRunFrom(b, i + 2, seed, seeded)
  <1>1. Alike(r, q) /\ r.i = i
    BY DEF Begun, Alike, RunStates
  <1> HIDE DEF r, q
  <1>2. Alike(x, y)
    BY <1>1, RunBehind
  <1>3. s = In(c)!RunResult(x, i, seeded) /\ t = In(c)!RunResult(y, i + 2, seeded)
    BY DEF In!parseRunFrom, Begun, r, q
  <1> HIDE DEF x, y, s, t
  <1>4. x.i \in Nat /\ y.i = x.i + 2 /\ y.started = x.started /\ x.started \in BOOLEAN
        /\ y.total = x.total /\ y.cur = x.cur
    BY <1>2 DEF Alike, RunStates
  <1>5. (y.i = i + 2) <=> (x.i = i)
    BY <1>4
  <1>6. ASSUME ~ x.started \/ (seeded /\ x.i = i)
        PROVE  RunLater(s, t)
    <2>1. s = In(c)!NoRun /\ t = In(c)!NoRun
      BY <1>3, <1>4, <1>5, <1>6 DEF In!RunResult
    <2> QED BY <2>1 DEF RunLater, In!NoRun
  <1>7. ASSUME ~ (~ x.started \/ (seeded /\ x.i = i))
        PROVE  RunLater(s, t)
    <2>1. /\ s = [ok |-> TRUE, value |-> x.total + x.cur, end |-> x.i]
          /\ t = [ok |-> TRUE, value |-> x.total + x.cur, end |-> x.i + 2]
      BY <1>3, <1>4, <1>5, <1>7 DEF In!RunResult
    <2> QED BY <2>1 DEF RunLater
  <1>8. RunLater(s, t)
    BY <1>6, <1>7
  <1> QED BY <1>8 DEF s, t

\* A part of a sequence.
LEMMA Slice ==
    ASSUME NEW X, NEW s \in Seq(X), NEW i \in Nat, i >= 1, NEW n \in Nat, i + n - 1 <= Len(s)
    PROVE  /\ SubSeq(s, i, i + n - 1) \in Seq(X) /\ Len(SubSeq(s, i, i + n - 1)) = n
           /\ \A k \in 1 .. n : SubSeq(s, i, i + n - 1)[k] = s[i + k - 1]
  <1> DEFINE m == i + n - 1
  <1>1. Len(s) \in Nat /\ m \in Int /\ m >= i - 1 /\ m <= Len(s) /\ m - i + 1 = n
    OBVIOUS
  <1> HIDE DEF m
  <1>2. i \in 1 .. (Len(s) + 1) /\ m \in (i - 1) .. Len(s)
    BY <1>1
  <1>3. SubSeq(s, i, m) \in Seq(X) /\ Len(SubSeq(s, i, m)) = m - i + 1
        /\ \A k \in 1 .. (m - i + 1) : SubSeq(s, i, m)[k] = s[i + k - 1]
    BY <1>2, SubSeqProperties
  <1> QED BY <1>1, <1>3 DEF m

LEMMA WordsBehind ==
    ASSUME NEW a, NEW b, Behind(a, b), NEW i \in Nat, i >= 1, NEW n \in Nat, i + n - 1 <= Len(a)
    PROVE  SubSeq(b, i + 2, (i + 2) + n - 1) = SubSeq(a, i, i + n - 1)
  <1> DEFINE u == SubSeq(a, i, i + n - 1)
             v == SubSeq(b, i + 2, (i + 2) + n - 1)
  <1>1. a \in Seq(STRING) /\ b \in Seq(STRING) /\ Len(a) \in Nat /\ Len(b) = Len(a) + 2
        /\ \A k \in 1 .. Len(a) : b[k + 2] = a[k]
    BY DEF Behind, Words
  <1>2. /\ i + 2 \in Nat /\ i + 2 >= 1 /\ (i + 2) + n - 1 <= Len(b)
    BY <1>1
  <1>3. u \in Seq(STRING) /\ Len(u) = n /\ \A k \in 1 .. n : u[k] = a[i + k - 1]
    BY <1>1, <1>2, Slice
  <1>4. v \in Seq(STRING) /\ Len(v) = n /\ \A k \in 1 .. n : v[k] = b[(i + 2) + k - 1]
    BY <1>1, <1>2, Slice
  <1> HIDE DEF u, v
  <1>6. \A k \in 1 .. n : v[k] = u[k]
    <2> SUFFICES ASSUME NEW k \in 1 .. n PROVE v[k] = u[k]
      OBVIOUS
    <2>1. u[k] = a[i + k - 1] /\ v[k] = b[(i + 2) + k - 1]
      BY <1>3, <1>4
    <2>2. i + k - 1 \in 1 .. Len(a) /\ (i + 2) + k - 1 = (i + k - 1) + 2
      BY <1>1
    <2> QED BY <1>1, <2>1, <2>2
  <1>7. v = u
    BY <1>3, <1>4, <1>6
  <1> QED BY <1>7 DEF u, v

LEMMA MatchBehind ==
    ASSUME NEW c, NEW a, NEW b, Behind(a, b), NEW phrases, phrases \subseteq Words \ {<<>>},
           NEW i \in Nat, i >= 1
    PROVE  In(c)!MatchAt(phrases, b, i + 2) = In(c)!MatchAt(phrases, a, i)
  <1>1. Len(a) \in Nat /\ Len(b) = Len(a) + 2
    BY DEF Behind, Words
  <1>2. \A n \in Nat : i + n - 1 <= Len(a) =>
           SubSeq(b, i + 2, (i + 2) + n - 1) = SubSeq(a, i, i + n - 1)
    BY WordsBehind
  <1>3. ASSUME NEW p \in phrases
        PROVE  (/\ (i + 2) + Len(p) - 1 <= Len(b) /\ SubSeq(b, i + 2, (i + 2) + Len(p) - 1) = p)
               <=> (/\ i + Len(p) - 1 <= Len(a) /\ SubSeq(a, i, i + Len(p) - 1) = p)
    <2>1. Len(p) \in Nat
      BY DEF Words
    <2>2. ((i + 2) + Len(p) - 1 <= Len(b)) <=> (i + Len(p) - 1 <= Len(a))
      BY <1>1, <2>1
    <2> QED BY <1>2, <2>1, <2>2
  <1> DEFINE A == {p \in phrases : /\ i + Len(p) - 1 <= Len(a) /\ SubSeq(a, i, i + Len(p) - 1) = p}
             B == {p \in phrases : /\ (i + 2) + Len(p) - 1 <= Len(b)
                                    /\ SubSeq(b, i + 2, (i + 2) + Len(p) - 1) = p}
             Longest(S) == LET lens == {Len(p) : p \in S} IN
                           IF lens = {} THEN 0 ELSE CHOOSE n \in lens : \A m \in lens : m <= n
  <1>4. A = B
    BY <1>3
  <1>5. In(c)!MatchAt(phrases, a, i) = Longest(A) /\ In(c)!MatchAt(phrases, b, i + 2) = Longest(B)
    BY Zenon DEF In!MatchAt
  <1> HIDE DEF A, B, Longest
  <1> QED BY <1>4, <1>5

\* A number, two words on.
Later(x) == [value |-> x.value, vague |-> x.vague, approx |-> x.approx,
             start |-> x.start + 2, end |-> x.end + 2, mark |-> x.mark + 2]

LEMMA ApproxBehind ==
    ASSUME NEW c \in DOMAIN Packs, NEW a, NEW b, Behind(a, b), b[2] \notin WordsOf(In(c)!T.approxSet),
           NEW i \in Nat, i >= 1, i <= Len(a) + 1
    PROVE  In(c)!MatchApproxEndingAt(b, i + 2) = In(c)!MatchApproxEndingAt(a, i)
  <1> DEFINE set == In(c)!T.approxSet
             A == {n \in 1 .. 3 : i - n >= 1 /\ In(c)!MatchAt(set, a, i - n) = n}
             B == {n \in 1 .. 3 : (i + 2) - n >= 1 /\ In(c)!MatchAt(set, b, (i + 2) - n) = n}
             Longest(S) == IF S = {} THEN 0 ELSE CHOOSE n \in S : \A m \in S : m <= n
  <1>1. set \in SUBSET (Words \ {<<>>}) /\ b \in Words
    BY Tables DEF Behind
  <1>2. In(c)!MatchApproxEndingAt(a, i) = Longest(A) /\ In(c)!MatchApproxEndingAt(b, i + 2) = Longest(B)
    BY Zenon DEF In!MatchApproxEndingAt, In!maxApproxLen
  <1> HIDE DEF set
  <1>3. ASSUME NEW n \in 1 .. 3
        PROVE  ((i + 2) - n >= 1 /\ In(c)!MatchAt(set, b, (i + 2) - n) = n)
               <=> (i - n >= 1 /\ In(c)!MatchAt(set, a, i - n) = n)
    <2>1. CASE i - n >= 1
      <3> DEFINE j == i - n
      <3>1. j \in Nat /\ j >= 1 /\ (i + 2) - n = j + 2 /\ (i + 2) - n >= 1
        BY <2>1
      <3> HIDE DEF j
      <3>2. In(c)!MatchAt(set, b, j + 2) = In(c)!MatchAt(set, a, j)
        BY <1>1, <3>1, MatchBehind
      <3> QED BY <2>1, <3>1, <3>2 DEF j
    <2>2. CASE ~ (i - n >= 1)
      <3> DEFINE j == (i + 2) - n
      <3>1. ASSUME j >= 1, In(c)!MatchAt(set, b, j) = n
            PROVE  FALSE
        <4>1. j \in Nat /\ 2 \in j .. (j + n - 1) /\ n > 0
          BY <2>2, <3>1
        <4> HIDE DEF j
        <4>2. \A q \in j .. (j + n - 1) : b[q] \in WordsOf(set)
          BY <1>1, <3>1, <4>1, PhraseWords
        <4> QED BY <4>1, <4>2 DEF set
      <3> QED BY <2>2, <3>1
    <2> QED BY <2>1, <2>2
  <1>4. A = B
    BY <1>3
  <1> HIDE DEF A, B, Longest
  <1> QED BY <1>2, <1>4

LEMMA NumberBehind ==
    ASSUME NEW c \in DOMAIN Packs, NEW a, NEW b, Behind(a, b), b[2] \notin WordsOf(In(c)!T.approxSet),
           NEW i \in Nat, i >= 1, i <= Len(a) + 1, NEW value, NEW approx, NEW end
    PROVE  In(c)!Number(b, value, approx, i + 2, end + 2) = Later(In(c)!Number(a, value, approx, i, end))
  <1> DEFINE m == In(c)!MatchApproxEndingAt(a, i)
             x == In(c)!Number(a, value, approx, i, end)
             v == value = In(c)!NaN
             p == approx \/ m > 0
  <1>1. In(c)!MatchApproxEndingAt(b, i + 2) = m
    BY ApproxBehind
  <1>0. m \in Nat
    BY ApproxBefore DEF Behind
  <1> HIDE DEF m
  <1>2. In(c)!Number(b, value, approx, i + 2, end + 2) =
          [value |-> value, vague |-> v, approx |-> p, start |-> i + 2, end |-> end + 2, mark |-> (i + 2) - m]
    BY <1>1, Zenon DEF In!Number
  <1>3. x = [value |-> value, vague |-> v, approx |-> p, start |-> i, end |-> end, mark |-> i - m]
    BY Zenon DEF In!Number, m
  <1> HIDE DEF x, v, p
  <1>4. x.value = value /\ x.vague = v /\ x.approx = p /\ x.start = i /\ x.end = end /\ x.mark = i - m
    BY <1>3
  <1>5. (i + 2) - m = (i - m) + 2
    BY <1>0
  <1> QED BY <1>2, <1>4, <1>5, Zenon DEF Later, x

LEMMA HeardBehind ==
    ASSUME NEW c \in DOMAIN Packs, NEW a, NEW b, Behind(a, b), b[2] \notin WordsOf(In(c)!T.approxSet),
           NEW i \in 1 .. Len(a)
    PROVE  \/ HeardIn(c, a, i) = <<>> /\ HeardIn(c, b, i + 2) = <<>>
           \/ \E x : HeardIn(c, a, i) = <<x>> /\ HeardIn(c, b, i + 2) = <<Later(x)>>
  <1> DEFINE v == In(c)!VagueAt(a, i)
             u == In(c)!VagueAt(b, i + 2)
             S(toks, j) == IF v.n > 0 THEN In(c)!VagueScale(toks, j + v.n, v.value) ELSE In(c)!NoRun
             s == S(a, i)
             t == S(b, i + 2)
             r == In(c)!parseRun(a, i)
             q == In(c)!parseRun(b, i + 2)
             ahead == In(c)!startsNumber(a, i + v.n)
  <1>1. /\ i \in Nat /\ i >= 1 /\ i <= Len(a) + 1 /\ Len(a) \in Nat /\ i <= Len(a)
        /\ a \in Words /\ b \in Words
    BY DEF Behind, Words
  <1>2. /\ v.n \in Nat /\ v.value \in Int /\ (v.n > 0 => i + v.n - 1 <= Len(a))
        /\ v.n = In(c)!MatchAt(DOMAIN In(c)!T.vagues, a, i)
    BY <1>1, VagueFits
  <1>3. u = v
    <2> DEFINE n == In(c)!MatchAt(DOMAIN In(c)!T.vagues, a, i)
    <2>0. n = v.n
      BY <1>2
    <2>1. DOMAIN In(c)!T.vagues \in SUBSET (Words \ {<<>>})
      BY Tables
    <2>2. In(c)!MatchAt(DOMAIN In(c)!T.vagues, b, i + 2) = n
      <3> DEFINE phrases == DOMAIN In(c)!T.vagues
      <3>1. phrases \subseteq Words \ {<<>>} /\ n = In(c)!MatchAt(phrases, a, i)
        BY <2>1
      <3> HIDE DEF phrases, n
      <3>2. In(c)!MatchAt(phrases, b, i + 2) = In(c)!MatchAt(phrases, a, i)
        BY <1>1, <3>1, MatchBehind
      <3> QED BY <3>1, <3>2, Zenon DEF phrases
    <2>3. n > 0 => SubSeq(b, i + 2, (i + 2) + n - 1) = SubSeq(a, i, i + n - 1)
      <3>1. \A k \in Nat : i + k - 1 <= Len(a) =>
                 SubSeq(b, i + 2, (i + 2) + k - 1) = SubSeq(a, i, i + k - 1)
        BY <1>1, WordsBehind
      <3>2. n \in Nat /\ (n > 0 => i + n - 1 <= Len(a))
        BY <1>2, <2>0
      <3> HIDE DEF n
      <3> QED BY <3>1, <3>2
    <2>4. v = [n |-> n, value |-> IF n > 0 THEN In(c)!T.vagues[SubSeq(a, i, i + n - 1)] ELSE 0]
      BY Zenon DEF In!VagueAt
    <2>5. u = [n |-> n, value |-> IF n > 0 THEN In(c)!T.vagues[SubSeq(b, i + 2, (i + 2) + n - 1)] ELSE 0]
      BY <2>2, Zenon DEF In!VagueAt
    <2> HIDE DEF n, u, v
    <2> QED BY <2>3, <2>4, <2>5
  <1> HIDE DEF v
  <1>4. RunLater(r, q)
    <2>1. 0 \in Int /\ FALSE \in BOOLEAN
      OBVIOUS
    <2> QED BY <1>1, <2>1, ParseRunBehind DEF In!parseRun
  <1>5. /\ i + v.n \in Nat /\ i + v.n >= 1 /\ i + v.n <= Len(a) + 1 /\ (i + 2) + v.n = (i + v.n) + 2
    BY <1>1, <1>2
  <1>6. RunLater(s, t)
    <2> DEFINE j == i + v.n
    <2>1. j \in Nat /\ j >= 1 /\ j <= Len(a) + 1 /\ (i + 2) + v.n = j + 2
      BY <1>5
    <2>2. s = IF v.n > 0 THEN In(c)!VagueScale(a, j, v.value) ELSE In(c)!NoRun
      OBVIOUS
    <2>3. t = IF v.n > 0 THEN In(c)!VagueScale(b, j + 2, v.value) ELSE In(c)!NoRun
      BY <2>1
    <2> HIDE DEF j, s, t
    <2>4. RunLater(In(c)!NoRun, In(c)!NoRun)
      BY DEF In!NoRun, RunLater
    <2>5. In(c)!startsScale(b, j + 2) = In(c)!startsScale(a, j)
      BY <2>1, AheadBehind
    <2>6. RunLater(In(c)!VagueScale(a, j, v.value), In(c)!VagueScale(b, j + 2, v.value))
      <3>1. CASE ~ In(c)!startsScale(a, j)
        <4>1. In(c)!VagueScale(a, j, v.value) = In(c)!NoRun /\ In(c)!VagueScale(b, j + 2, v.value) = In(c)!NoRun
          BY <2>5, <3>1 DEF In!VagueScale
        <4> QED BY <2>4, <4>1
      <3>2. CASE In(c)!startsScale(a, j) /\ v.value # In(c)!NaN
        <4>1. /\ In(c)!VagueScale(a, j, v.value) = In(c)!parseRunFrom(a, j, v.value, TRUE)
              /\ In(c)!VagueScale(b, j + 2, v.value) = In(c)!parseRunFrom(b, j + 2, v.value, TRUE)
          BY <2>5, <3>2 DEF In!VagueScale
        <4>2. TRUE \in BOOLEAN
          OBVIOUS
        <4> QED BY <1>2, <2>1, <4>1, <4>2, ParseRunBehind
      <3>3. CASE In(c)!startsScale(a, j) /\ v.value = In(c)!NaN
        <4>1. /\ In(c)!VagueScale(a, j, v.value) = In(c)!parseRun(a, j)
              /\ In(c)!VagueScale(b, j + 2, v.value) = In(c)!parseRun(b, j + 2)
          BY <2>5, <3>3 DEF In!VagueScale
        <4>2. 0 \in Int /\ FALSE \in BOOLEAN
          OBVIOUS
        <4> QED BY <2>1, <4>1, <4>2, ParseRunBehind DEF In!parseRun
      <3> QED BY <3>1, <3>2, <3>3
    <2> QED BY <2>2, <2>3, <2>4, <2>6
  <1>7. In(c)!startsNumber(b, (i + 2) + v.n) = ahead
    <2> DEFINE j == i + v.n
    <2>1. j \in Nat /\ j >= 1 /\ (i + 2) + v.n = j + 2
      BY <1>5
    <2> HIDE DEF j
    <2>2. In(c)!startsNumber(b, j + 2) = In(c)!startsNumber(a, j)
      BY <2>1, AheadBehind
    <2> QED BY <2>1, <2>2 DEF j
  <1>8. HeardIn(c, a, i) = In(c)!Heard(a, i, v, s, r)
    BY DEF HeardIn, In!HeardAt, v
  <1>9. HeardIn(c, b, i + 2) = In(c)!Heard(b, i + 2, v, t, q)
    <2>1. HeardIn(c, b, i + 2) = In(c)!HeardAt(b, i + 2, v)
      BY <1>3 DEF HeardIn
    <2> QED BY <2>1, Zenon DEF In!HeardAt
  <1> HIDE DEF s, t, r, q, ahead, u
  <1>10. \A value, approx, end :
            In(c)!Number(b, value, approx, i + 2, end + 2) = Later(In(c)!Number(a, value, approx, i, end))
    BY <1>1, NumberBehind
  <1>11. CASE s.ok
    <2> DEFINE x == In(c)!Number(a, IF v.value = In(c)!NaN THEN In(c)!NaN ELSE s.value, TRUE, i, s.end)
    <2>1. t.ok /\ t.value = s.value /\ t.end = s.end + 2
      BY <1>6, <1>11 DEF RunLater
    <2>2. HeardIn(c, a, i) = <<x>>
      BY <1>8, <1>11 DEF In!Heard
    <2>3. HeardIn(c, b, i + 2) =
            <<In(c)!Number(b, IF v.value = In(c)!NaN THEN In(c)!NaN ELSE s.value, TRUE, i + 2, s.end + 2)>>
      BY <1>9, <2>1 DEF In!Heard
    <2>4. HeardIn(c, b, i + 2) = <<Later(x)>>
      BY <1>10, <2>3, Zenon
    <2> QED BY <2>2, <2>4
  <1>12. CASE ~ s.ok /\ v.n > 0 /\ ~ ahead
    <2> DEFINE x == In(c)!Number(a, v.value, TRUE, i, i + v.n)
    <2>1. ~ t.ok /\ ~ In(c)!startsNumber(b, (i + 2) + v.n) /\ ~ In(c)!startsNumber(a, i + v.n)
      BY <1>6, <1>7, <1>12 DEF RunLater, ahead
    <2>2. HeardIn(c, a, i) = <<x>>
      BY <1>8, <1>12, <2>1 DEF In!Heard
    <2>3. HeardIn(c, b, i + 2) = <<In(c)!Number(b, v.value, TRUE, i + 2, (i + 2) + v.n)>>
      BY <1>9, <1>12, <2>1 DEF In!Heard
    <2>4. HeardIn(c, b, i + 2) = <<Later(x)>>
      BY <1>5, <1>10, <2>3, Zenon
    <2> QED BY <2>2, <2>4
  <1>13. CASE ~ s.ok /\ ~ (v.n > 0 /\ ~ ahead)
    <2>1. ~ t.ok /\ ~ (v.n > 0 /\ ~ In(c)!startsNumber(b, (i + 2) + v.n))
          /\ ~ (v.n > 0 /\ ~ In(c)!startsNumber(a, i + v.n))
      BY <1>6, <1>7, <1>13 DEF RunLater, ahead
    <2>2. HeardIn(c, a, i) = IF r.ok THEN <<In(c)!Number(a, r.value, FALSE, i, r.end)>> ELSE <<>>
      BY <1>8, <1>13, <2>1 DEF In!Heard
    <2>3. HeardIn(c, b, i + 2) = IF q.ok THEN <<In(c)!Number(b, q.value, FALSE, i + 2, q.end)>> ELSE <<>>
      BY <1>9, <1>13, <2>1 DEF In!Heard
    <2>4. CASE r.ok
      <3> DEFINE x == In(c)!Number(a, r.value, FALSE, i, r.end)
      <3>1. q.ok /\ q.value = r.value /\ q.end = r.end + 2
        BY <1>4, <2>4 DEF RunLater
      <3>2. HeardIn(c, b, i + 2) = <<Later(x)>>
        <4>1. HeardIn(c, b, i + 2) = <<In(c)!Number(b, r.value, FALSE, i + 2, r.end + 2)>>
          BY <2>3, <3>1
        <4> QED BY <1>10, <4>1, Zenon
      <3>3. HeardIn(c, a, i) = <<x>>
        BY <2>2, <2>4
      <3> QED BY <3>2, <3>3
    <2>5. CASE ~ r.ok
      <3>1. ~ q.ok
        BY <1>4, <2>5 DEF RunLater
      <3> QED BY <2>2, <2>3, <2>5, <3>1
    <2> QED BY <2>4, <2>5
  <1> QED BY <1>11, <1>12, <1>13

\* The numbers t are the numbers s, two words on.
LaterAll(s, t) == Len(t) = Len(s) /\ \A k \in 1 .. Len(s) : t[k] = Later(s[k])

LEMMA LaterBefore ==
    ASSUME NEW X, NEW Y, NEW s \in Seq(X), NEW t \in Seq(Y), LaterAll(s, t), NEW x \in X, Later(x) \in Y
    PROVE  LaterAll(<<x>> \o s, <<Later(x)>> \o t)
  <1> DEFINE y == Later(x)
             u == <<x>> \o s
             v == <<y>> \o t
             n == Len(s)
  <1>0. n \in Nat /\ Len(t) = n /\ \A k \in 1 .. n : t[k] = Later(s[k])
    BY DEF LaterAll
  <1>1. Len(u) = n + 1 /\ u[1] = x /\ \A k \in 2 .. (n + 1) : u[k] = s[k - 1]
    OBVIOUS
  <1>2. Len(v) = n + 1 /\ v[1] = y /\ \A k \in 2 .. (n + 1) : v[k] = t[k - 1]
    <2> HIDE DEF y
    <2>1. y \in Y
      BY DEF y
    <2> QED BY <1>0, <2>1
  <1> HIDE DEF u, v, n
  <1>3. ASSUME NEW k \in 1 .. (n + 1)
        PROVE  v[k] = Later(u[k])
    <2>1. k = 1 \/ (k \in 2 .. (n + 1) /\ k - 1 \in 1 .. n)
      BY <1>0
    <2> QED BY <1>0, <1>1, <1>2, <2>1
  <1> QED BY <1>1, <1>2, <1>3 DEF LaterAll, u, v

LEMMA ScanBehind ==
    ASSUME NEW c \in DOMAIN Packs, NEW a, NEW b, Behind(a, b), b[2] \notin WordsOf(In(c)!T.approxSet),
           b[1] \notin NumberWords(In(c)!T), b[2] \notin NumberWords(In(c)!T)
    PROVE  LaterAll(In(c)!ScanNumbers(a), In(c)!ScanNumbers(b))
  <1>0. \A i \in 1 .. Len(a) :
           \/ HeardIn(c, a, i) = <<>> /\ HeardIn(c, b, i + 2) = <<>>
           \/ \E x : HeardIn(c, a, i) = <<x>> /\ HeardIn(c, b, i + 2) = <<Later(x)>>
    <2> SUFFICES ASSUME NEW i \in 1 .. Len(a)
                 PROVE  \/ HeardIn(c, a, i) = <<>> /\ HeardIn(c, b, i + 2) = <<>>
                        \/ \E x : HeardIn(c, a, i) = <<x>> /\ HeardIn(c, b, i + 2) = <<Later(x)>>
      OBVIOUS
    <2> QED BY HeardBehind
  <1> DEFINE n == Len(a)
             X == Founds(c, a)
             Y == Founds(c, b)
  <1>1. n \in Nat /\ Len(a) = n /\ Len(b) = n + 2 /\ Len(b) \in Nat /\ a \in Words /\ b \in Words
    BY DEF Behind, Words
  <1> HIDE DEF n
  <1>2. PICK s \in [Nat -> Seq(X)] : Scans(c, a, s) /\ In(c)!ScanNumbers(a) = s[1]
    BY <1>1, ScanSequence
  <1>3. PICK t \in [Nat -> Seq(Y)] : Scans(c, b, t) /\ In(c)!ScanNumbers(b) = t[1]
    BY <1>1, ScanSequence
  <1> DEFINE W == {x \in Seq(X) \X Seq(Y) : LaterAll(x[1], x[2])}
             F(i) == <<s[i], t[i + 2]>>
             f == [i \in Nat |-> F(i)]
  <1> HIDE DEF X, Y
  <1>4. \A i \in Nat : i + 2 \in Nat /\ s[i] \in Seq(X) /\ t[i + 2] \in Seq(Y)
    <2>1. \A i \in Nat : i + 2 \in Nat
      OBVIOUS
    <2> QED BY <1>2, <1>3, <2>1
  <1>5. \A i \in Nat : f[i] \in W <=> LaterAll(s[i], t[i + 2])
    <2>1. \A i \in Nat : f[i] = F(i)
      OBVIOUS
    <2>2. \A i \in Nat : F(i) \in W <=> LaterAll(s[i], t[i + 2])
      BY <1>4
    <2> QED BY <2>1, <2>2
  <1> HIDE DEF f, W, F
  <1>6. ASSUME NEW i \in Nat, i > n
        PROVE  f[i] \in W
    <2>1. i > Len(a) /\ i + 2 > Len(b) /\ i + 2 \in Nat
      BY <1>1, <1>6
    <2>2. s[i] = <<>> /\ t[i + 2] = <<>>
      BY <1>2, <1>3, <2>1 DEF Scans
    <2>3. LaterAll(<<>>, <<>>)
      BY DEF LaterAll
    <2> QED BY <1>5, <2>2, <2>3
  <1>7. ASSUME NEW i \in 1 .. n, \A j \in Nat : j > i => f[j] \in W
        PROVE  f[i] \in W
    <2>1. /\ i \in Nat /\ i + 1 \in Nat /\ i + 1 > i /\ ~ (i > Len(a)) /\ i + 2 \in Nat /\ ~ (i + 2 > Len(b))
          /\ (i + 2) + 1 = (i + 1) + 2 /\ i \in 1 .. Len(a) /\ i <= Len(a)
          /\ i + 2 \in 1 .. Len(b)
      BY <1>1
    <2>2. CASE HeardIn(c, a, i) = <<>> /\ HeardIn(c, b, i + 2) = <<>>
      <3>1. s[i] = s[i + 1]
        BY <1>2, <2>1, <2>2 DEF Scans
      <3>2. t[i + 2] = t[(i + 1) + 2]
        <4> DEFINE k == i + 2
        <4>1. k \in Nat /\ ~ (k > Len(b)) /\ HeardIn(c, b, k) = <<>>
          BY <2>1, <2>2
        <4> HIDE DEF k
        <4>2. t[k] = t[k + 1]
          BY <1>3, <4>1 DEF Scans
        <4> QED BY <2>1, <4>2 DEF k
      <3>3. LaterAll(s[i + 1], t[(i + 1) + 2])
        BY <1>5, <1>7, <2>1
      <3> QED BY <1>5, <2>1, <3>1, <3>2, <3>3
    <2>3. CASE \E x : HeardIn(c, a, i) = <<x>> /\ HeardIn(c, b, i + 2) = <<Later(x)>>
      <3>1. PICK x : HeardIn(c, a, i) = <<x>> /\ HeardIn(c, b, i + 2) = <<Later(x)>>
        BY <2>3
      <3> DEFINE y == Later(x)
                 k == i + 2
      <3>0. /\ HeardIn(c, a, i) # <<>> /\ HeardIn(c, a, i)[1] = x
            /\ HeardIn(c, b, k) # <<>> /\ HeardIn(c, b, k)[1] = y
            /\ k \in Nat /\ ~ (k > Len(b)) /\ k \in 1 .. Len(b)
        <4> HIDE DEF y
        <4>1. HeardIn(c, a, i) # <<>> /\ HeardIn(c, a, i)[1] = x
          BY <3>1
        <4>2. HeardIn(c, b, k) = <<y>>
          BY <3>1 DEF y
        <4>3. HeardIn(c, b, k) # <<>> /\ HeardIn(c, b, k)[1] = y
          <5>1. <<y>> # <<>> /\ <<y>>[1] = y
            OBVIOUS
          <5> QED BY <4>2, <5>1, Zenon
        <4>4. k \in Nat /\ ~ (k > Len(b)) /\ k \in 1 .. Len(b)
          BY <2>1
        <4> QED BY <4>1, <4>3, <4>4
      <3>2. x.end \in Nat /\ x.end > i /\ y.end = x.end + 2
        <4>1. NumberAt(c, a, i, x)
          BY <1>1, <2>1, <3>0, FoundFits
        <4>2. y.end = x.end + 2
          BY DEF Later
        <4> HIDE DEF y
        <4>3. x.end \in (i + 1) .. (Len(a) + 1)
          BY <4>1, Zenon DEF NumberAt
        <4>4. i \in Nat
          BY <2>1
        <4> DEFINE e == x.end
        <4>5. e \in (i + 1) .. (n + 1)
          BY <1>1, <4>3
        <4> HIDE DEF e
        <4>6. e \in Nat /\ e > i
          BY <1>1, <4>4, <4>5
        <4> QED BY <4>2, <4>6 DEF e
      <3> HIDE DEF y, k
      <3>3. s[i] = <<x>> \o s[x.end]
        BY <1>2, <2>1, <3>0 DEF Scans
      <3>4. t[k] = <<y>> \o t[x.end + 2]
        BY <1>3, <3>0, <3>2 DEF Scans
      <3>5. LaterAll(s[x.end], t[x.end + 2])
        BY <1>5, <1>7, <3>2
      <3>6. x \in X /\ y \in Y
        BY <2>1, <3>0 DEF Founds, X, Y
      <3>7. LaterAll(s[i], t[k])
        <4>1. s[x.end] \in Seq(X) /\ t[x.end + 2] \in Seq(Y)
          BY <1>4, <3>2
        <4>2. LaterAll(<<x>> \o s[x.end], <<Later(x)>> \o t[x.end + 2])
          BY <3>5, <3>6, <4>1, LaterBefore DEF y
        <4> QED BY <3>3, <3>4, <4>2 DEF y
      <3> QED BY <1>5, <2>1, <3>7 DEF k
    <2>4. \/ HeardIn(c, a, i) = <<>> /\ HeardIn(c, b, i + 2) = <<>>
          \/ \E x : HeardIn(c, a, i) = <<x>> /\ HeardIn(c, b, i + 2) = <<Later(x)>>
      BY <1>0, <2>1
    <2> QED BY <2>2, <2>3, <2>4
  <1>8. \A i \in Nat \ {0} : f[i] \in W
    BY <1>1, <1>6, <1>7, Downward
  <1>9. LaterAll(s[1], t[3])
    <2>1. 1 \in Nat \ {0} /\ 1 \in Nat /\ 1 + 2 = 3
      OBVIOUS
    <2>2. LaterAll(s[1], t[1 + 2])
      BY <1>5, <1>8, <2>1
    <2> QED BY <2>1, <2>2
  <1>10. t[1] = t[3]
    <2>1. /\ 1 \in 1 .. Len(b) /\ 2 \in 1 .. Len(b) /\ ~ (1 > Len(b)) /\ ~ (2 > Len(b)) /\ 1 + 1 = 2 /\ 2 + 1 = 3
          /\ 1 \in Nat /\ 2 \in Nat
      BY <1>1
    <2>2. HeardIn(c, b, 1) = <<>> /\ HeardIn(c, b, 2) = <<>>
      BY <1>1, <2>1, HeardNothing
    <2>3. t[1] = t[1 + 1]
      BY <1>3, <2>1, <2>2 DEF Scans
    <2>4. t[2] = t[2 + 1]
      BY <1>3, <2>1, <2>2 DEF Scans
    <2> QED BY <2>1, <2>3, <2>4
  <1> QED BY <1>2, <1>3, <1>9, <1>10

-----------------------------------------------------------------------------
(* The words of p said again behind "nails." and "no". *)

Repeats(p, q) ==
    /\ ParseFits(p) /\ ParseFits(q) /\ p.n >= 1 /\ q.n = p.n + 2
    /\ \A i \in 1 .. p.n : q.w[i + 2] = p.w[i]
    /\ LaterAll(p.nums, q.nums)
    /\ \A i, k \in 1 .. p.n : p.clause[i] = p.clause[k]
    /\ \A i, k \in 2 .. q.n : q.clause[i] = q.clause[k]
    /\ q.clause[1] # q.clause[2]
    /\ q.w[1] = "nails" /\ q.w[2] = "no"

\* The words from i on are one clause.
LEMMA OneClause ==
    ASSUME NEW p, ParseFits(p), NEW i \in 0 .. p.n, \A j \in i .. p.n : p.clause[j] = p.clause[i]
    PROVE  En!clauseEnd(p, i) = p.n + 1
  <1> DEFINE S == {j \in (i + 1) .. (p.n + 1) : j = p.n + 1 \/ p.clause[j] # p.clause[i]}
  <1>1. p.n \in Nat
    BY DEF ParseFits
  <1>2. \A j \in S : j = p.n + 1
    BY <1>1
  <1>3. p.n + 1 \in S /\ S \in SUBSET Nat /\ En!clauseEnd(p, i) = En!MinOf(S)
    BY <1>1 DEF En!clauseEnd
  <1> HIDE DEF S
  <1>4. En!MinOf(S) \in S
    BY <1>3, MinIn
  <1> QED BY <1>2, <1>3, <1>4

LEMMA ClausesFollow ==
    ASSUME NEW p, NEW q, Repeats(p, q)
    PROVE  /\ p.n \in Nat /\ q.n = p.n + 2 /\ q.n \in Nat
           /\ \A i \in 1 .. p.n : En!clauseEnd(p, i) = p.n + 1
           /\ \A i \in 2 .. q.n : En!clauseEnd(q, i) = q.n + 1
           /\ En!clauseEnd(q, 1) = 2
  <1>1. p.n \in Nat /\ q.n = p.n + 2 /\ q.n \in Nat /\ ParseFits(p) /\ ParseFits(q)
    BY DEF Repeats, ParseFits
  <1>2. ASSUME NEW i \in 1 .. p.n
        PROVE  En!clauseEnd(p, i) = p.n + 1
    <2>1. i \in 0 .. p.n /\ \A j \in i .. p.n : p.clause[j] = p.clause[i]
      BY <1>1 DEF Repeats
    <2> QED BY <1>1, <2>1, OneClause
  <1>3. ASSUME NEW i \in 2 .. q.n
        PROVE  En!clauseEnd(q, i) = q.n + 1
    <2>1. i \in 0 .. q.n /\ \A j \in i .. q.n : q.clause[j] = q.clause[i]
      BY <1>1 DEF Repeats
    <2> QED BY <1>1, <2>1, OneClause
  <1>4. En!clauseEnd(q, 1) = 2
    <2> DEFINE e == En!clauseEnd(q, 1)
    <2>1. 1 \in 0 .. q.n
      BY <1>1
    <2>2. e \in 2 .. (q.n + 1) /\ \A j \in 1 .. (e - 1) : q.clause[j] = q.clause[1]
      BY <1>1, <2>1, ClauseEnds, InClause
    <2> HIDE DEF e
    <2>3. e > 2 => 2 \in 1 .. (e - 1)
      BY <1>1, <2>2
    <2>4. q.clause[2] # q.clause[1]
      BY DEF Repeats
    <2> QED BY <1>1, <2>2, <2>3, <2>4 DEF e
  <1> QED BY <1>1, <1>2, <1>3, <1>4

LEMMA ArticlesFollow ==
    ASSUME NEW p, NEW q, Repeats(p, q), NEW i \in 1 .. p.n
    PROVE  En!AfterArticles(q, i + 2) = En!AfterArticles(p, i) + 2
  <1> DEFINE S == {j \in (i + 1) .. (p.n + 1) :
                     j = p.n + 1 \/ ~ (p.w[j] \in En!T.Articles /\ p.clause[j] = p.clause[i])}
             R == {j \in ((i + 2) + 1) .. (q.n + 1) :
                     j = q.n + 1 \/ ~ (q.w[j] \in En!T.Articles /\ q.clause[j] = q.clause[i + 2])}
             a == En!MinOf(S)
             b == En!MinOf(R)
  <1>1. p.n \in Nat /\ q.n = p.n + 2 /\ i \in Nat
    BY ClausesFollow
  <1>2. ASSUME NEW j \in (i + 1) .. (p.n + 1)
        PROVE  j \in S <=> j + 2 \in R
    <2>1. j + 2 \in ((i + 2) + 1) .. (q.n + 1) /\ (j = p.n + 1 <=> j + 2 = q.n + 1)
      BY <1>1
    <2>2. CASE j = p.n + 1
      BY <2>1, <2>2
    <2>3. CASE j # p.n + 1
      <3>1. j \in 1 .. p.n /\ j + 2 \in 2 .. q.n /\ i + 2 \in 2 .. q.n
        BY <1>1, <2>3
      <3>2. q.w[j + 2] = p.w[j] /\ q.clause[j + 2] = q.clause[i + 2] /\ p.clause[j] = p.clause[i]
        BY <3>1 DEF Repeats
      <3> QED BY <2>1, <2>3, <3>2
    <2> QED BY <2>2, <2>3
  <1>3. S \in SUBSET Nat /\ S # {} /\ R \in SUBSET Nat /\ R # {}
        /\ S \subseteq (i + 1) .. (p.n + 1) /\ R \subseteq ((i + 2) + 1) .. (q.n + 1)
    <2>1. p.n + 1 \in S /\ q.n + 1 \in R
      BY <1>1
    <2> QED BY <1>1, <2>1
  <1>4. En!AfterArticles(p, i) = a /\ En!AfterArticles(q, i + 2) = b
    BY Zenon DEF En!AfterArticles
  <1> HIDE DEF S, R
  <1>5. a \in S /\ b \in R /\ (\A y \in S : a <= y) /\ (\A y \in R : b <= y)
    BY <1>3, MinIn
  <1> HIDE DEF a, b
  <1>6. a + 2 \in R
    BY <1>2, <1>3, <1>5
  <1>7. b - 2 \in S
    <2>1. b - 2 \in (i + 1) .. (p.n + 1) /\ (b - 2) + 2 = b
      BY <1>1, <1>3, <1>5
    <2> QED BY <1>2, <1>5, <2>1
  <1>8. b <= a + 2 /\ a <= b - 2 /\ a \in Nat /\ b \in Nat
    BY <1>3, <1>5, <1>6, <1>7
  <1> QED BY <1>4, <1>8

\* Two sets of at most one number or segment: the second two words on.
OneLater(S, R) == (S = {} /\ R = {}) \/ \E x : S = {x} /\ R = {Later(x)}

\* A whole number of a location, at j.
Short(v) == v \in 0 .. 9999
Whole(x, j) == x.start = j /\ ~ x.vague /\ Short(x.value)

LEMMA WholeNumbers ==
    ASSUME NEW p, NEW i
    PROVE  \A x : x \in En!intNumSpanAt(p, i) <=> \E k \in DOMAIN p.nums : x = p.nums[k] /\ Whole(p.nums[k], i)
  <1>1. \A x : x \in En!intNumSpanAt(p, i) <=> x \in En!Nums(p) /\ Whole(x, i)
    BY DEF En!intNumSpanAt, Whole, Short
  <1>2. \A x : x \in En!Nums(p) <=> \E k \in DOMAIN p.nums : x = p.nums[k]
    BY DEF En!Nums
  <1> QED BY <1>1, <1>2, Zenon

LEMMA WholeLater ==
    ASSUME NEW x, x.start \in Int, NEW i \in Int
    PROVE  Whole(Later(x), i + 2) <=> Whole(x, i)
  <1> DEFINE y == Later(x)
  <1>1. y.start = x.start + 2 /\ y.value = x.value
    BY DEF Later
  <1>2. y.vague = x.vague
    BY DEF Later
  <1> HIDE DEF y
  <1>3. x.start = i <=> y.start = i + 2
    BY <1>1
  <1>4. y.vague <=> x.vague
    BY <1>2
  <1>5. Short(y.value) <=> Short(x.value)
    BY <1>1
  <1>6. Whole(y, i + 2) <=> Whole(x, i)
    BY <1>3, <1>4, <1>5, Zenon DEF Whole
  <1> QED BY <1>6 DEF y

\* The numbers of both, one by one.
LEMMA EachFollows ==
    ASSUME NEW p, NEW q, Repeats(p, q)
    PROVE  /\ ParseFits(p) /\ ParseFits(q) /\ DOMAIN q.nums = DOMAIN p.nums
           /\ \A k \in DOMAIN p.nums : /\ q.nums[k] = Later(p.nums[k]) /\ p.nums[k].start \in Int
                                       /\ HeardIn("en", p.w, p.nums[k].start) = <<p.nums[k]>>
                                       /\ NumberFits(p.nums[k], p.n) /\ k \in Nat
                                       /\ NumberAt("en", p.w, p.nums[k].start, p.nums[k])
  <1>1. p.nums = In("en")!ScanNumbers(p.w) /\ q.nums = In("en")!ScanNumbers(q.w) /\ p.w \in Words /\ q.w \in Words
        /\ ParseFits(p) /\ ParseFits(q) /\ LaterAll(p.nums, q.nums) /\ "en" \in DOMAIN Packs
    BY OfEnglish DEF Repeats, ParseFits
  <1>2. p.nums \in Seq(Founds("en", p.w)) /\ q.nums \in Seq(Founds("en", q.w))
    BY <1>1, Scanned
  <1>3. DOMAIN p.nums = 1 .. Len(p.nums) /\ DOMAIN q.nums = 1 .. Len(q.nums)
    BY <1>2
  <1>4. DOMAIN q.nums = DOMAIN p.nums /\ \A k \in DOMAIN p.nums : q.nums[k] = Later(p.nums[k])
    BY <1>1, <1>3 DEF LaterAll
  <1>5. ASSUME NEW k \in DOMAIN p.nums
        PROVE  /\ p.nums[k].start \in Int /\ HeardIn("en", p.w, p.nums[k].start) = <<p.nums[k]>>
               /\ NumberFits(p.nums[k], p.n) /\ k \in Nat
               /\ NumberAt("en", p.w, p.nums[k].start, p.nums[k])
    <2>1. NumberFits(p.nums[k], p.n) /\ HeardIn("en", p.w, p.nums[k].start) = <<p.nums[k]>> /\ k \in Nat
          /\ NumberAt("en", p.w, p.nums[k].start, p.nums[k])
      BY <1>1, NumberOfParse
    <2>2. p.nums[k].start \in Int
      BY <2>1 DEF NumberFits
    <2> QED BY <2>1, <2>2
  <1> QED BY <1>1, <1>4, <1>5

LEMMA NumbersFollow ==
    ASSUME NEW p, NEW q, Repeats(p, q), NEW i \in Nat
    PROVE  OneLater(En!intNumSpanAt(p, i), En!intNumSpanAt(q, i + 2))
  <1> DEFINE S == En!intNumSpanAt(p, i)
             R == En!intNumSpanAt(q, i + 2)
  <1>1. DOMAIN q.nums = DOMAIN p.nums
        /\ \A k \in DOMAIN p.nums : /\ q.nums[k] = Later(p.nums[k]) /\ p.nums[k].start \in Int
                                    /\ HeardIn("en", p.w, p.nums[k].start) = <<p.nums[k]>>
    BY EachFollows
  <1>2. \A k \in DOMAIN p.nums : Whole(q.nums[k], i + 2) <=> Whole(p.nums[k], i)
    <2> SUFFICES ASSUME NEW k \in DOMAIN p.nums
                 PROVE  Whole(q.nums[k], i + 2) <=> Whole(p.nums[k], i)
      OBVIOUS
    <2> DEFINE x == p.nums[k]
    <2>1. x.start \in Int /\ q.nums[k] = Later(x) /\ i \in Int
      BY <1>1
    <2> HIDE DEF x
    <2>2. Whole(Later(x), i + 2) <=> Whole(x, i)
      BY <2>1, WholeLater
    <2> QED BY <2>1, <2>2 DEF x
  <1>3. \A x : x \in S <=> \E k \in DOMAIN p.nums : x = p.nums[k] /\ Whole(p.nums[k], i)
    BY WholeNumbers
  <1>4. \A y : y \in R <=> \E k \in DOMAIN q.nums : y = q.nums[k] /\ Whole(q.nums[k], i + 2)
    BY WholeNumbers
  <1> HIDE DEF S, R
  <1>5. \A x \in S : HeardIn("en", p.w, i) = <<x>> /\ Later(x) \in R
    <2> SUFFICES ASSUME NEW x \in S
                 PROVE  HeardIn("en", p.w, i) = <<x>> /\ Later(x) \in R
      OBVIOUS
    <2>1. PICK k \in DOMAIN p.nums : x = p.nums[k] /\ Whole(p.nums[k], i)
      BY <1>3, Zenon
    <2>2. p.nums[k].start = i
      BY <2>1, Zenon DEF Whole
    <2>3. k \in DOMAIN q.nums /\ Whole(q.nums[k], i + 2) /\ q.nums[k] = Later(x)
      BY <1>1, <1>2, <2>1, Zenon
    <2>4. Later(x) \in R
      BY <1>4, <2>3, Zenon
    <2>5. HeardIn("en", p.w, i) = <<x>>
      BY <1>1, <2>1, <2>2, Zenon
    <2> QED BY <2>4, <2>5
  <1>6. \A y \in R : \E x \in S : y = Later(x)
    <2> SUFFICES ASSUME NEW y \in R
                 PROVE  \E x \in S : y = Later(x)
      OBVIOUS
    <2>1. PICK k \in DOMAIN q.nums : y = q.nums[k] /\ Whole(q.nums[k], i + 2)
      BY <1>4, Zenon
    <2>2. k \in DOMAIN p.nums /\ Whole(p.nums[k], i) /\ y = Later(p.nums[k])
      BY <1>1, <1>2, <2>1, Zenon
    <2>3. p.nums[k] \in S
      BY <1>3, <2>2, Zenon
    <2> QED BY <2>2, <2>3, Zenon
  <1>7. CASE S = {}
    <2>1. R = {}
      BY <1>6, <1>7
    <2> QED BY <1>7, <2>1 DEF OneLater, S, R
  <1>8. CASE S # {}
    <2>1. PICK x \in S : TRUE
      BY <1>8
    <2>2. \A z \in S : z = x
      <3> SUFFICES ASSUME NEW z \in S
                   PROVE  z = x
        OBVIOUS
      <3>1. <<z>> = <<x>>
        BY <1>5
      <3> QED BY <3>1
    <2>3. S = {x}
      BY <2>2
    <2> DEFINE l == Later(x)
    <2>4. l \in R /\ \A y \in R : y = l
      BY <1>5, <1>6, <2>2, Zenon
    <2> HIDE DEF l
    <2>5. R = {l}
      BY <2>4
    <2> QED BY <2>3, <2>5 DEF OneLater, S, R, l
  <1> QED BY <1>7, <1>8

\* The ends of the whole numbers at i, up to end.
EndsAt(p, i, end) == {x.end : x \in {y \in En!intNumSpanAt(p, i) : y.end <= end}}

\* Two sets of at most one end: the second two words on.
EndLater(S, R) == (S = {} /\ R = {}) \/ \E e \in Nat \ {0} : S = {e} /\ R = {e + 2}

LEMMA EndsFollow ==
    ASSUME NEW p, NEW q, Repeats(p, q), NEW i \in Nat
    PROVE  EndLater(EndsAt(p, i, p.n + 1), EndsAt(q, i + 2, q.n + 1))
  <1> DEFINE S == En!intNumSpanAt(p, i)
             R == En!intNumSpanAt(q, i + 2)
  <1>1. OneLater(S, R)
    BY NumbersFollow
  <1>2. \A x \in S : x.end \in Nat \ {0} /\ x.end <= p.n + 1
    <2> SUFFICES ASSUME NEW x \in S
                 PROVE  x.end \in Nat \ {0} /\ x.end <= p.n + 1
      OBVIOUS
    <2>1. PICK k \in DOMAIN p.nums : x = p.nums[k]
      <3>1. x \in En!intNumSpanAt(p, i) => \E k \in DOMAIN p.nums : x = p.nums[k] /\ Whole(p.nums[k], i)
        BY WholeNumbers
      <3> QED BY <3>1, Zenon
    <2>2. NumberFits(x, p.n)
      BY <2>1, EachFollows, Zenon
    <2>3. p.n \in Nat
      BY ClausesFollow
    <2> QED BY <2>2, <2>3 DEF NumberFits
  <1> HIDE DEF S, R
  <1>3. CASE S = {} /\ R = {}
    BY <1>3 DEF EndLater, EndsAt, S, R
  <1>4. CASE \E x : S = {x} /\ R = {Later(x)}
    <2>1. PICK x : S = {x} /\ R = {Later(x)}
      BY <1>4
    <2> DEFINE e == x.end
               y == Later(x)
    <2>2. e \in Nat \ {0} /\ e <= p.n + 1
      BY <1>2, <2>1
    <2>3. y.end = e + 2
      BY DEF Later
    <2>4. R = {y}
      BY <2>1
    <2>5. p.n \in Nat /\ q.n = p.n + 2
      BY ClausesFollow
    <2>6. EndsAt(p, i, p.n + 1) = {z.end : z \in {u \in S : u.end <= p.n + 1}}
      BY DEF EndsAt, S
    <2>7. EndsAt(q, i + 2, q.n + 1) = {z.end : z \in {u \in R : u.end <= q.n + 1}}
      BY DEF EndsAt, R
    <2>8. EndsAt(p, i, p.n + 1) = {e}
      BY <2>1, <2>2, <2>6
    <2> HIDE DEF y
    <2>9. EndsAt(q, i + 2, q.n + 1) = {e + 2}
      <3>1. y.end <= q.n + 1
        <4> HIDE DEF e
        <4> QED BY <2>2, <2>3, <2>5
      <3>2. {u \in R : u.end <= q.n + 1} = {y}
        BY <2>4, <3>1
      <3>3. {z.end : z \in {y}} = {y.end}
        OBVIOUS
      <3> QED BY <2>3, <2>7, <3>2, <3>3, Zenon
    <2> QED BY <2>2, <2>8, <2>9 DEF EndLater
  <1> QED BY <1>1, <1>3, <1>4 DEF OneLater

LEMMA MinOfOne ==
    ASSUME NEW e \in Nat
    PROVE  En!MinOf({e}) = e
  <1>1. {e} \in SUBSET Nat /\ {e} # {}
    OBVIOUS
  <1>2. En!MinOf({e}) \in {e}
    BY <1>1, MinIn
  <1> QED BY <1>2

\* A value of an anchor noun, by the ends of the numbers in it.
ValueOf(word, at, after, v) ==
    CASE word \in En!Codes -> v + 1
      [] word \in En!Letters -> IF after = {} THEN v + 1 ELSE En!MinOf(after)
      [] OTHER -> IF at = {} THEN 0 ELSE En!MinOf(at)

LEMMA ValueIs ==
    ASSUME NEW p, NEW noun
    PROVE  En!ValueEnd(p, noun) =
              ValueOf(p.w[noun + 1], EndsAt(p, noun + 1, En!clauseEnd(p, noun)),
                      EndsAt(p, (noun + 1) + 1, En!clauseEnd(p, noun)), noun + 1)
  BY Zenon DEF En!ValueEnd, ValueOf, EndsAt

LEMMA ValueOfIs ==
    ASSUME NEW word, NEW at, NEW after, NEW v
    PROVE  /\ word \in En!Codes => ValueOf(word, at, after, v) = v + 1
           /\ word \in En!Letters =>
                 ValueOf(word, at, after, v) = IF after = {} THEN v + 1 ELSE En!MinOf(after)
           /\ word \notin En!Codes /\ word \notin En!Letters =>
                 ValueOf(word, at, after, v) = IF at = {} THEN 0 ELSE En!MinOf(at)
  <1>1. \A x : ~ (x \in En!Codes /\ x \in En!Letters)
    BY DEF En!Codes, En!CodeValue, En!Letters
  <1>2. CASE word \in En!Codes
    <2>1. word \notin En!Letters
      BY <1>1, <1>2
    <2> QED BY <1>2, <2>1 DEF ValueOf
  <1>3. CASE word \in En!Letters
    <2>1. word \notin En!Codes
      BY <1>1, <1>3
    <2> QED BY <1>3, <2>1 DEF ValueOf
  <1>4. CASE word \notin En!Codes /\ word \notin En!Letters
    BY <1>4 DEF ValueOf
  <1> QED BY <1>2, <1>3, <1>4

LEMMA ValuesFollow ==
    ASSUME NEW p, NEW q, Repeats(p, q), NEW noun \in 1 .. p.n, noun + 1 <= p.n
    PROVE  LET e == En!ValueEnd(p, noun)
               d == En!ValueEnd(q, noun + 2)
           IN  (e = 0 /\ d = 0) \/ (e \in Nat \ {0} /\ d = e + 2)
  <1> DEFINE v == noun + 1
             u == (noun + 2) + 1
             word == p.w[v]
             A == EndsAt(p, v, p.n + 1)
             B == EndsAt(q, v + 2, q.n + 1)
             C == EndsAt(p, v + 1, p.n + 1)
             D == EndsAt(q, (v + 1) + 2, q.n + 1)
             e == ValueOf(word, A, C, v)
             d == ValueOf(word, B, D, v + 2)
  <1>1. /\ noun + 2 \in 2 .. q.n /\ v \in 1 .. p.n /\ v \in Nat /\ v + 1 \in Nat /\ u = v + 2
        /\ (v + 2) + 1 = (v + 1) + 2 /\ v + 1 \in Nat \ {0} /\ v > 0
    BY ClausesFollow
  <1>2. En!clauseEnd(p, noun) = p.n + 1 /\ En!clauseEnd(q, noun + 2) = q.n + 1
    BY <1>1, ClausesFollow
  <1>3. q.w[v + 2] = word
    BY <1>1 DEF Repeats
  <1>4. EndLater(A, B) /\ EndLater(C, D)
    <2> DEFINE w == v + 1
    <2>1. v \in Nat /\ w \in Nat
      BY <1>1
    <2> HIDE DEF v, w
    <2>0. \A i \in Nat : EndLater(EndsAt(p, i, p.n + 1), EndsAt(q, i + 2, q.n + 1))
      BY EndsFollow
    <2>2. EndLater(EndsAt(p, v, p.n + 1), EndsAt(q, v + 2, q.n + 1))
      BY <2>0, <2>1, Zenon
    <2>3. EndLater(EndsAt(p, w, p.n + 1), EndsAt(q, w + 2, q.n + 1))
      BY <2>0, <2>1, Zenon
    <2> QED BY <2>2, <2>3 DEF w
  <1>5. En!ValueEnd(p, noun) = e
    BY <1>2, ValueIs
  <1>6. En!ValueEnd(q, noun + 2) = d
    <2>1. En!ValueEnd(q, noun + 2) =
              ValueOf(q.w[u], EndsAt(q, u, q.n + 1), EndsAt(q, u + 1, q.n + 1), u)
      BY <1>2, ValueIs, Zenon
    <2> QED BY <1>1, <1>3, <2>1
  <1> HIDE DEF v, A, B, C, D, word
  <1>7. \A S, R : EndLater(S, R) =>
           \/ S = {} /\ R = {}
           \/ S # {} /\ R # {} /\ En!MinOf(S) \in Nat \ {0} /\ En!MinOf(R) = En!MinOf(S) + 2
    <2> SUFFICES ASSUME NEW S, NEW R, NEW f \in Nat \ {0}, S = {f}, R = {f + 2}
                 PROVE  S # {} /\ R # {} /\ En!MinOf(S) \in Nat \ {0} /\ En!MinOf(R) = En!MinOf(S) + 2
      BY DEF EndLater
    <2>1. f \in Nat /\ f + 2 \in Nat
      OBVIOUS
    <2>2. En!MinOf({f}) = f /\ En!MinOf({f + 2}) = f + 2
      BY <2>1, MinOfOne
    <2> QED BY <2>2
  <1>8. CASE word \in En!Codes
    <2>1. e = v + 1 /\ d = (v + 2) + 1
      BY <1>8, ValueOfIs
    <2> HIDE DEF e, d
    <2> QED BY <1>1, <1>5, <1>6, <2>1
  <1>9. CASE word \in En!Letters
    <2>1. /\ e = IF C = {} THEN v + 1 ELSE En!MinOf(C)
          /\ d = IF D = {} THEN (v + 2) + 1 ELSE En!MinOf(D)
      BY <1>9, ValueOfIs
    <2> HIDE DEF e, d
    <2>2. \/ C = {} /\ D = {}
          \/ C # {} /\ D # {} /\ En!MinOf(C) \in Nat \ {0} /\ En!MinOf(D) = En!MinOf(C) + 2
      BY <1>4, <1>7
    <2>3. e \in Nat \ {0} /\ d = e + 2
      BY <1>1, <2>1, <2>2
    <2> QED BY <1>5, <1>6, <2>3
  <1>10. CASE word \notin En!Codes /\ word \notin En!Letters
    <2>1. e = (IF A = {} THEN 0 ELSE En!MinOf(A)) /\ d = (IF B = {} THEN 0 ELSE En!MinOf(B))
      BY <1>10, ValueOfIs
    <2> HIDE DEF e, d
    <2>2. \/ A = {} /\ B = {}
          \/ A # {} /\ B # {} /\ En!MinOf(A) \in Nat \ {0} /\ En!MinOf(B) = En!MinOf(A) + 2
      BY <1>4, <1>7
    <2>3. (e = 0 /\ d = 0) \/ (e \in Nat \ {0} /\ d = e + 2)
      BY <2>1, <2>2
    <2> QED BY <1>5, <1>6, <2>3
  <1> QED BY <1>8, <1>9, <1>10

\* A segment, two words on.
LaterSeg(s) == [start |-> s.start + 2, end |-> s.end + 2, val |-> s.val + 2, anchor |-> s.anchor]
\* The segments at two words, of p and two words on in q.
SegsFollow(p, S, R) ==
    \/ S = {} /\ R = {}
    \/ \E s : S = {s} /\ R = {LaterSeg(s)} /\ s.start \in Nat /\ s.end \in Nat /\ s.val \in 1 .. p.n

LEMMA LaterSegIs ==
    ASSUME NEW a, NEW b, NEW c, NEW d, NEW s, s = [start |-> a, end |-> b, val |-> c, anchor |-> d]
    PROVE  /\ s.start = a /\ s.end = b /\ s.val = c
           /\ LaterSeg(s) = [start |-> a + 2, end |-> b + 2, val |-> c + 2, anchor |-> d]
  BY DEF LaterSeg

LEMMA NounsFollow ==
    ASSUME NEW p, NEW q, Repeats(p, q), NEW noun \in 1 .. p.n, NEW i \in 1 .. p.n
    PROVE  SegsFollow(p, En!segFromNoun(p, {}, noun, i), En!segFromNoun(q, {}, noun + 2, i + 2))
  <1> DEFINE e == En!ValueEnd(p, noun)
             d == En!ValueEnd(q, noun + 2)
             anchor == IF p.w[noun] \in En!T.KeepAnchorNouns THEN p.w[noun] ELSE ""
             s == [start |-> i, end |-> e, val |-> noun + 1, anchor |-> anchor]
             t == [start |-> i + 2, end |-> d, val |-> (noun + 2) + 1, anchor |-> anchor]
             S == En!segFromNoun(p, {}, noun, i)
             R == En!segFromNoun(q, {}, noun + 2, i + 2)
  <1>1. p.n \in Nat /\ q.n = p.n + 2 /\ noun + 2 \in 2 .. q.n
    BY ClausesFollow
  <1>2. En!clauseEnd(p, noun) = p.n + 1 /\ En!clauseEnd(q, noun + 2) = q.n + 1
    BY <1>1, ClausesFollow
  <1>3. q.w[noun + 2] = p.w[noun]
    BY DEF Repeats
  <1>4. S = IF noun + 1 >= p.n + 1 \/ e = 0 THEN {} ELSE {s}
    BY <1>2 DEF En!segFromNoun
  <1>5. R = IF (noun + 2) + 1 >= q.n + 1 \/ d = 0 THEN {} ELSE {t}
    BY <1>2, <1>3 DEF En!segFromNoun
  <1>6. noun + 1 <= p.n => (e = 0 /\ d = 0) \/ (e \in Nat \ {0} /\ d = e + 2)
    BY ValuesFollow
  <1>7. (noun + 2) + 1 = (noun + 1) + 2
    OBVIOUS
  <1>8. LaterSeg(s) = [start |-> i + 2, end |-> e + 2, val |-> (noun + 1) + 2, anchor |-> anchor]
        /\ s.start = i /\ s.end = e /\ s.val = noun + 1
    <2> DEFINE v == noun + 1
    <2> HIDE DEF e, anchor, v
    <2>1. s = [start |-> i, end |-> e, val |-> v, anchor |-> anchor]
      BY DEF v
    <2> HIDE DEF s
    <2>2. /\ s.start = i /\ s.end = e /\ s.val = v
          /\ LaterSeg(s) = [start |-> i + 2, end |-> e + 2, val |-> v + 2, anchor |-> anchor]
      BY <2>1, LaterSegIs
    <2> QED BY <2>2 DEF v
  <1>9. d = e + 2 => t = LaterSeg(s)
    BY <1>7, <1>8
  <1> HIDE DEF e, d, s, t, S, R, anchor
  <1>10. CASE noun + 1 >= p.n + 1
    <2>1. (noun + 2) + 1 >= q.n + 1
      BY <1>1, <1>10
    <2>2. S = {} /\ R = {}
      BY <1>4, <1>5, <1>10, <2>1
    <2> QED BY <2>2 DEF SegsFollow, S, R
  <1>11. CASE ~ (noun + 1 >= p.n + 1)
    <2>1. ~ ((noun + 2) + 1 >= q.n + 1) /\ noun + 1 <= p.n /\ noun + 1 \in 1 .. p.n
      BY <1>1, <1>11
    <2>2. CASE e = 0 /\ d = 0
      <3>1. S = {} /\ R = {}
        BY <1>4, <1>5, <2>2
      <3> QED BY <3>1 DEF SegsFollow, S, R
    <2>3. CASE e \in Nat \ {0} /\ d = e + 2
      <3>1. e # 0 /\ d # 0
        BY <2>3
      <3>2. S = {s} /\ R = {LaterSeg(s)}
        BY <1>4, <1>5, <1>9, <1>11, <2>1, <2>3, <3>1
      <3>3. s.start \in Nat /\ s.end \in Nat /\ s.val \in 1 .. p.n
        BY <1>8, <2>1, <2>3
      <3> QED BY <3>2, <3>3, Zenon DEF SegsFollow, S, R
    <2> QED BY <1>6, <2>1, <2>2, <2>3
  <1> QED BY <1>10, <1>11

\* The segment at a code.
LEMMA CodeFollows ==
    ASSUME NEW p, NEW i \in 1 .. p.n, NEW j \in 1 .. p.n, p.n \in Nat
    PROVE  LET s == [start |-> i, end |-> j + 1, val |-> j, anchor |-> ""]
               t == [start |-> i + 2, end |-> (j + 2) + 1, val |-> j + 2, anchor |-> ""]
           IN  SegsFollow(p, {s}, {t})
  <1> DEFINE e == j + 1
             s == [start |-> i, end |-> e, val |-> j, anchor |-> ""]
             t == [start |-> i + 2, end |-> (j + 2) + 1, val |-> j + 2, anchor |-> ""]
  <1>1. (j + 2) + 1 = e + 2 /\ e \in Nat /\ i \in Nat
    OBVIOUS
  <1> HIDE DEF e
  <1>2. s.start = i /\ s.end = e /\ s.val = j
        /\ LaterSeg(s) = [start |-> i + 2, end |-> e + 2, val |-> j + 2, anchor |-> ""]
    <2> DEFINE d == ""
    <2>1. s = [start |-> i, end |-> e, val |-> j, anchor |-> d]
      OBVIOUS
    <2> HIDE DEF s, d
    <2>2. /\ s.start = i /\ s.end = e /\ s.val = j
          /\ LaterSeg(s) = [start |-> i + 2, end |-> e + 2, val |-> j + 2, anchor |-> d]
      BY <2>1, LaterSegIs
    <2> QED BY <2>2 DEF d
  <1>3. t = LaterSeg(s)
    BY <1>1, <1>2
  <1> HIDE DEF s, t
  <1>4. s.start \in Nat /\ s.end \in Nat /\ s.val \in 1 .. p.n
    BY <1>1, <1>2
  <1>5. SegsFollow(p, {s}, {t})
    BY <1>3, <1>4, Zenon DEF SegsFollow
  <1> QED BY <1>5 DEF s, t, e

LEMMA SegsAtFollow ==
    ASSUME NEW p, NEW q, Repeats(p, q), NEW i \in 1 .. p.n
    PROVE  SegsFollow(p, En!segAt(p, {}, i), En!segAt(q, {}, i + 2))
  <1> DEFINE S == En!segAt(p, {}, i)
             R == En!segAt(q, {}, i + 2)
             j == En!AfterArticles(p, i)
             k == En!AfterArticles(q, i + 2)
  <1>1. p.n \in Nat /\ q.n = p.n + 2 /\ i \in 0 .. p.n /\ ParseFits(p) /\ q.w[i + 2] = p.w[i]
        /\ i + 2 \in 2 .. q.n
    BY ClausesFollow DEF Repeats
  <1>2. j \in (i + 1) .. (p.n + 1)
    BY <1>1, PastArticles
  <1>3. k = j + 2
    BY ArticlesFollow
  <1>4. SegsFollow(p, {}, {})
    BY DEF SegsFollow
  <1>5. CASE p.w[i] \in En!T.LocationPreps /\ j > p.n
    <2>1. k > q.n /\ q.w[i + 2] \in En!T.LocationPreps
      BY <1>1, <1>2, <1>3, <1>5
    <2> DEFINE noun == En!segFromNoun(p, {}, j, i)
               noun2 == En!segFromNoun(q, {}, k, i + 2)
               code == IF p.w[j] \in En!Codes /\ j \notin {}
                       THEN {[start |-> i, end |-> j + 1, val |-> j, anchor |-> ""]} ELSE {}
               code2 == IF q.w[k] \in En!Codes /\ k \notin {}
                        THEN {[start |-> i + 2, end |-> k + 1, val |-> k, anchor |-> ""]} ELSE {}
    <2>2. S = CASE j > p.n \/ (j <= p.n /\ p.clause[j] # p.clause[i]) -> {}
                [] j <= p.n /\ p.clause[j] = p.clause[i] /\ p.w[j] \in En!T.LocationNouns -> noun
                [] OTHER -> code
      BY <1>5 DEF En!segAt
    <2>3. R = CASE k > q.n \/ (k <= q.n /\ q.clause[k] # q.clause[i + 2]) -> {}
                [] k <= q.n /\ q.clause[k] = q.clause[i + 2] /\ q.w[k] \in En!T.LocationNouns -> noun2
                [] OTHER -> code2
      BY <2>1 DEF En!segAt
    <2>4. ~ (j <= p.n) /\ ~ (k <= q.n)
      BY <1>1, <1>2, <1>3, <1>5, <2>1
    <2> HIDE DEF noun, noun2, code, code2, S, R, j, k
    <2>5. S = {} /\ R = {}
      BY <1>5, <2>1, <2>2, <2>3, <2>4
    <2> QED BY <1>4, <2>5 DEF S, R
  <1>6. CASE p.w[i] \in En!T.LocationPreps /\ ~ (j > p.n)
    <2>1. j \in 1 .. p.n /\ j <= p.n /\ k <= q.n /\ ~ (k > q.n) /\ k \in 2 .. q.n
      BY <1>1, <1>2, <1>3, <1>6
    <2>2. p.clause[j] = p.clause[i] /\ q.clause[k] = q.clause[i + 2] /\ q.w[k] = p.w[j]
      BY <1>1, <1>3, <2>1 DEF Repeats
    <2> HIDE DEF j, k
    <2>3. CASE p.w[j] \in En!T.LocationNouns
      <3>1. S = En!segFromNoun(p, {}, j, i)
        BY <1>6, <2>1, <2>2, <2>3 DEF En!segAt, j
      <3>2. R = En!segFromNoun(q, {}, k, i + 2)
        BY <1>1, <1>6, <2>1, <2>2, <2>3 DEF En!segAt, k
      <3>3. SegsFollow(p, En!segFromNoun(p, {}, j, i), En!segFromNoun(q, {}, j + 2, i + 2))
        BY <2>1, NounsFollow
      <3> QED BY <1>3, <3>1, <3>2, <3>3
    <2>4. CASE p.w[j] \notin En!T.LocationNouns
      <3>1. S = IF p.w[j] \in En!Codes THEN {[start |-> i, end |-> j + 1, val |-> j, anchor |-> ""]} ELSE {}
        BY <1>6, <2>1, <2>2, <2>4 DEF En!segAt, j
      <3>2. R = IF p.w[j] \in En!Codes THEN {[start |-> i + 2, end |-> k + 1, val |-> k, anchor |-> ""]} ELSE {}
        BY <1>1, <1>6, <2>1, <2>2, <2>4 DEF En!segAt, k
      <3>3. SegsFollow(p, {[start |-> i, end |-> j + 1, val |-> j, anchor |-> ""]},
                          {[start |-> i + 2, end |-> (j + 2) + 1, val |-> j + 2, anchor |-> ""]})
        BY <1>1, <2>1, CodeFollows
      <3> HIDE DEF S, R
      <3> QED BY <1>3, <1>4, <3>1, <3>2, <3>3 DEF S, R
    <2> QED BY <2>3, <2>4
  <1>7. CASE p.w[i] \notin En!T.LocationPreps
    <2>1. S = IF p.w[i] \in En!T.LocationNouns THEN En!segFromNoun(p, {}, i, i) ELSE {}
      BY <1>7 DEF En!segAt
    <2>2. R = IF p.w[i] \in En!T.LocationNouns THEN En!segFromNoun(q, {}, i + 2, i + 2) ELSE {}
      BY <1>1, <1>7 DEF En!segAt
    <2>3. SegsFollow(p, En!segFromNoun(p, {}, i, i), En!segFromNoun(q, {}, i + 2, i + 2))
      BY NounsFollow
    <2> HIDE DEF S, R
    <2> QED BY <1>4, <2>1, <2>2, <2>3 DEF S, R
  <1> QED BY <1>5, <1>6, <1>7

\* The segments t are the segments s of p, two words on.
SegsLater(p, s, t) ==
    /\ Len(t) = Len(s) /\ Len(s) \in Nat /\ DOMAIN s = 1 .. Len(s) /\ DOMAIN t = 1 .. Len(s)
    /\ \A k \in 1 .. Len(s) :
          /\ t[k] = LaterSeg(s[k])
          /\ s[k].start \in Nat /\ s[k].end \in Nat /\ s[k].val \in 1 .. p.n

LEMMA SegBefore ==
    ASSUME NEW p, NEW X, NEW Y, NEW s \in Seq(X), NEW t \in Seq(Y), SegsLater(p, s, t),
           NEW x \in X, NEW y \in Y, y = LaterSeg(x),
           x.start \in Nat, x.end \in Nat, x.val \in 1 .. p.n
    PROVE  SegsLater(p, <<x>> \o s, <<y>> \o t)
  <1> DEFINE u == <<x>> \o s
             v == <<y>> \o t
             n == Len(s)
  <1>0. n \in Nat /\ Len(t) = n
        /\ \A k \in 1 .. n : /\ t[k] = LaterSeg(s[k])
                             /\ s[k].start \in Nat /\ s[k].end \in Nat /\ s[k].val \in 1 .. p.n
    BY DEF SegsLater
  <1>1. Len(u) = n + 1 /\ DOMAIN u = 1 .. (n + 1) /\ u[1] = x /\ \A k \in 2 .. (n + 1) : u[k] = s[k - 1]
    OBVIOUS
  <1>2. Len(v) = n + 1 /\ DOMAIN v = 1 .. (n + 1) /\ v[1] = y /\ \A k \in 2 .. (n + 1) : v[k] = t[k - 1]
    BY <1>0
  <1> HIDE DEF u, v, n
  <1>3. ASSUME NEW k \in 1 .. (n + 1)
        PROVE  v[k] = LaterSeg(u[k]) /\ u[k].start \in Nat /\ u[k].end \in Nat /\ u[k].val \in 1 .. p.n
    <2>1. k = 1 \/ (k \in 2 .. (n + 1) /\ k - 1 \in 1 .. n)
      BY <1>0
    <2>2. CASE k = 1
      BY <1>1, <1>2, <2>2
    <2>3. CASE k \in 2 .. (n + 1) /\ k - 1 \in 1 .. n
      BY <1>0, <1>1, <1>2, <2>3
    <2> QED BY <2>1, <2>2, <2>3
  <1>4. n + 1 \in Nat
    BY <1>0
  <1>5. SegsLater(p, u, v)
    BY <1>1, <1>2, <1>3, <1>4 DEF SegsLater
  <1> QED BY <1>5 DEF u, v

\* The words after "no", as segments up to the end.
LEMMA CoversFollow ==
    ASSUME NEW p, NEW q, Repeats(p, q)
    PROVE  SegsLater(p, En!Cover(p, {}, 1, p.n + 1), En!Cover(q, {}, 3, q.n + 1))
  <1> DEFINE n == p.n
             X == CoversOf(p, {})
             Y == CoversOf(q, {})
             a == p.n + 1
             b == q.n + 1
  <1>1. n \in Nat /\ q.n = n + 2 /\ a = n + 1 /\ b = n + 3 /\ ParseFits(p) /\ ParseFits(q)
        /\ a \in Nat /\ b \in Nat /\ a <= p.n + 1 /\ b <= q.n + 1
    BY ClausesFollow DEF Repeats
  <1>2. PICK s : CoverFrom(p, {}, 1, a, s)
    BY <1>1, CoverRecurs
  <1>3. PICK t : CoverFrom(q, {}, 3, b, t)
    BY <1>1, CoverRecurs
  <1> HIDE DEF n, X, Y, a, b
  <1>4. /\ s \in [Nat -> Seq(X)] /\ En!Cover(p, {}, 1, a) = s[1]
        /\ \A j \in Nat : s[j] = CoverOn(p, {}, j, a, s[CoverAt(p, {}, j).end])
    BY <1>2 DEF CoverFrom, X
  <1>5. /\ t \in [Nat -> Seq(Y)] /\ En!Cover(q, {}, 3, b) = t[3]
        /\ \A j \in Nat : t[j] = CoverOn(q, {}, j, b, t[CoverAt(q, {}, j).end])
    BY <1>3 DEF CoverFrom, Y
  <1> DEFINE W == {x \in Seq(X) \X Seq(Y) : SegsLater(p, x[1], x[2])}
             F(i) == <<s[i], t[i + 2]>>
             f == [i \in Nat |-> F(i)]
  <1>6. \A i \in Nat : i + 2 \in Nat /\ s[i] \in Seq(X) /\ t[i + 2] \in Seq(Y)
    <2>1. \A i \in Nat : i + 2 \in Nat
      OBVIOUS
    <2> QED BY <1>4, <1>5, <2>1
  <1>7. \A i \in Nat : f[i] \in W <=> SegsLater(p, s[i], t[i + 2])
    <2>1. \A i \in Nat : f[i] = F(i)
      OBVIOUS
    <2>2. \A i \in Nat : F(i) \in W <=> SegsLater(p, s[i], t[i + 2])
      BY <1>6
    <2> QED BY <2>1, <2>2
  <1> HIDE DEF f, W, F
  <1>8. SegsLater(p, <<>>, <<>>)
    BY DEF SegsLater
  <1>9. ASSUME NEW i \in Nat, i > n
        PROVE  f[i] \in W
    <2>1. i >= a /\ i + 2 >= b /\ i + 2 \in Nat
      BY <1>1, <1>9
    <2>2. s[i] = <<>> /\ t[i + 2] = <<>>
      BY <1>4, <1>5, <2>1 DEF CoverOn, CoverStops
    <2> QED BY <1>7, <1>8, <2>2
  <1>10. ASSUME NEW i \in 1 .. n, \A j \in Nat : j > i => f[j] \in W
         PROVE  f[i] \in W
    <2> DEFINE k == i + 2
               S == En!segAt(p, {}, i)
               R == En!segAt(q, {}, k)
               x == CoverAt(p, {}, i)
               y == CoverAt(q, {}, k)
    <2>1. i \in Nat /\ k \in Nat /\ ~ (i >= a) /\ ~ (k >= b) /\ i \in 1 .. p.n
      BY <1>1 DEF n
    <2>2. SegsFollow(p, S, R)
      BY <2>1, SegsAtFollow
    <2>3. s[i] = CoverOn(p, {}, i, a, s[x.end]) /\ t[k] = CoverOn(q, {}, k, b, t[y.end])
      BY <1>4, <1>5, <2>1
    <2>4. CASE S = {} /\ R = {}
      <3>1. CoverStops(p, {}, i, a) /\ CoverStops(q, {}, k, b)
        BY <2>4 DEF CoverStops
      <3>2. s[i] = <<>> /\ t[k] = <<>>
        BY <2>3, <3>1 DEF CoverOn
      <3> QED BY <1>7, <1>8, <2>1, <3>2
    <2>5. CASE \E z : S = {z} /\ R = {LaterSeg(z)} /\ z.start \in Nat /\ z.end \in Nat /\ z.val \in 1 .. p.n
      <3>1. /\ S # {} /\ R # {} /\ y = LaterSeg(x)
            /\ x.start \in Nat /\ x.end \in Nat /\ x.val \in 1 .. p.n
        <4>1. PICK z : S = {z} /\ R = {LaterSeg(z)} /\ z.start \in Nat /\ z.end \in Nat /\ z.val \in 1 .. p.n
          BY <2>5
        <4> DEFINE l == LaterSeg(z)
        <4> HIDE DEF l
        <4>2. R = {l} /\ S = {z}
          BY <4>1 DEF l
        <4>3. x = z /\ y = l
          BY <4>2 DEF CoverAt, En!One
        <4>4. S # {} /\ R # {}
          BY <4>2
        <4> HIDE DEF x, y, S, R
        <4> QED BY <4>1, <4>3, <4>4 DEF l
      <3> HIDE DEF S, R
      <3>2. x \in X /\ y \in Y
        BY <2>1 DEF CoversOf, X, Y
      <3>3. y.end = x.end + 2
        <4>1. LaterSeg(x).end = x.end + 2
          BY DEF LaterSeg
        <4> HIDE DEF x, y
        <4> QED BY <3>1, <4>1
      <3>4. CoverStops(p, {}, i, a) <=> x.end > a
        BY <2>1, <3>1 DEF CoverStops, S
      <3>5. CoverStops(q, {}, k, b) <=> y.end > b
        BY <2>1, <3>1 DEF CoverStops, R
      <3>6. ~ (x.end > a) => x.end > i
        <4>1. ~ (x.end > a) => ~ CoverStops(p, {}, i, a)
          BY <3>4
        <4>2. ~ CoverStops(p, {}, i, a) => x.end > i
          BY <1>1, <2>1, CoverIsNext
        <4> QED BY <4>1, <4>2
      <3>7. /\ s[i] = IF x.end > a THEN <<>> ELSE IF x.end = a THEN <<x>>
                      ELSE IF s[x.end] = <<>> THEN <<>> ELSE <<x>> \o s[x.end]
            /\ t[k] = IF y.end > b THEN <<>> ELSE IF y.end = b THEN <<y>>
                      ELSE IF t[y.end] = <<>> THEN <<>> ELSE <<y>> \o t[y.end]
        BY <2>3, <3>4, <3>5, Zenon DEF CoverOn
      <3> HIDE DEF x, y, k
      <3>8. /\ (x.end > a <=> y.end > b) /\ (x.end = a <=> y.end = b)
        BY <1>1, <3>1, <3>3
      <3>9. CASE x.end > a
        <4>1. s[i] = <<>> /\ t[k] = <<>>
          BY <3>7, <3>8, <3>9
        <4> QED BY <1>7, <1>8, <2>1, <4>1 DEF k
      <3>10. CASE x.end = a
        <4>1. ~ (x.end > a)
          BY <1>1, <3>10
        <4>2. s[i] = <<x>> /\ t[k] = <<y>>
          BY <3>7, <3>8, <3>10, <4>1
        <4>3. <<>> \in Seq(X) /\ <<>> \in Seq(Y)
          OBVIOUS
        <4>4. SegsLater(p, <<x>> \o <<>>, <<y>> \o <<>>)
          BY <1>8, <3>1, <3>2, <4>3, SegBefore
        <4>5. <<x>> \o <<>> = <<x>> /\ <<y>> \o <<>> = <<y>>
          BY <3>2
        <4>6. SegsLater(p, <<x>>, <<y>>)
          BY <4>4, <4>5, Zenon
        <4> QED BY <1>7, <2>1, <4>2, <4>6 DEF k
      <3>11. CASE ~ (x.end > a) /\ x.end # a
        <4>1. SegsLater(p, s[x.end], t[x.end + 2])
          BY <1>7, <1>10, <3>1, <3>6, <3>11
        <4>2. s[x.end] \in Seq(X) /\ t[x.end + 2] \in Seq(Y)
          BY <1>6, <3>1
        <4>3. s[x.end] = <<>> <=> t[y.end] = <<>>
          <5> DEFINE u == s[x.end]
                     v == t[x.end + 2]
          <5>1. u \in Seq(X) /\ v \in Seq(Y) /\ Len(v) = Len(u) /\ v = t[y.end]
            BY <3>3, <4>1, <4>2 DEF SegsLater
          <5> HIDE DEF u, v
          <5>2. u = <<>> <=> v = <<>>
            BY <5>1
          <5> QED BY <5>1, <5>2 DEF u
        <4>4. CASE s[x.end] = <<>>
          <5>1. s[i] = <<>> /\ t[k] = <<>>
            BY <3>7, <3>8, <3>11, <4>3, <4>4, Zenon
          <5> QED BY <1>7, <1>8, <2>1, <5>1 DEF k
        <4>5. CASE s[x.end] # <<>>
          <5>1. s[i] = <<x>> \o s[x.end] /\ t[k] = <<y>> \o t[x.end + 2]
            BY <3>3, <3>7, <3>8, <3>11, <4>3, <4>5, Zenon
          <5>2. SegsLater(p, <<x>> \o s[x.end], <<y>> \o t[x.end + 2])
            BY <3>1, <3>2, <4>1, <4>2, SegBefore
          <5> QED BY <1>7, <2>1, <5>1, <5>2 DEF k
        <4> QED BY <4>4, <4>5
      <3> QED BY <3>9, <3>10, <3>11
    <2> QED BY <2>2, <2>4, <2>5 DEF SegsFollow
  <1>11. \A i \in Nat \ {0} : f[i] \in W
    BY <1>1, <1>9, <1>10, Downward
  <1>12. SegsLater(p, s[1], t[3])
    <2>1. 1 \in Nat \ {0} /\ 1 \in Nat /\ 1 + 2 = 3
      OBVIOUS
    <2>2. SegsLater(p, s[1], t[1 + 2])
      BY <1>7, <1>11, <2>1
    <2> QED BY <2>1, <2>2
  <1> QED BY <1>4, <1>5, <1>12 DEF a, b

LEMMA OneValue ==
    ASSUME NEW S, NEW R, OneLater(S, R)
    PROVE  (S = {} <=> R = {}) /\ (S # {} => En!One(R).value = En!One(S).value)
  <1>1. CASE S = {} /\ R = {}
    BY <1>1
  <1>2. CASE \E x : S = {x} /\ R = {Later(x)}
    <2>1. PICK x : S = {x} /\ R = {Later(x)}
      BY <1>2
    <2> DEFINE y == Later(x)
    <2>2. y.value = x.value
      BY DEF Later
    <2>3. R = {y}
      BY <2>1
    <2> HIDE DEF y
    <2>4. En!One(S) = x /\ En!One(R) = y
      BY <2>1, <2>3 DEF En!One
    <2>5. S # {} /\ R # {}
      BY <2>1, <2>3
    <2> QED BY <2>2, <2>4, <2>5
  <1> QED BY <1>1, <1>2 DEF OneLater

LEMMA EndingFollow ==
    ASSUME NEW S, NEW R, OneLater(S, R), \A x \in S : x.end \in Int, NEW e \in Int
    PROVE  OneLater({x \in S : x.end = e}, {x \in R : x.end = e + 2})
  <1>1. CASE S = {} /\ R = {}
    <2>1. {x \in S : x.end = e} = {} /\ {x \in R : x.end = e + 2} = {}
      BY <1>1
    <2> QED BY <2>1 DEF OneLater
  <1>2. CASE \E x : S = {x} /\ R = {Later(x)}
    <2>1. PICK x : S = {x} /\ R = {Later(x)}
      BY <1>2
    <2> DEFINE y == Later(x)
    <2>2. y.end = x.end + 2
      BY DEF Later
    <2>3. R = {y}
      BY <2>1
    <2> HIDE DEF y
    <2>4. x.end \in Int
      BY <2>1
    <2>5. y.end = e + 2 <=> x.end = e
      BY <2>2, <2>4
    <2>6. CASE x.end = e
      <3>1. {z \in S : z.end = e} = {x} /\ {z \in R : z.end = e + 2} = {y}
        BY <2>1, <2>3, <2>5, <2>6
      <3> QED BY <3>1 DEF OneLater, y
    <2>7. CASE x.end # e
      <3>1. {z \in S : z.end = e} = {} /\ {z \in R : z.end = e + 2} = {}
        BY <2>1, <2>3, <2>5, <2>7
      <3> QED BY <3>1 DEF OneLater
    <2> QED BY <2>6, <2>7
  <1> QED BY <1>1, <1>2 DEF OneLater

LEMMA WholeEnds ==
    ASSUME NEW p, NEW q, Repeats(p, q), NEW i \in Nat
    PROVE  \A x \in En!intNumSpanAt(p, i) : x.end \in Int
  <1> SUFFICES ASSUME NEW x \in En!intNumSpanAt(p, i)
               PROVE  x.end \in Int
    OBVIOUS
  <1>1. PICK k \in DOMAIN p.nums : x = p.nums[k]
    <2>1. x \in En!intNumSpanAt(p, i) => \E k \in DOMAIN p.nums : x = p.nums[k] /\ Whole(p.nums[k], i)
      BY WholeNumbers
    <2> QED BY <2>1, Zenon
  <1>2. NumberFits(x, p.n)
    BY <1>1, EachFollows, Zenon
  <1> QED BY <1>2, ClausesFollow DEF NumberFits

\* What is rendered of a segment, by its first word and the numbers in it.
Rendered(word, letter, after, whole) ==
    CASE letter /\ after # {} -> <<word, En!One(after).value>>
      [] ~ (letter /\ after # {}) /\ whole # {} -> <<"", En!One(whole).value>>
      [] OTHER -> IF word \in En!Codes THEN En!CodeValue[word] ELSE <<word, En!NaN>>

LEMMA RenderedIs ==
    ASSUME NEW p, NEW s
    PROVE  En!renderLocValue(p, s) =
              Rendered(p.w[s.val], s.end - s.val >= 2 /\ p.w[s.val] \in En!Letters,
                       En!intNumSpanAt(p, s.val + 1), {x \in En!intNumSpanAt(p, s.val) : x.end = s.end})
  BY Zenon DEF En!renderLocValue, Rendered

LEMMA RenderedSame ==
    ASSUME NEW word, NEW letter \in BOOLEAN, NEW A, NEW B, NEW C, NEW D, OneLater(A, B), OneLater(C, D)
    PROVE  Rendered(word, letter, B, D) = Rendered(word, letter, A, C)
  <1>1. /\ (A = {} <=> B = {}) /\ (A # {} => En!One(B).value = En!One(A).value)
        /\ (C = {} <=> D = {}) /\ (C # {} => En!One(D).value = En!One(C).value)
    BY OneValue
  <1>2. CASE letter /\ A # {}
    <2>1. letter /\ B # {} /\ ~ (~ (letter /\ B # {}) /\ D # {}) /\ ~ (~ (letter /\ A # {}) /\ C # {})
      BY <1>1, <1>2
    <2>2. Rendered(word, letter, A, C) = <<word, En!One(A).value>>
      BY <1>2, <2>1 DEF Rendered
    <2>3. Rendered(word, letter, B, D) = <<word, En!One(B).value>>
      BY <1>2, <2>1 DEF Rendered
    <2> QED BY <1>1, <1>2, <2>2, <2>3
  <1>3. CASE ~ (letter /\ A # {}) /\ C # {}
    <2>1. ~ (letter /\ B # {}) /\ D # {}
      BY <1>1, <1>3
    <2>2. Rendered(word, letter, A, C) = <<"", En!One(C).value>>
      BY <1>3 DEF Rendered
    <2>3. Rendered(word, letter, B, D) = <<"", En!One(D).value>>
      BY <2>1 DEF Rendered
    <2> QED BY <1>1, <1>3, <2>2, <2>3
  <1>4. CASE ~ (letter /\ A # {}) /\ ~ (C # {})
    <2>1. ~ (letter /\ B # {}) /\ ~ (D # {})
      BY <1>1, <1>4
    <2>2. Rendered(word, letter, A, C) = IF word \in En!Codes THEN En!CodeValue[word] ELSE <<word, En!NaN>>
      BY <1>4 DEF Rendered
    <2>3. Rendered(word, letter, B, D) = IF word \in En!Codes THEN En!CodeValue[word] ELSE <<word, En!NaN>>
      BY <2>1 DEF Rendered
    <2> QED BY <2>2, <2>3
  <1> QED BY <1>2, <1>3, <1>4

LEMMA SegmentRendered ==
    ASSUME NEW p, NEW q, Repeats(p, q), NEW s, s.end \in Nat, s.val \in 1 .. p.n
    PROVE  En!renderLocValue(q, LaterSeg(s)) = En!renderLocValue(p, s)
  <1> DEFINE e == s.end
             v == s.val
             t == LaterSeg(s)
             word == p.w[v]
             letter == e - v >= 2 /\ word \in En!Letters
             A == En!intNumSpanAt(p, v + 1)
             B == En!intNumSpanAt(q, (v + 1) + 2)
             C == {x \in En!intNumSpanAt(p, v) : x.end = e}
             D == {x \in En!intNumSpanAt(q, v + 2) : x.end = e + 2}
  <1>1. e \in Nat /\ v \in Nat /\ v + 1 \in Nat /\ v \in 1 .. p.n /\ e \in Int
    BY ClausesFollow
  <1>2. t.end = e + 2 /\ t.val = v + 2
    BY DEF LaterSeg
  <1>3. q.w[v + 2] = word
    BY <1>1 DEF Repeats
  <1>4. OneLater(A, B)
    <2> DEFINE u == v + 1
    <2>1. u \in Nat
      BY <1>1
    <2> HIDE DEF u, v
    <2>2. OneLater(En!intNumSpanAt(p, u), En!intNumSpanAt(q, u + 2))
      BY <2>1, NumbersFollow
    <2> QED BY <2>2 DEF u
  <1>5. OneLater(C, D)
    <2> DEFINE S == En!intNumSpanAt(p, v)
               R == En!intNumSpanAt(q, v + 2)
    <2> HIDE DEF v, e
    <2>1. OneLater(S, R) /\ \A x \in S : x.end \in Int
      BY <1>1, NumbersFollow, WholeEnds
    <2> HIDE DEF S, R
    <2>2. OneLater({x \in S : x.end = e}, {x \in R : x.end = e + 2})
      BY <1>1, <2>1, EndingFollow
    <2> QED BY <2>2 DEF S, R
  <1>6. En!renderLocValue(p, s) = Rendered(word, letter, A, C)
    BY RenderedIs
  <1>7. En!renderLocValue(q, t) = Rendered(word, letter, B, D)
    <2>1. En!renderLocValue(q, t) =
              Rendered(q.w[t.val], t.end - t.val >= 2 /\ q.w[t.val] \in En!Letters,
                       En!intNumSpanAt(q, t.val + 1), {x \in En!intNumSpanAt(q, t.val) : x.end = t.end})
      BY RenderedIs
    <2> HIDE DEF v, e, t
    <2>2. (e + 2) - (v + 2) = e - v /\ (v + 2) + 1 = (v + 1) + 2
      BY <1>1
    <2> QED BY <1>2, <1>3, <2>1, <2>2
  <1> HIDE DEF A, B, C, D, word
  <1>8. letter \in BOOLEAN
    OBVIOUS
  <1> HIDE DEF letter
  <1>9. Rendered(word, letter, B, D) = Rendered(word, letter, A, C)
    BY <1>4, <1>5, <1>8, RenderedSame
  <1> QED BY <1>6, <1>7, <1>9

LEMMA RenderFollows ==
    ASSUME NEW p, NEW q, Repeats(p, q), NEW s, NEW t, SegsLater(p, s, t)
    PROVE  En!renderLocation(q, t) = En!renderLocation(p, s)
  <1> DEFINE A(k) == <<s[k].anchor, En!renderLocValue(p, s[k])>>
             B(k) == <<t[k].anchor, En!renderLocValue(q, t[k])>>
  <1>1. DOMAIN t = DOMAIN s /\ DOMAIN s = 1 .. Len(s)
    BY DEF SegsLater
  <1>2. \A k \in DOMAIN s : B(k) = A(k)
    <2> SUFFICES ASSUME NEW k \in DOMAIN s
                 PROVE  B(k) = A(k)
      OBVIOUS
    <2> DEFINE x == s[k]
               y == LaterSeg(x)
    <2>1. t[k] = y /\ x.end \in Nat /\ x.val \in 1 .. p.n
      BY <1>1 DEF SegsLater
    <2>2. y.anchor = x.anchor
      BY DEF LaterSeg
    <2> HIDE DEF x
    <2>3. En!renderLocValue(q, y) = En!renderLocValue(p, x)
      BY <2>1, SegmentRendered
    <2> HIDE DEF y
    <2> QED BY <2>1, <2>2, <2>3 DEF x
  <1>3. En!renderLocation(p, s) = [k \in DOMAIN s |-> A(k)]
    BY DEF En!renderLocation
  <1>4. En!renderLocation(q, t) = [k \in DOMAIN t |-> B(k)]
    BY DEF En!renderLocation
  <1> HIDE DEF A, B
  <1> QED BY <1>1, <1>2, <1>3, <1>4

\* The readings of a span as a location: a code, a letter and a number, segments.
NumbersTo(p, start, end) == {x \in En!intNumSpanAt(p, start + 1) : x.end = end}
CodeSpan(p, start, end) == end - start = 1 /\ p.w[start] \in En!Codes
LetterSpan(p, start, end) ==
    end - start > 1 /\ p.w[start] \in En!Letters /\ NumbersTo(p, start, end) # {}
Reading(p, start, end, loc, cover) ==
    /\ CodeSpan(p, start, end) => loc = << <<"", En!CodeValue[p.w[start]]>> >>
    /\ ~ CodeSpan(p, start, end) /\ LetterSpan(p, start, end) =>
          loc = << <<"", <<p.w[start], En!One(NumbersTo(p, start, end)).value>> >> >>
    /\ ~ CodeSpan(p, start, end) /\ ~ LetterSpan(p, start, end) => loc = cover

LEMMA SpanReadings ==
    ASSUME NEW p, NEW used, NEW start \in Nat, NEW end \in Nat, start < end
    PROVE  Reading(p, start, end, En!locationFromSpan(p, used, start, end),
                   En!renderLocation(p, En!Cover(p, used, start, end)))
  <1> DEFINE loc    == En!locationFromSpan(p, used, start, end)
             code   == CodeSpan(p, start, end)
             letter == LetterSpan(p, start, end)
             A == << <<"", En!CodeValue[p.w[start]]>> >>
             B == << <<"", <<p.w[start], En!One(NumbersTo(p, start, end)).value>> >> >>
             C == En!renderLocation(p, En!Cover(p, used, start, end))
  <1>1. loc = CASE start >= end -> <<>> [] code -> A [] letter -> B [] OTHER -> C
    BY Zenon DEF En!locationFromSpan, CodeSpan, LetterSpan, NumbersTo
  <1>2. ~ (start >= end) /\ ~ (code /\ letter)
    <2>1. ~ (start >= end) /\ ~ (end - start = 1 /\ end - start > 1)
      OBVIOUS
    <2> QED BY <2>1 DEF CodeSpan, LetterSpan
  <1>3. code \in BOOLEAN /\ letter \in BOOLEAN
    BY DEF CodeSpan, LetterSpan
  <1> HIDE DEF loc, code, letter, A, B, C
  <1>4. code => loc = A
    BY <1>1, <1>2
  <1>5. ~ code /\ letter => loc = B
    BY <1>1, <1>2
  <1>6. ~ code /\ ~ letter => loc = C
    BY <1>1, <1>2
  <1> QED BY <1>4, <1>5, <1>6, Zenon DEF Reading, loc, code, letter, A, B, C

\* The words said again are the same location.
LEMMA LocationFollows ==
    ASSUME NEW p, NEW q, Repeats(p, q)
    PROVE  En!locationFromSpan(q, {}, 3, q.n + 1) = En!locationFromSpan(p, {}, 1, p.n + 1)
  <1> DEFINE n == p.n
             a == n + 1
             b == q.n + 1
             A == NumbersTo(p, 1, a)
             B == NumbersTo(q, 3, b)
             loc == En!locationFromSpan(p, {}, 1, a)
             loc2 == En!locationFromSpan(q, {}, 3, b)
             cover == En!renderLocation(p, En!Cover(p, {}, 1, a))
             cover2 == En!renderLocation(q, En!Cover(q, {}, 3, b))
  <1>1. n \in Nat /\ n >= 1 /\ q.n = n + 2
    BY ClausesFollow DEF Repeats
  <1>2. q.w[3] = p.w[1]
    <2>1. 1 \in 1 .. p.n /\ 1 + 2 = 3
      BY <1>1
    <2> QED BY <2>1 DEF Repeats
  <1>3. OneLater(A, B)
    <2> DEFINE S == En!intNumSpanAt(p, 1 + 1)
               R == En!intNumSpanAt(q, 3 + 1)
    <2>1. OneLater(S, R) /\ \A x \in S : x.end \in Int
      <3>1. 2 \in Nat /\ 1 + 1 = 2 /\ 3 + 1 = 4 /\ 2 + 2 = 4
        OBVIOUS
      <3>2. OneLater(En!intNumSpanAt(p, 2), En!intNumSpanAt(q, 2 + 2))
        BY <3>1, NumbersFollow
      <3>3. \A x \in En!intNumSpanAt(p, 2) : x.end \in Int
        BY <3>1, WholeEnds
      <3> QED BY <3>1, <3>2, <3>3
    <2>0. A = {x \in S : x.end = a} /\ B = {x \in R : x.end = b}
      BY DEF NumbersTo
    <2> HIDE DEF S, R
    <2>2. a \in Int /\ b = a + 2
      BY <1>1
    <2> HIDE DEF a, b, A, B
    <2>3. OneLater({x \in S : x.end = a}, {x \in R : x.end = a + 2})
      BY <2>1, <2>2, EndingFollow
    <2> QED BY <2>0, <2>2, <2>3
  <1>4. cover2 = cover
    BY CoversFollow, RenderFollows
  <1>5. (A = {} <=> B = {}) /\ (A # {} => En!One(B).value = En!One(A).value)
    <2> HIDE DEF A, B
    <2> QED BY <1>3, OneValue
  <1>6. Reading(p, 1, a, loc, cover)
    <2>1. 1 \in Nat /\ a \in Nat /\ 1 < a
      BY <1>1
    <2> HIDE DEF a
    <2> QED BY <2>1, SpanReadings
  <1>7. Reading(q, 3, b, loc2, cover2)
    <2>1. 3 \in Nat /\ b \in Nat /\ 3 < b
      BY <1>1
    <2> HIDE DEF b
    <2> QED BY <2>1, SpanReadings
  <1>8. CodeSpan(q, 3, b) <=> CodeSpan(p, 1, a)
    <2>1. b - 3 = 1 <=> a - 1 = 1
      BY <1>1
    <2> HIDE DEF a, b
    <2> QED BY <1>2, <2>1 DEF CodeSpan
  <1>9. LetterSpan(q, 3, b) <=> LetterSpan(p, 1, a)
    <2>1. b - 3 > 1 <=> a - 1 > 1
      BY <1>1
    <2>2. NumbersTo(q, 3, b) = {} <=> NumbersTo(p, 1, a) = {}
      BY <1>5
    <2> HIDE DEF a, b
    <2> QED BY <1>2, <2>1, <2>2 DEF LetterSpan
  <1>10. LetterSpan(p, 1, a) => A # {}
    BY DEF LetterSpan
  <1> HIDE DEF loc, loc2, cover, cover2, a, b
  <1>11. loc2 = loc
    <2>1. CASE CodeSpan(p, 1, a)
      BY <1>2, <1>6, <1>7, <1>8, <2>1 DEF Reading
    <2>2. CASE ~ CodeSpan(p, 1, a) /\ LetterSpan(p, 1, a)
      <3>1. En!One(B).value = En!One(A).value
        BY <1>5, <1>10, <2>2
      <3>2. loc = << <<"", <<p.w[1], En!One(A).value>> >> >>
        BY <1>6, <2>2 DEF Reading
      <3>3. loc2 = << <<"", <<q.w[3], En!One(B).value>> >> >>
        BY <1>7, <1>8, <1>9, <2>2 DEF Reading
      <3> HIDE DEF A, B
      <3> QED BY <1>2, <3>1, <3>2, <3>3
    <2>3. CASE ~ CodeSpan(p, 1, a) /\ ~ LetterSpan(p, 1, a)
      BY <1>4, <1>6, <1>7, <1>8, <1>9, <2>3 DEF Reading
    <2> QED BY <2>1, <2>2, <2>3
  <1> QED BY <1>11 DEF loc, loc2, a, b, n

\* The numbers with their mark or their first word at start; the first of them.
NumbersFrom(p, start) == {k \in DOMAIN p.nums : start \in {p.nums[k].mark, p.nums[k].start}}
FirstFrom(p, start) == p.nums[En!MinOf(NumbersFrom(p, start))]
\* The first of them is all of a span, but for a unit.
QuantitySpan(p, start, end) ==
    /\ NumbersFrom(p, start) # {} /\ ~ FirstFrom(p, start).vague
    /\ FirstFrom(p, start).end = end \/ (FirstFrom(p, start).end = end - 1 /\ En!IsUnit(p.w[end - 1]))

LEMMA QuantityReading ==
    ASSUME NEW p, NEW start, NEW end
    PROVE  LET qty == En!qtyFromSpan(p, start, end) IN
           /\ QuantitySpan(p, start, end) => qty # {} /\ En!One(qty).qty = FirstFrom(p, start).value
           /\ ~ QuantitySpan(p, start, end) => qty = {}
  <1> DEFINE qty == En!qtyFromSpan(p, start, end)
             at == NumbersFrom(p, start)
             x == FirstFrom(p, start)
             Q == [qty |-> x.value, approx |-> x.approx, unit |-> IF x.end = end THEN 0 ELSE end - 1]
  <1>1. qty = IF at = {} THEN {} ELSE
              IF x.vague \/ ~ (x.end = end \/ (x.end = end - 1 /\ En!IsUnit(p.w[end - 1]))) THEN {} ELSE {Q}
    BY Zenon DEF En!qtyFromSpan, NumbersFrom, FirstFrom
  <1>2. Q.qty = x.value
    OBVIOUS
  <1> HIDE DEF qty, Q
  <1>3. CASE QuantitySpan(p, start, end)
    <2>1. qty = {Q}
      BY <1>1, <1>3, Zenon DEF QuantitySpan
    <2>2. {Q} # {} /\ En!One({Q}) = Q
      BY DEF En!One
    <2> QED BY <1>2, <1>3, <2>1, <2>2 DEF qty
  <1>4. CASE ~ QuantitySpan(p, start, end)
    <2>1. qty = {}
      BY <1>1, <1>4, Zenon DEF QuantitySpan
    <2> QED BY <1>4, <2>1 DEF qty
  <1> QED BY <1>3, <1>4

LEMMA FirstFits ==
    ASSUME NEW p, NEW q, Repeats(p, q), NumbersFrom(p, 1) # {}
    PROVE  /\ \E k \in DOMAIN p.nums : k = En!MinOf(NumbersFrom(p, 1)) /\ FirstFrom(p, 1) = p.nums[k]
           /\ FirstFrom(p, 1).mark = 1 /\ FirstFrom(p, 1).start \in 1 .. p.n
           /\ FirstFrom(p, 1).end \in 1 .. (p.n + 1)
           /\ \A i \in 1 .. (FirstFrom(p, 1).end - 1) : p.w[i] \notin Starts
  <1> DEFINE at == NumbersFrom(p, 1)
             k == En!MinOf(at)
             x == p.nums[k]
  <1>1. at \in SUBSET Nat /\ at \subseteq DOMAIN p.nums
    BY EachFollows DEF NumbersFrom
  <1>2. k \in at /\ k \in DOMAIN p.nums
    <2>1. at # {}
      OBVIOUS
    <2> HIDE DEF at
    <2> QED BY <1>1, <2>1, MinIn
  <1>3. 1 \in {x.mark, x.start}
    BY <1>2 DEF NumbersFrom
  <1>4. NumberFits(x, p.n) /\ NumberAt("en", p.w, x.start, x)
    BY <1>2, EachFollows
  <1>5. FirstFrom(p, 1) = x
    BY DEF FirstFrom
  <1> HIDE DEF at, k, x
  <1>6. p.n \in Nat
    BY ClausesFollow
  <1>7. x.start \in 1 .. p.n /\ x.end \in (x.start + 1) .. (p.n + 1) /\ x.mark \in 1 .. x.start /\ x.mark = 1
        /\ x.end \in 1 .. (p.n + 1)
    BY <1>3, <1>4, <1>6 DEF NumberFits
  <1>8. /\ \A j \in x.start .. (x.end - 1) : p.w[j] \in NumberWords(En!T)
        /\ \A j \in x.mark .. (x.start - 1) : p.w[j] \in WordsOf(En!T.approxSet)
    <2>1. En!T = In("en")!T
      BY EnglishTables
    <2> QED BY <1>4, <2>1, Zenon DEF NumberAt
  <1>9. ASSUME NEW i \in 1 .. (x.end - 1)
        PROVE  p.w[i] \notin Starts
    <2>1. i \in x.start .. (x.end - 1) \/ i \in x.mark .. (x.start - 1)
      BY <1>6, <1>7
    <2> QED BY <1>8, <2>1, EnglishWords
  <1> QED BY <1>2, <1>5, <1>7, <1>9 DEF k, x, at

\* The words said again are the same quantity.
LEMMA QuantityFollows ==
    ASSUME NEW p, NEW q, Repeats(p, q)
    PROVE  LET S == En!qtyFromSpan(p, 1, p.n + 1)
               R == En!qtyFromSpan(q, 3, q.n + 1)
           IN  (S = {} <=> R = {}) /\ (S # {} => En!One(R).qty = En!One(S).qty)
  <1> DEFINE S == En!qtyFromSpan(p, 1, p.n + 1)
             R == En!qtyFromSpan(q, 3, q.n + 1)
  <1>1. p.n \in Nat /\ q.n = p.n + 2 /\ p.n >= 1
    BY ClausesFollow DEF Repeats
  <1>2. NumbersFrom(q, 3) = NumbersFrom(p, 1)
    <2>1. DOMAIN q.nums = DOMAIN p.nums
      BY EachFollows
    <2>2. ASSUME NEW k \in DOMAIN p.nums
          PROVE  3 \in {q.nums[k].mark, q.nums[k].start} <=> 1 \in {p.nums[k].mark, p.nums[k].start}
      <3> DEFINE x == p.nums[k]
                 y == q.nums[k]
      <3>1. NumberFits(x, p.n) /\ y = Later(x)
        BY EachFollows
      <3>2. y.mark = x.mark + 2 /\ y.start = x.start + 2
        BY <3>1 DEF Later
      <3>3. x.start \in 1 .. p.n /\ x.mark \in 1 .. x.start
        BY <3>1, Zenon DEF NumberFits
      <3> HIDE DEF x, y
      <3>4. x.start \in Int /\ x.mark \in Int
        BY <3>3
      <3>5. 3 \in {y.mark, y.start} <=> 1 \in {x.mark, x.start}
        BY <3>2, <3>4
      <3> QED BY <3>5 DEF x, y
    <2> QED BY <2>1, <2>2 DEF NumbersFrom
  <1>3. CASE NumbersFrom(p, 1) = {}
    <2>1. ~ QuantitySpan(p, 1, p.n + 1) /\ ~ QuantitySpan(q, 3, q.n + 1)
      BY <1>2, <1>3 DEF QuantitySpan
    <2>2. S = {} /\ R = {}
      BY <2>1, QuantityReading
    <2> QED BY <2>2
  <1>4. CASE NumbersFrom(p, 1) # {}
    <2> DEFINE x == FirstFrom(p, 1)
               y == FirstFrom(q, 3)
               e == p.n + 1
               f == q.n + 1
    <2>1. PICK k \in DOMAIN p.nums : k = En!MinOf(NumbersFrom(p, 1)) /\ x = p.nums[k]
      BY <1>4, FirstFits
    <2>2. y = Later(x)
      <3>1. y = q.nums[k]
        BY <1>2, <2>1 DEF FirstFrom
      <3> HIDE DEF x, y
      <3> QED BY <2>1, <3>1, EachFollows
    <2>3. y.vague = x.vague /\ y.value = x.value /\ y.end = x.end + 2
      BY <2>2 DEF Later
    <2>4. x.end \in Int
      <3>1. x.end \in 1 .. (p.n + 1)
        BY <1>4, FirstFits
      <3> HIDE DEF x
      <3> QED BY <1>1, <3>1
    <2>5. En!IsUnit(q.w[f - 1]) <=> En!IsUnit(p.w[e - 1])
      <3>1. p.n \in 1 .. p.n /\ e - 1 = p.n /\ f - 1 = p.n + 2
        BY <1>1
      <3>2. q.w[p.n + 2] = p.w[p.n]
        BY <3>1 DEF Repeats
      <3> HIDE DEF e, f
      <3> QED BY <3>1, <3>2
    <2>6. f = e + 2 /\ e \in Int
      BY <1>1
    <2> HIDE DEF x, y, e, f
    <2>7. (y.end = f <=> x.end = e) /\ (y.end = f - 1 <=> x.end = e - 1)
      BY <2>3, <2>4, <2>6
    <2>8. y.vague <=> x.vague
      BY <2>3
    <2>9. QuantitySpan(q, 3, f) <=> QuantitySpan(p, 1, e)
      BY <1>2, <1>4, <2>5, <2>7, <2>8, Zenon DEF QuantitySpan, x, y
    <2>10. /\ QuantitySpan(p, 1, e) => S # {} /\ En!One(S).qty = x.value
           /\ ~ QuantitySpan(p, 1, e) => S = {}
      BY QuantityReading DEF x, e
    <2>11. /\ QuantitySpan(q, 3, f) => R # {} /\ En!One(R).qty = y.value
           /\ ~ QuantitySpan(q, 3, f) => R = {}
      BY QuantityReading DEF y, f
    <2> HIDE DEF S, R
    <2>12. (S = {} <=> R = {}) /\ (S # {} => En!One(R).qty = En!One(S).qty)
      BY <2>3, <2>9, <2>10, <2>11
    <2> QED BY <2>12 DEF S, R
  <1> QED BY <1>3, <1>4

\* A quantity has no word a location begins with, but for its unit.
LEMMA QuantityNoLocation ==
    ASSUME NEW p, NEW q, Repeats(p, q), En!qtyFromSpan(p, 1, p.n + 1) # {}
    PROVE  \A i \in 1 .. (p.n - 1) : p.w[i] \notin Starts
  <1> DEFINE x == FirstFrom(p, 1)
  <1>1. QuantitySpan(p, 1, p.n + 1)
    BY QuantityReading
  <1>2. NumbersFrom(p, 1) # {} /\ (x.end = p.n + 1 \/ x.end = (p.n + 1) - 1)
    BY <1>1 DEF QuantitySpan
  <1>3. \A i \in 1 .. (x.end - 1) : p.w[i] \notin Starts
    BY <1>2, FirstFits
  <1>4. p.n \in Nat
    BY ClausesFollow
  <1> HIDE DEF x
  <1> QED BY <1>2, <1>3, <1>4

LEMMA NoAtTwo ==
    ASSUME NEW p, NEW q, Repeats(p, q)
    PROVE  En!MatchAt(En!T.negationSet, q.w, 2) = 1
  <1>1. q.w \in Words /\ Len(q.w) = q.n /\ 2 \in 1 .. Len(q.w) /\ q.w[2] = "no"
    BY ClausesFollow DEF Repeats, ParseFits
  <1>2. <<"no">> \in En!T.negationSet /\ "no" \notin WordsOf(En!T.negationSet \ {<<"no">>})
    BY EnglishWords
  <1>3. En!T.negationSet \in SUBSET (Words \ {<<>>})
    BY EnglishTables
  <1> DEFINE phrases == En!T.negationSet
  <1> HIDE DEF phrases
  <1>4. In("en")!MatchAt(phrases, q.w, 2) = 1
    BY <1>1, <1>2, <1>3, MatchedAlone DEF phrases
  <1> QED BY <1>4, OfEnglish DEF phrases

\* A correction takes nothing where a location has every word after the marker.
LEMMA NoneTaken ==
    ASSUME NEW p, NEW q, Repeats(p, q), NEW used, LocationTakes(q, used), 3 .. q.n \subseteq used
    PROVE  En!applyNegations(q, used) = En!NoOverride
  <1> DEFINE o == En!NoOverride
  <1>1. ParseFits(q) /\ q.n \in Nat /\ q.w \in Words /\ Len(q.w) = q.n
    BY ClausesFollow DEF Repeats, ParseFits
  <1>2. PICK up \in [Nat -> Overrides(q, used)] :
              /\ En!applyNegations(q, used) = up[q.n]
              /\ \A i \in Nat : up[i] = IF i < 2 THEN o ELSE En!Negation(q, used, up[i - 1], i)
    BY <1>1, CorrectionsRecur
  <1> HIDE DEF o
  <1>3. ASSUME NEW i \in Nat, i >= 2, i <= q.n
        PROVE  En!Negation(q, used, o, i) = o
    <2> DEFINE n == En!MatchAt(En!T.negationSet, q.w, i)
               from == i + n
               to == En!CorrectionEnd(q, i, from)
               taken == used \cup o.used
    <2>1. n \in Nat
      <3>1. En!T.negationSet \in SUBSET (Words \ {<<>>})
        BY EnglishTables
      <3> QED BY <1>1, <3>1, EnglishMatched
    <2> HIDE DEF n
    <2>2. ASSUME n > 0, from < to
          PROVE  from \in used
      <3>1. from \in Nat /\ i \in 1 .. q.n
        BY <1>1, <1>3, <2>1
      <3>2. to \in 1 .. (q.n + 1)
        BY <1>1, <2>2, <3>1, CorrectionEnds
      <3> HIDE DEF to
      <3>3. from \in 3 .. q.n
        BY <1>1, <1>3, <2>1, <2>2, <3>2
      <3> QED BY <3>3
    <2>3. ASSUME n > 0, from < to
          PROVE  ({i} \cup En!Span(from, to)) \cap taken # {}
      <3>1. from \in En!Span(from, to)
        <4>1. from \in Nat /\ to \in Int
          <5>1. from \in Nat /\ i \in 1 .. q.n
            BY <1>1, <1>3, <2>1
          <5>2. to \in 1 .. (q.n + 1)
            BY <1>1, <2>3, <5>1, CorrectionEnds
          <5> HIDE DEF to, from
          <5> QED BY <5>1, <5>2
        <4> HIDE DEF from, to
        <4> QED BY <2>3, <4>1 DEF En!Span
      <3>2. from \in taken
        BY <2>2, <2>3
      <3> HIDE DEF from, to, taken
      <3> QED BY <3>1, <3>2
    <2>4. En!Negation(q, used, o, i) = En!CorrectionAt(q, taken, o, i, n)
      BY DEF En!Negation, n
    <2> HIDE DEF taken
    <2>5. En!CorrectionAt(q, taken, o, i, n) = o
      <3>1. ~ (n > 0 /\ from < to /\ ({i} \cup En!Span(from, to)) \cap taken = {})
        BY <2>3
      <3> QED BY <3>1, Zenon DEF En!CorrectionAt
    <2> QED BY <2>4, <2>5
  <1> DEFINE S == {i \in Nat : i <= q.n => up[i] = o}
  <1>4. 0 \in S
    <2>1. 0 \in Nat /\ 0 < 2
      OBVIOUS
    <2>2. up[0] = o
      BY <1>2, <2>1
    <2> QED BY <2>1, <2>2
  <1>5. ASSUME NEW i \in Nat, i \in S
        PROVE  i + 1 \in S
    <2>1. CASE i + 1 < 2
      <3>1. i + 1 \in Nat /\ up[i + 1] = o
        BY <1>2, <2>1
      <3> QED BY <3>1
    <2>2. CASE ~ (i + 1 < 2) /\ i + 1 <= q.n
      <3>1. i + 1 \in Nat /\ i + 1 >= 2 /\ (i + 1) - 1 = i /\ i <= q.n
        BY <1>1, <2>2
      <3>2. up[i + 1] = En!Negation(q, used, up[i], i + 1) /\ up[i] = o
        BY <1>2, <1>5, <2>2, <3>1
      <3>3. up[i + 1] = o
        BY <1>3, <2>2, <3>1, <3>2
      <3> QED BY <3>1, <3>3
    <2>3. CASE ~ (i + 1 <= q.n)
      BY <2>3
    <2> QED BY <2>1, <2>2, <2>3
  <1>6. \A i \in Nat : i \in S
    <2> HIDE DEF S
    <2> QED BY <1>4, <1>5, Inductive
  <1>7. up[q.n] = o
    BY <1>1, <1>6
  <1> QED BY <1>2, <1>7 DEF o

\* "no" and the words after it are a correction, the only one, when no location
\* has a word of them.
LEMMA AllTaken ==
    ASSUME NEW p, NEW q, Repeats(p, q),
           \/ En!locationFromSpan(q, {}, 3, q.n + 1) # <<>>
           \/ En!qtyFromSpan(q, 3, q.n + 1) # {}
    PROVE  En!applyNegations(q, {}) =
              En!Replace(En!NoOverride, En!locationFromSpan(q, {}, 3, q.n + 1),
                         En!qtyFromSpan(q, 3, q.n + 1), En!Span(2, q.n + 1))
  <1> DEFINE o == En!NoOverride
             loc == En!locationFromSpan(q, {}, 3, q.n + 1)
             qty == En!qtyFromSpan(q, 3, q.n + 1)
             span == En!Span(2, q.n + 1)
             r == En!Replace(o, loc, qty, span)
  <1>1. ParseFits(q) /\ q.n \in Nat /\ q.n >= 3 /\ q.w \in Words /\ Len(q.w) = q.n
    BY ClausesFollow DEF Repeats, ParseFits
  <1>2. LocationTakes(q, {})
    BY DEF LocationTakes
  <1>3. PICK up \in [Nat -> Overrides(q, {})] :
              /\ En!applyNegations(q, {}) = up[q.n]
              /\ \A i \in Nat : up[i] = IF i < 2 THEN o ELSE En!Negation(q, {}, up[i - 1], i)
    BY <1>1, <1>2, CorrectionsRecur
  <1>4. o.used = {} /\ o.loc = <<>> /\ o.qty = {}
    BY DEF En!NoOverride
  <1> HIDE DEF o
  <1>5. up[2] = r
    <2>1. up[1] = o /\ up[2] = En!Negation(q, {}, up[1], 2)
      <3>1. 1 \in Nat /\ 2 \in Nat /\ 1 < 2 /\ ~ (2 < 2) /\ 2 - 1 = 1
        OBVIOUS
      <3> QED BY <1>3, <3>1
    <2>2. En!Negation(q, {}, o, 2) = En!CorrectionAt(q, {}, o, 2, 1)
      <3>1. {} \cup o.used = {}
        BY <1>4
      <3> QED BY <3>1, NoAtTwo DEF En!Negation
    <2>3. En!CorrectionEnd(q, 2, 3) = q.n + 1
      <3>1. 2 \in 2 .. q.n /\ 3 < q.n + 1
        BY <1>1
      <3>2. En!clauseEnd(q, 2) = q.n + 1
        BY <3>1, ClausesFollow
      <3> QED BY <3>1, <3>2 DEF En!CorrectionEnd
    <2>4. En!CorrectionAt(q, {}, o, 2, 1) = r
      <3>1. 1 > 0 /\ 2 + 1 = 3 /\ 3 < q.n + 1 /\ ({2} \cup En!Span(3, q.n + 1)) \cap {} = {}
        BY <1>1
      <3> QED BY <2>3, <3>1 DEF En!CorrectionAt, En!CorrectedBy
    <2> QED BY <2>1, <2>2, <2>4
  <1>6. r.used = span
    <2>1. r = En!Override(o, loc, {}, span) \/ r = En!Override(o, <<>>, qty, span)
      BY DEF En!Replace
    <2> HIDE DEF r, loc, qty, span
    <2>2. \A l, v : En!Override(o, l, v, span).used = o.used \cup span
      BY DEF En!Override
    <2> QED BY <1>4, <2>1, <2>2
  <1> HIDE DEF r
  <1>7. ASSUME NEW i \in Nat, i >= 2, i <= q.n
        PROVE  En!Negation(q, {}, r, i) = r
    <2> DEFINE n == En!MatchAt(En!T.negationSet, q.w, i)
               from == i + n
               to == En!CorrectionEnd(q, i, from)
               taken == {} \cup r.used
    <2>1. i \in taken
      BY <1>1, <1>6, <1>7 DEF En!Span
    <2>2. En!Negation(q, {}, r, i) = En!CorrectionAt(q, taken, r, i, n)
      BY DEF En!Negation
    <2> HIDE DEF n, taken
    <2>3. ~ (n > 0 /\ from < to /\ ({i} \cup En!Span(from, to)) \cap taken = {})
      <3> HIDE DEF from, to
      <3> QED BY <2>1
    <2>4. En!CorrectionAt(q, taken, r, i, n) = r
      BY <2>3, Zenon DEF En!CorrectionAt
    <2> QED BY <2>2, <2>4
  <1> DEFINE S == {i \in Nat : 2 <= i /\ i <= q.n => up[i] = r}
  <1>8. 0 \in S
    OBVIOUS
  <1>9. ASSUME NEW i \in Nat, i \in S
        PROVE  i + 1 \in S
    <2>1. CASE 2 <= i + 1 /\ i + 1 <= q.n
      <3>1. i + 1 \in Nat /\ (i + 1) - 1 = i /\ ~ (i + 1 < 2) /\ i <= q.n
        BY <1>1, <2>1
      <3>2. CASE i + 1 = 2
        BY <1>5, <3>2
      <3>3. CASE i + 1 # 2
        <4>1. 2 <= i
          BY <2>1, <3>3
        <4>2. up[i] = r /\ up[i + 1] = En!Negation(q, {}, up[i], i + 1)
          BY <1>3, <1>9, <3>1, <4>1
        <4>3. up[i + 1] = r
          BY <1>7, <2>1, <3>1, <4>2
        <4> QED BY <3>1, <4>3
      <3> QED BY <3>2, <3>3
    <2>2. CASE ~ (2 <= i + 1 /\ i + 1 <= q.n)
      BY <2>2
    <2> QED BY <2>1, <2>2
  <1>10. \A i \in Nat : i \in S
    <2> HIDE DEF S
    <2> QED BY <1>8, <1>9, Inductive
  <1>11. up[q.n] = r
    BY <1>1, <1>10
  <1> QED BY <1>3, <1>11 DEF r, o

LEMMA SpanOfMore ==
    ASSUME NEW X, NEW x \in X, NEW s \in Seq(X)
    PROVE  /\ En!Span(x.start, x.end) \subseteq En!SpanOf(<<x>> \o s)
           /\ En!SpanOf(s) \subseteq En!SpanOf(<<x>> \o s)
  <1> DEFINE t == <<x>> \o s
             at(k) == En!Span(t[k].start, t[k].end)
  <1>1. /\ DOMAIN s = 1 .. Len(s) /\ Len(s) \in Nat /\ DOMAIN t = 1 .. (Len(s) + 1) /\ t[1] = x
        /\ \A k \in 1 .. Len(s) : t[k + 1] = s[k]
    OBVIOUS
  <1> HIDE DEF t
  <1>2. \A k \in DOMAIN t : at(k) \subseteq En!SpanOf(t)
    BY DEF En!SpanOf
  <1>3. 1 \in DOMAIN t /\ at(1) = En!Span(x.start, x.end)
    BY <1>1
  <1>4. ASSUME NEW j \in En!SpanOf(s)
        PROVE  j \in En!SpanOf(t)
    <2>1. PICK k \in DOMAIN s : j \in En!Span(s[k].start, s[k].end)
      BY DEF En!SpanOf
    <2>2. k + 1 \in DOMAIN t /\ t[k + 1] = s[k]
      BY <1>1
    <2>3. j \in at(k + 1)
      BY <2>1, <2>2
    <2> QED BY <1>2, <2>2, <2>3
  <1> QED BY <1>2, <1>3, <1>4 DEF t

\* The location of the words said again, when they are segments to their end.
LEMMA CoveredGroup ==
    ASSUME NEW p, NEW q, Repeats(p, q), En!Cover(q, {}, 3, q.n + 1) # <<>>
    PROVE  /\ En!extractLocation(q) = En!Cover(q, {}, 3, q.n + 1)
           /\ 3 .. q.n \subseteq En!SpanOf(En!extractLocation(q))
  <1> DEFINE n == q.n
             b == q.n + 1
             at == {i \in 1 .. q.n : En!segAt(q, {}, i) # {}}
             X == CoversOf(q, {})
  <1>1. ParseFits(q) /\ n \in Nat /\ n >= 3 /\ b = n + 1 /\ b \in Nat /\ b <= q.n + 1 /\ q.n = n
        /\ \A i, k \in 2 .. q.n : q.clause[i] = q.clause[k]
    BY ClausesFollow DEF Repeats
  <1>2. PICK cover : CoverFrom(q, {}, 3, b, cover)
    BY <1>1, CoverRecurs
  <1>3. PICK segs \in [Nat -> Seq({SegmentAt(q, j) : j \in Nat})] :
              /\ En!Segments(q, 3) = segs[3]
              /\ \A j \in Nat : segs[j] = IF StopsAt(q, 3, j) THEN <<>>
                                          ELSE <<SegmentAt(q, j)>> \o segs[SegmentAt(q, j).end]
    <2>1. 3 \in 1 .. q.n
      BY <1>1
    <2> HIDE DEF b, at, X, n
    <2> QED BY <1>1, <2>1, SegmentsRecur
  <1> HIDE DEF n, b, X
  <1>4. /\ cover \in [Nat -> Seq(X)] /\ En!Cover(q, {}, 3, b) = cover[3]
        /\ \A j \in Nat : cover[j] = CoverOn(q, {}, j, b, cover[CoverAt(q, {}, j).end])
    BY <1>2 DEF CoverFrom, X
  <1>5. \A j : SegmentAt(q, j) = CoverAt(q, {}, j)
    BY DEF SegmentAt, CoverAt
  <1> DEFINE W == {j \in Nat : j >= 3 /\ cover[j] # <<>> =>
                      segs[j] = cover[j] /\ j .. n \subseteq En!SpanOf(cover[j])}
             f == [j \in Nat |-> j]
  <1>6. \A j \in Nat : f[j] \in W <=>
            (j >= 3 /\ cover[j] # <<>> => segs[j] = cover[j] /\ j .. n \subseteq En!SpanOf(cover[j]))
    OBVIOUS
  <1> HIDE DEF f, W
  <1>7. ASSUME NEW j \in Nat, j > n
        PROVE  f[j] \in W
    <2>1. CoverStops(q, {}, j, b)
      BY <1>1, <1>7 DEF CoverStops
    <2>2. cover[j] = <<>>
      BY <1>4, <2>1 DEF CoverOn
    <2> QED BY <1>6, <2>2
  <1>8. ASSUME NEW j \in 1 .. n, \A k \in Nat : k > j => f[k] \in W
        PROVE  f[j] \in W
    <2> SUFFICES ASSUME j >= 3, cover[j] # <<>>
                 PROVE  segs[j] = cover[j] /\ j .. n \subseteq En!SpanOf(cover[j])
      BY <1>1, <1>6
    <2> DEFINE x == CoverAt(q, {}, j)
               rest == cover[x.end]
    <2>1. j \in Nat /\ j <= q.n /\ ~ (j > q.n) /\ j \in 2 .. q.n /\ 3 \in 2 .. q.n
      BY <1>1
    <2>2. cover[j] = CoverOn(q, {}, j, b, rest)
      BY <1>4, <2>1
    <2>3. ~ CoverStops(q, {}, j, b)
      BY <2>2 DEF CoverOn
    <2>4. SegmentFits(q, x, j) /\ x.end \in Nat /\ x.end > j /\ x.end <= b
      BY <1>1, <2>1, <2>3, CoverIsNext
    <2>5. ~ StopsAt(q, 3, j)
      <3>1. En!segAt(q, {}, j) # {}
        BY <2>3 DEF CoverStops
      <3>2. q.clause[j] = q.clause[3]
        BY <1>1, <2>1
      <3> QED BY <2>1, <3>1, <3>2 DEF StopsAt
    <2>6. segs[j] = <<x>> \o segs[x.end]
      BY <1>3, <1>5, <2>1, <2>5
    <2>7. x \in X
      BY <2>1 DEF CoversOf, X
    <2>8. En!Span(x.start, x.end) = j .. (x.end - 1)
      BY <2>4 DEF SegmentFits, En!Span
    <2>9. /\ x.end = b => cover[j] = <<x>>
          /\ x.end # b => rest # <<>> /\ cover[j] = <<x>> \o rest
      BY <2>2, <2>3 DEF CoverOn
    <2> HIDE DEF x
    <2>10. CASE x.end = b
      <3>1. segs[x.end] = <<>>
        <4>1. StopsAt(q, 3, b)
          BY <1>1 DEF StopsAt
        <4> QED BY <1>1, <1>3, <2>10, <4>1
      <3>2. <<>> \in Seq(X) /\ <<x>> \o <<>> = <<x>>
        BY <2>7
      <3>3. segs[j] = cover[j]
        BY <2>6, <2>9, <2>10, <3>1, <3>2
      <3>4. j .. n \subseteq En!SpanOf(<<x>> \o <<>>)
        <4>1. En!Span(x.start, x.end) \subseteq En!SpanOf(<<x>> \o <<>>)
          BY <2>7, <3>2, SpanOfMore
        <4>2. x.end - 1 = n
          BY <1>1, <2>10
        <4> QED BY <2>8, <4>1, <4>2
      <3>5. <<x>> \o <<>> = cover[j]
        BY <2>9, <2>10, <3>2, Zenon
      <3> QED BY <3>3, <3>4, <3>5
    <2>11. CASE x.end # b
      <3>1. rest # <<>> /\ cover[j] = <<x>> \o rest /\ rest \in Seq(X)
        BY <1>4, <2>4, <2>9, <2>11
      <3>2. segs[x.end] = rest /\ x.end .. n \subseteq En!SpanOf(rest)
        <4>1. f[x.end] \in W /\ x.end >= 3
          BY <1>8, <2>1, <2>4
        <4> QED BY <1>6, <2>4, <3>1, <4>1
      <3> HIDE DEF rest
      <3>3. segs[j] = cover[j]
        BY <2>6, <3>1, <3>2
      <3>4. En!Span(x.start, x.end) \subseteq En!SpanOf(<<x>> \o rest) /\ En!SpanOf(rest) \subseteq En!SpanOf(<<x>> \o rest)
        BY <2>7, <3>1, SpanOfMore
      <3>5. \A k \in j .. n : k \in j .. (x.end - 1) \/ k \in x.end .. n
        BY <1>1, <2>1, <2>4
      <3>6. j .. n \subseteq En!SpanOf(<<x>> \o rest)
        BY <2>8, <3>2, <3>4, <3>5, Zenon
      <3> QED BY <3>1, <3>3, <3>6
    <2> QED BY <2>10, <2>11
  <1>9. \A j \in Nat \ {0} : f[j] \in W
    BY <1>1, <1>7, <1>8, Downward
  <1>10. segs[3] = cover[3] /\ 3 .. n \subseteq En!SpanOf(cover[3])
    <2>1. 3 \in Nat \ {0} /\ 3 \in Nat /\ 3 >= 3 /\ cover[3] # <<>>
      BY <1>4 DEF b
    <2> QED BY <1>6, <1>9, <2>1
  <1>11. 3 \in at /\ \A i \in at : 3 <= i
    <2>1. 3 \in at
      <3>1. cover[3] # <<>> /\ 3 \in Nat
        BY <1>4 DEF b
      <3>2. ~ CoverStops(q, {}, 3, b)
        BY <1>4, <3>1 DEF CoverOn
      <3>3. En!segAt(q, {}, 3) # {} /\ 3 \in 1 .. q.n
        BY <1>1, <3>2 DEF CoverStops
      <3> QED BY <3>3
    <2>2. ASSUME NEW i \in at, ~ (3 <= i)
          PROVE  FALSE
      <3>1. i \in 0 .. q.n /\ (i = 1 \/ i = 2)
        BY <1>1, <2>2
      <3>2. PICK s \in En!segAt(q, {}, i) : TRUE
        BY <2>2
      <3>3. q.w[i] \in Starts
        BY <1>1, <3>1, <3>2, SegFits DEF SegmentFits
      <3>4. q.w[i] = "nails" \/ q.w[i] = "no"
        BY <3>1 DEF Repeats
      <3> QED BY <3>3, <3>4, EnglishWords
    <2>3. \A i \in at : 3 <= i
      BY <2>2, Zenon
    <2> QED BY <2>1, <2>3
  <1>12. En!extractLocation(q) = En!Segments(q, 3)
    <2>1. En!extractLocation(q) = IF at = {} THEN <<>> ELSE En!Segments(q, En!MinOf(at))
      BY DEF En!extractLocation
    <2>2. at \in SUBSET Nat
      OBVIOUS
    <2> HIDE DEF at
    <2>3. at # {} /\ En!MinOf(at) \in at /\ En!MinOf(at) \in Nat /\ \A y \in at : En!MinOf(at) <= y
      BY <1>11, <2>2, MinIn
    <2>4. En!MinOf(at) = 3
      BY <1>11, <2>3
    <2> QED BY <2>1, <2>3, <2>4
  <1> QED BY <1>3, <1>4, <1>10, <1>12 DEF b, n

LEMMA LastSegment ==
    ASSUME NEW p, NEW q, Repeats(p, q)
    PROVE  En!segAt(q, {}, q.n) = {}
  <1> DEFINE n == q.n
             j == En!AfterArticles(q, n)
             noun == En!segFromNoun(q, {}, j, n)
             code == IF q.w[j] \in En!Codes /\ j \notin {}
                     THEN {[start |-> n, end |-> j + 1, val |-> j, anchor |-> ""]} ELSE {}
             same == q.clause[j] = q.clause[n]
             here == En!segFromNoun(q, {}, n, n)
  <1>1. ParseFits(q) /\ q.n \in Nat /\ q.n >= 3 /\ q.n \in 0 .. q.n /\ q.n \in 2 .. q.n
    BY ClausesFollow DEF Repeats
  <1>2. j > n
    <2>1. En!AfterArticles(q, q.n) \in (q.n + 1) .. (q.n + 1)
      BY <1>1, PastArticles
    <2> QED BY <1>1, <2>1
  <1>3. here = {}
    <2>1. En!clauseEnd(q, q.n) = q.n + 1
      BY <1>1, ClausesFollow
    <2>2. q.n + 1 >= En!clauseEnd(q, q.n)
      BY <1>1, <2>1
    <2> QED BY <2>2 DEF En!segFromNoun
  <1>4. En!segAt(q, {}, n) =
           IF q.w[n] \in En!T.LocationPreps
           THEN CASE j > n \/ (j <= n /\ ~ same) -> {}
                  [] j <= n /\ same /\ q.w[j] \in En!T.LocationNouns -> noun
                  [] OTHER -> code
           ELSE IF q.w[n] \in En!T.LocationNouns THEN here ELSE {}
    BY Zenon DEF En!segAt
  <1>5. j \in Nat /\ n \in Nat
    BY <1>1, PastArticles
  <1> HIDE DEF j, noun, code, same, here, n
  <1>6. ~ (j <= n)
    BY <1>2, <1>5
  <1> QED BY <1>2, <1>3, <1>4, <1>6 DEF n

LEMMA EmptyGroup ==
    ASSUME NEW q
    PROVE  En!renderLocation(q, <<>>) = <<>> /\ En!SpanOf(<<>>) = {}
  BY DEF En!renderLocation, En!SpanOf

\* Where no word but the last begins a location, there is none.
LEMMA NoGroup ==
    ASSUME NEW p, NEW q, Repeats(p, q), \A i \in 3 .. (q.n - 1) : q.w[i] \notin Starts
    PROVE  En!extractLocation(q) = <<>>
  <1> DEFINE at == {i \in 1 .. q.n : En!segAt(q, {}, i) # {}}
  <1>1. ParseFits(q) /\ q.n \in Nat /\ q.n >= 3 /\ q.w[1] = "nails" /\ q.w[2] = "no"
    BY ClausesFollow DEF Repeats
  <1>2. ASSUME NEW i \in at
        PROVE  FALSE
    <2>1. i \in 0 .. q.n /\ (i = 1 \/ i = 2 \/ i \in 3 .. (q.n - 1) \/ i = q.n)
      BY <1>1
    <2>2. PICK s \in En!segAt(q, {}, i) : TRUE
      OBVIOUS
    <2>3. q.w[i] \in Starts
      BY <1>1, <2>1, <2>2, SegFits DEF SegmentFits
    <2>4. i # q.n
      BY LastSegment
    <2>5. "nails" \notin Starts /\ "no" \notin Starts
      BY EnglishWords
    <2> QED BY <1>1, <2>1, <2>3, <2>4, <2>5
  <1>3. at = {}
    BY <1>2
  <1> QED BY <1>3 DEF En!extractLocation

\* A correction with no word of a location before it.
LEMMA CorrectedAlone ==
    ASSUME NEW p, NEW q, Repeats(p, q), En!extractLocation(q) = <<>>,
           NEW loc, loc = En!locationFromSpan(q, {}, 3, q.n + 1),
           NEW qty, qty = En!qtyFromSpan(q, 3, q.n + 1)
    PROVE  /\ loc # <<>> => En!Parsed(q).location = loc
           /\ loc = <<>> /\ qty # {} => En!Parsed(q).quantity = En!One(qty).qty
  <1> DEFINE group == En!extractLocation(q)
             ov == En!applyNegations(q, En!SpanOf(group))
             o == En!NoOverride
             span == En!Span(2, q.n + 1)
             r == En!Parsed(q)
  <1>1. ASSUME loc # <<>> \/ qty # {}
        PROVE  ov = En!Replace(o, loc, qty, span)
    <2>1. En!SpanOf(group) = {}
      BY EmptyGroup
    <2> QED BY <1>1, <2>1, AllTaken
  <1>2. ov.loc # <<>> => r.location = ov.loc
    BY SlotsOf
  <1>3. ov.qty # {} => r.quantity = En!One(ov.qty).qty
    BY SlotsOf
  <1> HIDE DEF ov, o, span, r
  <1>4. ASSUME loc # <<>>
        PROVE  r.location = loc
    <2>1. ov.loc = loc
      BY <1>1, <1>4 DEF En!Replace, En!Override
    <2> QED BY <1>2, <1>4, <2>1
  <1>5. ASSUME loc = <<>>, qty # {}
        PROVE  r.quantity = En!One(qty).qty
    <2>1. ov.qty = qty
      BY <1>1, <1>5 DEF En!Replace, En!Override
    <2> QED BY <1>3, <1>5, <2>1
  <1> QED BY <1>4, <1>5 DEF r

\* What is said again behind "no" is the location when it is one.
LEMMA LocationSaid ==
    ASSUME NEW p, NEW q, Repeats(p, q), En!locationFromSpan(p, {}, 1, p.n + 1) # <<>>
    PROVE  En!Parsed(q).location = En!locationFromSpan(p, {}, 1, p.n + 1)
  <1> DEFINE b == q.n + 1
             loc == En!locationFromSpan(q, {}, 3, b)
             cover == En!Cover(q, {}, 3, b)
             group == En!extractLocation(q)
             A == NumbersTo(q, 3, b)
  <1>1. /\ ParseFits(q) /\ q.n \in Nat /\ q.n >= 3 /\ b = q.n + 1
        /\ loc = En!locationFromSpan(p, {}, 1, p.n + 1) /\ loc # <<>>
    BY ClausesFollow, LocationFollows DEF Repeats
  <1>2. Reading(q, 3, b, loc, En!renderLocation(q, cover))
    <2>1. 3 \in Nat /\ b \in Nat /\ 3 < b
      BY <1>1
    <2> HIDE DEF b
    <2> QED BY <2>1, SpanReadings
  <1>3. ASSUME group = <<>>
        PROVE  En!Parsed(q).location = loc
    <2> DEFINE qty == En!qtyFromSpan(q, 3, q.n + 1)
    <2>1. loc = En!locationFromSpan(q, {}, 3, q.n + 1) /\ qty = En!qtyFromSpan(q, 3, q.n + 1)
      OBVIOUS
    <2> HIDE DEF loc, qty
    <2> QED BY <1>1, <1>3, <2>1, CorrectedAlone
  <1> HIDE DEF b, loc, cover
  <1>4. CASE CodeSpan(q, 3, b)
    <2>1. b - 3 = 1
      BY <1>4 DEF CodeSpan
    <2>2. \A i \in 3 .. (q.n - 1) : q.w[i] \notin Starts
      BY <1>1, <2>1
    <2> QED BY <1>1, <1>3, <2>2, NoGroup
  <1>5. CASE LetterSpan(q, 3, b)
    <2>1. q.w[3] \in En!Letters /\ A # {}
      BY <1>5 DEF LetterSpan
    <2>2. PICK x \in En!intNumSpanAt(q, 3 + 1) : x.end = b
      BY <2>1 DEF NumbersTo
    <2>3. PICK k \in DOMAIN q.nums : x = q.nums[k] /\ Whole(q.nums[k], 3 + 1)
      BY <2>2, WholeNumbers
    <2>4. NumberAt("en", q.w, x.start, x) /\ x.start = 4
      <3>1. NumberAt("en", q.w, q.nums[k].start, q.nums[k])
        BY <1>1, NumberOfParse
      <3>2. q.nums[k].start = 3 + 1
        BY <2>3 DEF Whole
      <3> QED BY <2>3, <3>1, <3>2
    <2>5. \A i \in 4 .. (b - 1) : q.w[i] \in NumberWords(En!T)
      BY <2>2, <2>4, EnglishTables DEF NumberAt
    <2>6. ASSUME NEW i \in 3 .. (q.n - 1)
          PROVE  q.w[i] \notin Starts
      <3>1. CASE i = 3
        BY <2>1, <3>1, EnglishWords
      <3>2. CASE i # 3
        <4>1. i \in 4 .. (b - 1)
          BY <1>1, <3>2
        <4> QED BY <2>5, <4>1, EnglishWords
      <3> QED BY <3>1, <3>2
    <2> QED BY <1>1, <1>3, <2>6, NoGroup
  <1>6. CASE ~ CodeSpan(q, 3, b) /\ ~ LetterSpan(q, 3, b)
    <2>1. loc = En!renderLocation(q, cover)
      BY <1>2, <1>6 DEF Reading
    <2>2. cover # <<>>
      BY <1>1, <2>1, EmptyGroup
    <2>3. En!Cover(q, {}, 3, q.n + 1) # <<>>
      BY <2>2 DEF cover, b
    <2>4. group = En!Cover(q, {}, 3, q.n + 1) /\ 3 .. q.n \subseteq En!SpanOf(group)
      BY <2>3, CoveredGroup
    <2>5. group = cover
      BY <2>4 DEF cover, b
    <2> DEFINE used == En!SpanOf(group)
               ov == En!applyNegations(q, used)
               r == En!Parsed(q)
    <2>6. ov = En!NoOverride
      <3>1. LocationTakes(q, used)
        BY <1>1, LocationSpan
      <3> HIDE DEF used, group
      <3>2. 3 .. q.n \subseteq used
        BY <2>4 DEF used
      <3> QED BY <3>1, <3>2, NoneTaken
    <2>7. r.location = IF ov.loc # <<>> THEN ov.loc ELSE En!renderLocation(q, group)
      BY SlotsOf
    <2>8. ov.loc = <<>>
      BY <2>6 DEF En!NoOverride
    <2> HIDE DEF ov, r, group
    <2>9. r.location = loc
      BY <2>1, <2>5, <2>7, <2>8
    <2> QED BY <1>1, <2>9 DEF r
  <1> QED BY <1>1, <1>4, <1>5, <1>6, <1>3

\* What is said again behind "no" is the quantity when it is no location.
LEMMA QuantitySaid ==
    ASSUME NEW p, NEW q, Repeats(p, q), En!locationFromSpan(p, {}, 1, p.n + 1) = <<>>,
           NEW S, S = En!qtyFromSpan(p, 1, p.n + 1), S # {}
    PROVE  En!Parsed(q).quantity = En!One(S).qty
  <1> DEFINE loc == En!locationFromSpan(q, {}, 3, q.n + 1)
             R == En!qtyFromSpan(q, 3, q.n + 1)
  <1>1. q.n \in Nat /\ p.n \in Nat /\ q.n = p.n + 2 /\ \A i \in 1 .. p.n : q.w[i + 2] = p.w[i]
    BY ClausesFollow DEF Repeats
  <1>2. \A i \in 1 .. (p.n - 1) : p.w[i] \notin Starts
    BY QuantityNoLocation
  <1>3. \A i \in 3 .. (q.n - 1) : q.w[i] \notin Starts
    <2> SUFFICES ASSUME NEW i \in 3 .. (q.n - 1)
                 PROVE  q.w[i] \notin Starts
      OBVIOUS
    <2>1. i - 2 \in 1 .. (p.n - 1) /\ i - 2 \in 1 .. p.n /\ (i - 2) + 2 = i
      BY <1>1
    <2>2. q.w[(i - 2) + 2] = p.w[i - 2]
      BY <1>1, <2>1
    <2> QED BY <1>2, <2>1, <2>2
  <1>4. En!extractLocation(q) = <<>>
    BY <1>3, NoGroup
  <1>5. loc = <<>>
    BY LocationFollows
  <1>6. (S = {} <=> R = {}) /\ (S # {} => En!One(R).qty = En!One(S).qty)
    BY QuantityFollows
  <1>7. loc = En!locationFromSpan(q, {}, 3, q.n + 1) /\ R = En!qtyFromSpan(q, 3, q.n + 1)
    OBVIOUS
  <1> HIDE DEF loc, R
  <1>8. loc = <<>> /\ R # {} => En!Parsed(q).quantity = En!One(R).qty
    BY <1>4, <1>7, CorrectedAlone
  <1> QED BY <1>5, <1>6, <1>8

\* One clause, ended by its last word alone.
OneUtterance(S) ==
    /\ S \in Tokens /\ S # <<>> /\ S[Len(S)].end
    /\ \A k \in DOMAIN S : S[k].end => k = Len(S)

LEMMA SaidAgain ==
    ASSUME NEW S, OneUtterance(S)
    PROVE  Repeats(En!newParse(S), En!newParse(<<[w |-> "nails", end |-> TRUE], Tok("no")>> \o S))
  <1> DEFINE Token == [w : STRING, end : BOOLEAN]
             nails == [w |-> "nails", end |-> TRUE]
             no == Tok("no")
             head == <<nails, no>>
             toks == head \o S
             p == En!newParse(S)
             q == En!newParse(toks)
             n == Len(S)
  <1>1. nails \in Token /\ nails.w = "nails" /\ nails.end /\ no \in Token /\ no.w = "no" /\ ~ no.end
    BY EnglishAssumption DEF Tok
  <1>2. toks = <<[w |-> "nails", end |-> TRUE], Tok("no")>> \o S
    OBVIOUS
  <1> HIDE DEF nails, no, Token
  <1>3. head \in Seq(Token) /\ Len(head) = 2 /\ head[1] = nails /\ head[2] = no
    BY <1>1
  <1> HIDE DEF head
  <1>4. S \in Seq(Token) /\ S \in Tokens /\ n \in Nat \ {0} /\ DOMAIN S = 1 .. n
    <2>1. S \in Seq(Token) /\ S \in Tokens /\ S # <<>>
      BY DEF OneUtterance, Tokens, Token
    <2> QED BY <2>1, EmptySeq
  <1> HIDE DEF n
  <1>5. /\ toks \in Tokens /\ Len(toks) = n + 2 /\ toks[1] = nails /\ toks[2] = no
        /\ \A k \in 1 .. n : toks[k + 2] = S[k]
    <2>1. /\ head \o S \in Seq(Token) /\ Len(head \o S) = Len(head) + Len(S)
          /\ \A i \in 1 .. Len(head) : (head \o S)[i] = head[i]
          /\ \A k \in 1 .. Len(S) : (head \o S)[Len(head) + k] = S[k]
      <3>1. head \in Seq(Token) /\ S \in Seq(Token)
        BY <1>3, <1>4
      <3> QED BY <3>1, Joined
    <2>2. Len(S) = n
      BY DEF n
    <2> HIDE DEF toks
    <2>3. /\ toks \in Seq(Token) /\ Len(toks) = 2 + n /\ toks[1] = head[1] /\ toks[2] = head[2]
          /\ \A k \in 1 .. n : toks[2 + k] = S[k]
      <3>1. 1 \in 1 .. 2 /\ 2 \in 1 .. 2
        OBVIOUS
      <3> QED BY <1>3, <2>1, <2>2, <3>1 DEF toks
    <2>4. 2 + n = n + 2 /\ \A k \in 1 .. n : 2 + k = k + 2
      BY <1>4
    <2> QED BY <1>3, <2>3, <2>4 DEF Tokens, Token
  <1> HIDE DEF toks
  <1>6. /\ ParseFits(p) /\ p.n = n
        /\ \A i \in 1 .. p.n : p.w[i] = S[i].w /\ p.clause[i] = En!Clause(S, i)
    BY <1>4, ParseOf DEF n
  <1>7. /\ ParseFits(q) /\ q.n = Len(toks)
        /\ \A i \in 1 .. q.n : q.w[i] = toks[i].w /\ q.clause[i] = En!Clause(toks, i)
    BY <1>5, ParseOf
  <1> HIDE DEF p, q
  <1>8. p.n \in Nat /\ p.n >= 1 /\ q.n = p.n + 2 /\ p.n = n /\ q.n = n + 2
    BY <1>4, <1>5, <1>6, <1>7
  <1>9. \A k \in DOMAIN S : S[k].end => k = n
    BY DEF OneUtterance, n
  <1>10. q.w[1] = "nails" /\ q.w[2] = "no"
    <2>1. 1 \in 1 .. q.n /\ 2 \in 1 .. q.n
      BY <1>8
    <2> QED BY <1>1, <1>5, <1>7, <2>1
  <1>11. \A i \in 1 .. p.n : q.w[i + 2] = p.w[i]
    <2>1. \A i \in 1 .. p.n : i + 2 \in 1 .. q.n
      BY <1>8
    <2> QED BY <1>5, <1>6, <1>7, <1>8, <2>1
  <1>12. LaterAll(p.nums, q.nums)
    <2> DEFINE a == p.w
               b == q.w
    <2>1. Behind(a, b) /\ b[1] = "nails" /\ b[2] = "no"
      <3>1. a \in Words /\ b \in Words /\ Len(a) = p.n /\ Len(b) = q.n
        BY <1>6, <1>7 DEF ParseFits
      <3> QED BY <1>8, <1>10, <1>11, <3>1 DEF Behind
    <2>2. p.nums = In("en")!ScanNumbers(a) /\ q.nums = In("en")!ScanNumbers(b)
      BY <1>6, <1>7 DEF ParseFits
    <2> HIDE DEF a, b
    <2>3. "en" \in DOMAIN Packs /\ En!T = In("en")!T
      BY OfEnglish
    <2>4. b[2] \notin WordsOf(In("en")!T.approxSet) /\ b[1] \notin NumberWords(In("en")!T)
          /\ b[2] \notin NumberWords(In("en")!T)
      BY <2>1, <2>3, EnglishWords
    <2>5. LaterAll(In("en")!ScanNumbers(a), In("en")!ScanNumbers(b))
      BY <2>1, <2>3, <2>4, ScanBehind
    <2> QED BY <2>2, <2>5
  <1>13. ASSUME NEW i \in 1 .. p.n, NEW k \in 1 .. p.n, i <= k
         PROVE  p.clause[i] = p.clause[k]
    <2>1. \A j \in i .. (k - 1) : j \in DOMAIN S /\ j # n
      BY <1>4, <1>8, <1>13
    <2>2. \A j \in i .. (k - 1) : ~ S[j].end
      BY <1>9, <2>1
    <2>3. i \in Nat /\ k \in Nat /\ 1 <= i
      BY <1>8
    <2> QED BY <1>6, <1>13, <2>2, <2>3, SameClause
  <1>14. ASSUME NEW i \in 2 .. q.n, NEW k \in 2 .. q.n, i <= k
         PROVE  q.clause[i] = q.clause[k]
    <2>1. ASSUME NEW j \in i .. (k - 1)
          PROVE  ~ toks[j].end
      <3>1. CASE j = 2
        BY <1>1, <1>5, <3>1
      <3>2. CASE j # 2
        <4>1. j - 2 \in 1 .. n /\ j - 2 # n /\ (j - 2) + 2 = j
          BY <1>8, <3>2
        <4>2. toks[(j - 2) + 2] = S[j - 2] /\ ~ S[j - 2].end
          BY <1>4, <1>5, <1>9, <4>1
        <4> QED BY <4>1, <4>2
      <3> QED BY <3>1, <3>2
    <2>2. i \in Nat /\ k \in Nat /\ 1 <= i /\ i \in 1 .. q.n /\ k \in 1 .. q.n
      BY <1>8
    <2> QED BY <1>7, <1>14, <2>1, <2>2, SameClause
  <1>15. q.clause[1] # q.clause[2]
    <2>1. 1 \in 1 .. (2 - 1) /\ toks[1].end /\ 1 \in 1 .. q.n /\ 2 \in 1 .. q.n
      BY <1>1, <1>5, <1>8
    <2>2. En!Clause(toks, 1) # En!Clause(toks, 2)
      <3>1. 1 \in Nat /\ 2 \in Nat /\ 1 <= 1 /\ 1 <= 2
        OBVIOUS
      <3> QED BY <2>1, <3>1, SameClause
    <2> QED BY <1>7, <2>1, <2>2
  <1>16. \A i, k \in 1 .. p.n : p.clause[i] = p.clause[k]
    <2>1. \A i, k \in 1 .. p.n : i <= k \/ k <= i
      BY <1>8
    <2> QED BY <1>13, <2>1
  <1>17. \A i, k \in 2 .. q.n : q.clause[i] = q.clause[k]
    <2>1. \A i, k \in 2 .. q.n : i <= k \/ k <= i
      BY <1>8
    <2> QED BY <1>14, <2>1
  <1>18. Repeats(p, q)
    BY <1>6, <1>7, <1>8, <1>10, <1>11, <1>12, <1>15, <1>16, <1>17 DEF Repeats
  <1> QED BY <1>18 DEF p, q, toks, head, nails, no

\* A token that ends a clause ends it already.
LEMMA ClonedSame ==
    ASSUME NEW S, OneUtterance(S)
    PROVE  En!cloneAsUtterance(S) = S
  <1> DEFINE n == Len(S)
             last == [S[n] EXCEPT !.end = TRUE]
  <1>1. S \in Seq([w : STRING, end : BOOLEAN]) /\ S # <<>> /\ n \in Nat \ {0} /\ DOMAIN S = 1 .. n
    <2>1. S \in Seq([w : STRING, end : BOOLEAN]) /\ S # <<>>
      BY DEF OneUtterance, Tokens
    <2> QED BY <2>1, EmptySeq
  <1>2. En!cloneAsUtterance(S) = [S EXCEPT ![n] = last]
    BY <1>1 DEF En!cloneAsUtterance
  <1>3. last = S[n]
    <2>1. S[n] \in [w : STRING, end : BOOLEAN] /\ S[n].end
      <3> DEFINE Token == [w : STRING, end : BOOLEAN]
      <3>1. S[n].end
        BY DEF OneUtterance
      <3> HIDE DEF Token
      <3>2. S \in Seq(Token)
        BY <1>1 DEF Token
      <3>3. S[n] \in Token
        BY <1>1, <3>2
      <3> QED BY <3>1, <3>3 DEF Token
    <2>2. \A t \in [w : STRING, end : BOOLEAN] : t.end => t.end = TRUE
      OBVIOUS
    <2>3. \A t \in [w : STRING, end : BOOLEAN] : t.end = TRUE => [t EXCEPT !.end = TRUE] = t
      OBVIOUS
    <2> QED BY <2>1, <2>2, <2>3, Zenon
  <1> HIDE DEF last, n
  <1> QED BY <1>1, <1>2, <1>3

\* The command "no" and a value set the slot the value is of.
LEMMA SaidInReview ==
    ASSUME NEW S, S = <<>> \/ OneUtterance(S)
    PROVE  LET c == En!ParseCommand(<<Tok("no")>> \o S)
               p == En!newParse(S)
               loc == En!locationFromSpan(p, {}, 1, p.n + 1)
               qty == En!qtyFromSpan(p, 1, p.n + 1)
           IN  c.kind = "set" =>
                  /\ S # <<>>
                  /\ \/ loc # <<>> /\ c.field = "location" /\ c.value = loc
                     \/ loc = <<>> /\ qty # {} /\ c.field = "quantity" /\ c.value = En!One(qty).qty
  <1> DEFINE Token == [w : STRING, end : BOOLEAN]
             no == Tok("no")
             toks == <<no>> \o S
             folds == En!foldsOf(toks)
             rest == En!cloneAsUtterance(SubSeq(toks, 2, Len(toks)))
             rejected == IF En!allIn(folds, En!T.RejectWords) THEN En!Command("reject", "", <<>>)
                         ELSE En!Dictation
             c == En!ParseCommand(toks)
             p == En!newParse(S)
             loc == En!locationFromSpan(p, {}, 1, p.n + 1)
             qty == En!qtyFromSpan(p, 1, p.n + 1)
  <1>1. no \in Token /\ no.w = "no"
    BY EnglishAssumption DEF Tok
  <1>2. S \in Seq(Token) /\ Len(S) \in Nat
    <2>1. <<>> \in Seq(Token) /\ (OneUtterance(S) => S \in Seq(Token))
      BY DEF OneUtterance, Tokens
    <2> HIDE DEF Token
    <2>2. S \in Seq(Token)
      <3>1. CASE S = <<>>
        BY <2>1, <3>1
      <3>2. CASE OneUtterance(S)
        BY <2>1, <3>2
      <3> QED BY <3>1, <3>2
    <2> QED BY <2>2
  <1>3. toks = <<Tok("no")>> \o S
    OBVIOUS
  <1> HIDE DEF no, Token
  <1>4. /\ toks \in Seq(Token) /\ Len(toks) = Len(S) + 1 /\ toks[1] = no
        /\ SubSeq(toks, 2, Len(toks)) = S
    <2>1. <<no>> \in Seq(Token) /\ Len(<<no>>) = 1 /\ <<no>>[1] = no
      BY <1>1
    <2>2. /\ toks \in Seq(Token) /\ Len(toks) = Len(S) + 1 /\ toks[1] = no
          /\ \A k \in 1 .. Len(S) : toks[k + 1] = S[k]
      BY <1>1, <1>2
    <2> HIDE DEF toks
    <2> DEFINE t == SubSeq(toks, 2, Len(toks))
    <2>3. t \in Seq(Token) /\ Len(t) = Len(S) /\ \A k \in 1 .. Len(S) : t[k] = toks[k + 1]
      BY <1>2, <2>2
    <2> HIDE DEF t
    <2>4. t = S
      BY <1>2, <2>2, <2>3
    <2> QED BY <2>2, <2>4 DEF t
  <1>5. rest = S
    BY <1>4, ClonedSame DEF En!cloneAsUtterance
  <1> HIDE DEF toks
  <1>6. folds \in Words /\ Len(folds) >= 1 /\ Len(folds) \in Nat /\ folds[1] = "no" /\ folds # <<>>
    <2>1. DOMAIN toks = 1 .. Len(toks) /\ folds = [i \in DOMAIN toks |-> toks[i].w]
      BY <1>4 DEF En!foldsOf
    <2>2. \A i \in 1 .. Len(toks) : toks[i].w \in STRING
      <3>1. \A i \in 1 .. Len(toks) : toks[i] \in Token
        BY <1>4
      <3>2. \A t \in Token : t.w \in STRING
        BY DEF Token
      <3> QED BY <3>1, <3>2
    <2> HIDE DEF folds
    <2>3. folds \in Words /\ Len(folds) = Len(toks)
      BY <1>2, <1>4, <2>1, <2>2 DEF Words
    <2>4. 1 \in 1 .. Len(toks)
      BY <1>2, <1>4
    <2> QED BY <1>1, <1>2, <1>4, <2>1, <2>3, <2>4
  <1> HIDE DEF folds
  <1>7. En!MatchAt(En!T.negationSet, folds, 1) = 1
    <2> DEFINE phrases == En!T.negationSet
    <2>1. <<"no">> \in phrases /\ "no" \notin WordsOf(phrases \ {<<"no">>}) /\ phrases \in SUBSET (Words \ {<<>>})
      BY EnglishWords, EnglishTables
    <2> HIDE DEF phrases
    <2>2. 1 \in 1 .. Len(folds)
      BY <1>6
    <2>3. In("en")!MatchAt(phrases, folds, 1) = 1
      BY <1>6, <2>1, <2>2, MatchedAlone
    <2> QED BY <2>3, OfEnglish DEF phrases
  <1>8. En!parseSetField(folds) = {}
    <2>1. En!At(folds, 1) = "no"
      BY <1>6 DEF En!At
    <2>2. "no" \notin En!T.Articles /\ "no" \notin En!T.ChangeWords /\ "no" \notin DOMAIN En!T.FieldAliases
      BY EnglishWords
    <2> QED BY <2>1, <2>2 DEF En!parseSetField
  <1>9. rejected.kind # "set"
    BY DEF En!Command, En!Dictation
  <1>10. c = En!CommandOf(toks, folds, {}, 1)
    BY <1>7, <1>8 DEF En!ParseCommand, En!ParseFolds, folds
  <1>11. \/ c.kind # "set"
         \/ c = En!Shorthand(rest, rejected)
    <2> DEFINE A == En!Command("scratch", "", <<>>)
               B == En!Command("confirm", "", <<>>)
               scratch == En!MatchAt(En!T.scratchSet, folds, 1) = Len(folds)
               confirm == En!allIn(folds, En!T.ConfirmWords)
               D == En!Shorthand(rest, rejected)
    <2>1. A.kind # "set" /\ B.kind # "set" /\ En!Dictation.kind # "set"
      BY DEF En!Command, En!Dictation
    <2>2. c = CASE folds = <<>> -> En!Dictation
                [] folds # <<>> /\ scratch -> A
                [] confirm -> B
                [] OTHER -> D
      <3>1. 1 > 0 /\ 1 + 1 = 2 /\ ~ ({} # {})
        OBVIOUS
      <3> HIDE DEF rest, rejected
      <3> QED BY <1>10, <3>1 DEF En!CommandOf, rest, rejected
    <2>3. folds # <<>>
      BY <1>6
    <2> HIDE DEF A, B, scratch, confirm, D, c, rest, rejected
    <2>4. c = A \/ c = B \/ c = D
      BY <2>2, <2>3
    <2> QED BY <2>1, <2>4 DEF D
  <1> HIDE DEF c, rest, rejected
  <1>12. ASSUME c.kind = "set"
         PROVE  /\ S # <<>>
                /\ \/ loc # <<>> /\ c.field = "location" /\ c.value = loc
                   \/ loc = <<>> /\ qty # {} /\ c.field = "quantity" /\ c.value = En!One(qty).qty
    <2>1. c = En!Shorthand(S, rejected)
      BY <1>5, <1>11, <1>12
    <2>2. S # <<>>
      BY <1>9, <1>12, <2>1 DEF En!Shorthand
    <2>3. c = En!SetTo(loc, qty, rejected)
      BY <2>1, <2>2 DEF En!Shorthand, En!SetToAll
    <2> HIDE DEF loc, qty
    <2> QED BY <1>9, <1>12, <2>2, <2>3 DEF En!SetTo, En!Command
  <1> QED BY <1>3, <1>12 DEF c, toks, p, loc, qty

\* What is said after "no" is the same correction in review and at the end of an
\* utterance.
LEMMA SaidEitherWay ==
    ASSUME NEW S, S = <<>> \/ OneUtterance(S)
    PROVE  Sets(En!ParseCommand(<<Tok("no")>> \o S),
                En!parseTokens(<<[w |-> "nails", end |-> TRUE], Tok("no")>> \o S))
  <1> DEFINE c == En!ParseCommand(<<Tok("no")>> \o S)
             r == En!parseTokens(<<[w |-> "nails", end |-> TRUE], Tok("no")>> \o S)
             p == En!newParse(S)
             q == En!newParse(<<[w |-> "nails", end |-> TRUE], Tok("no")>> \o S)
             loc == En!locationFromSpan(p, {}, 1, p.n + 1)
             qty == En!qtyFromSpan(p, 1, p.n + 1)
  <1>1. c.kind = "set" =>
          /\ S # <<>>
          /\ \/ loc # <<>> /\ c.field = "location" /\ c.value = loc
             \/ loc = <<>> /\ qty # {} /\ c.field = "quantity" /\ c.value = En!One(qty).qty
    BY SaidInReview
  <1>2. r = En!Parsed(q)
    BY DEF En!parseTokens
  <1>3. S # <<>> => Repeats(p, q)
    BY SaidAgain
  <1> HIDE DEF c, r, p, q
  <1>4. ASSUME S # <<>>, loc # <<>>
        PROVE  r.location = loc
    BY <1>2, <1>3, <1>4, LocationSaid
  <1>5. ASSUME S # <<>>, loc = <<>>, qty # {}
        PROVE  r.quantity = En!One(qty).qty
    <2>1. qty = En!qtyFromSpan(p, 1, p.n + 1)
      OBVIOUS
    <2> HIDE DEF qty
    <2> QED BY <1>2, <1>3, <1>5, <2>1, QuantitySaid
  <1> HIDE DEF loc, qty
  <1>6. Sets(c, r)
    <2>1. "quantity" # "location"
      OBVIOUS
    <2> QED BY <1>1, <1>4, <1>5, <2>1 DEF Sets
  <1> QED BY <1>6 DEF c, r

\* The last correction of a slot stands, whatever was said before it, and a
\* correction has one meaning, said at the end of an utterance or in review:
\* applyNegations, ParseCommand.
THEOREM CorrectionsWin == Spec => []CorrectionWins
  <1>1. TextFits => CorrectionWins
    <2> SUFFICES ASSUME TextFits
                 PROVE  CorrectionWins
      OBVIOUS
    <2> DEFINE S == Said
               ends == \A k \in DOMAIN S : S[k].end => k = Len(S)
    <2>1. text = <<>> => S = <<>>
      BY DEF Said, En!cloneAsUtterance
    <2>2. text # <<>> => S \in Tokens /\ S # <<>> /\ S[Len(S)].end
      <3>1. text \in Tokens
        BY DEF TextFits
      <3> QED BY <3>1, Cloned DEF Said
    <2>3. S = Said
      OBVIOUS
    <2> HIDE DEF S
    <2>4. S # <<>> =>
             /\ En!parseTokens(S \o Correction(<<"b-2">>)).location = << <<"", <<"b", 2>> >> >>
             /\ CountsThirty(En!parseTokens(S \o Correction(<<"about", "thirty", "reels">>)))
      BY <2>1, <2>2, EndWins
    <2>5. ends => Sets(En!ParseCommand(<<Tok("no")>> \o S),
                       En!parseTokens(<<[w |-> "nails", end |-> TRUE], Tok("no")>> \o S))
      <3>1. ends => S = <<>> \/ OneUtterance(S)
        BY <2>1, <2>2 DEF OneUtterance
      <3> QED BY <3>1, SaidEitherWay
    <2> QED BY <2>3, <2>4, <2>5, Zenon DEF CorrectionWins
  <1> QED BY <1>1, TextInvariant, PTL
=============================================================================
