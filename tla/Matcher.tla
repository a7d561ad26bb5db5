------------------------------- MODULE Matcher ------------------------------
(* fuzzy/fuzzy.go and refdata/refdata.go: a spoken text is matched against   *)
(* the names of known locations and parts.  A text is a sequence of          *)
(* characters, already folded; scores are fractions [n, d].                  *)
EXTENDS Integers, Sequences, FiniteSets

Less(x, y) == x.n * y.d < y.n * x.d
Frac(n, d) == [n |-> n, d |-> d]
Best(S) == CHOOSE x \in S : \A y \in S : ~Less(x, y)
Smallest(S) == CHOOSE x \in S : \A y \in S : x <= y
Larger(i, j) == IF i > j THEN i ELSE j

\* Faulty variant: the window ends before the character it is around.
ShortWindow(a, b) == Larger(Len(a), Len(b)) \div 2 - 2

\* How far from its own place a character may be found.
Window(a, b) == Larger(Larger(Len(a), Len(b)) \div 2 - 1, 0)

\* Each character of a in turn takes the first free equal one of b in its window.
Taken(pairs) == {pairs[x][2] : x \in DOMAIN pairs}
Paired(a, b, i, pairs) ==
    LET free == {j \in (i - Window(a, b))..(i + Window(a, b)) :
                    j \in DOMAIN b \ Taken(pairs) /\ b[j] = a[i]}
    IN  IF free = {} THEN pairs ELSE Append(pairs, <<i, Smallest(free)>>)
PairsUpTo(a, b) ==
    LET upTo[i \in Nat] == IF i = 0 THEN <<>> ELSE Paired(a, b, i, upTo[i - 1])
    IN  upTo
Pairs(a, b) == PairsUpTo(a, b)[Len(a)]

\* The k-th matched position of b in b's own order.
KthTaken(pairs, k) ==
    CHOOSE j \in Taken(pairs) :
        Cardinality({x \in DOMAIN pairs : pairs[x][2] < j}) = k - 1

\* m matched characters, t of them out of order.
JaroOf(la, lb, m, t) ==
    CASE la = 0 /\ lb = 0 -> Frac(1, 1)
      [] la # lb /\ 0 \in {la, lb} -> Frac(0, 1)
      [] OTHER -> IF m = 0 THEN Frac(0, 1)
                  ELSE Frac(2 * m * m * (la + lb) + (2 * m - t) * la * lb, 6 * m * la * lb)

JaroPaired(a, b, pairs) ==
    JaroOf(Len(a), Len(b), Len(pairs),
           Cardinality({k \in DOMAIN pairs : a[pairs[k][1]] # b[KthTaken(pairs, k)]}))

Jaro(a, b) == JaroPaired(a, b, Pairs(a, b))

\* The length of the common prefix, at most four.
Prefix(a, b) ==
    LET same == {k \in 0..4 : k <= Len(a) /\ k <= Len(b) /\ SubSeq(a, 1, k) = SubSeq(b, 1, k)}
    IN  CHOOSE k \in same : \A l \in same : l <= k

Boosted(j, l) == Frac(j.n * (10 - l) + l * j.d, 10 * j.d)
JaroWinkler(a, b) == Boosted(Jaro(a, b), Prefix(a, b))

canon(s) == SelectSeq(s, LAMBDA c : c \notin {"-", " ", ".", "/"})

\* A simple plural stripped from a one-word name.
depluralize(s) ==
    LET n == Len(s) IN
    IF n > 4 /\ s[n] = "s" /\ s[n - 1] = "e" THEN SubSeq(s, 1, n - 2)
    ELSE IF n > 3 /\ s[n] = "s" THEN SubSeq(s, 1, n - 1) ELSE s

KeyScore(q, k, code) ==
    IF code /\ canon(q) # <<>> /\ canon(k) = canon(q) THEN Frac(98, 100)
    ELSE Best({JaroWinkler(q, k), JaroWinkler(depluralize(q), depluralize(k))})

\* The score of an entry (its names): 1 for the very text, else its best name's.
bestScore(q, keys, code) ==
    IF q \in keys THEN Frac(1, 1) ELSE Best({Frac(0, 1)} \cup {KeyScore(q, k, code) : k \in keys})

Threshold == Frac(85, 100)

\* The first entry of the best score, when that reaches the threshold; else 0.
FirstBest(q, s) ==
    LET top == {e \in DOMAIN s : \A f \in DOMAIN s : ~Less(s[e], s[f])}
    IN  IF q = <<>> \/ top = {} \/ (top # {} /\ Less(s[Smallest(top)], Threshold)) THEN 0
        ELSE Smallest(top)
Resolve(q, entries, code) ==
    FirstBest(q, [e \in DOMAIN entries |-> bestScore(q, entries[e], code)])
=============================================================================
