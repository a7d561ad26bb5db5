---------------------------- MODULE Numbers_proofs ----------------------------
(* Every number below a million, spelled in English or in Spanish, is found  *)
(* whole and exact, and the scale words after "several" are never an exact   *)
(* number: for every table in which the words of numbers have their values.  *)
EXTENDS Utterances_proofs

-----------------------------------------------------------------------------
(* Words said one after another. *)

\* The words w are at i of toks.
Holds(toks, i, w) ==
    /\ i \in Nat \ {0} /\ w \in Words /\ i + Len(w) <= Len(toks) + 1
    /\ \A k \in 1 .. Len(w) : toks[i + (k - 1)] = w[k]

LEMMA HoldsBoth ==
    ASSUME NEW toks \in Words, NEW i, NEW u \in Words, NEW v \in Words, Holds(toks, i, u \o v)
    PROVE  Holds(toks, i, u) /\ Holds(toks, i + Len(u), v)
  <1> DEFINE w == u \o v
  <1>1. Len(u) \in Nat /\ Len(v) \in Nat /\ Len(toks) \in Nat /\ i \in Nat \ {0}
    BY DEF Holds, Words
  <1>2. /\ Len(w) = Len(u) + Len(v)
        /\ \A k \in 1 .. Len(u) : w[k] = u[k]
        /\ \A k \in 1 .. Len(v) : w[Len(u) + k] = v[k]
    BY ConcatProperties DEF Words
  <1>3. i + Len(w) <= Len(toks) + 1 /\ \A k \in 1 .. Len(w) : toks[i + (k - 1)] = w[k]
    BY DEF Holds
  <1> HIDE DEF w
  <1>4. Holds(toks, i, u)
    <2>1. \A k \in 1 .. Len(u) : k \in 1 .. Len(w)
      BY <1>1, <1>2
    <2> QED BY <1>1, <1>2, <1>3, <2>1 DEF Holds
  <1>5. Holds(toks, i + Len(u), v)
    <2>1. \A k \in 1 .. Len(v) : /\ Len(u) + k \in 1 .. Len(w)
                                 /\ i + ((Len(u) + k) - 1) = (i + Len(u)) + (k - 1)
      BY <1>1, <1>2
    <2>2. \A k \in 1 .. Len(v) : toks[(i + Len(u)) + (k - 1)] = v[k]
      BY <1>2, <1>3, <2>1
    <2> QED BY <1>1, <1>2, <1>3, <2>2 DEF Holds
  <1> QED BY <1>4, <1>5

\* One word.
LEMMA HoldsOne ==
    ASSUME NEW toks \in Words, NEW i, NEW x, Holds(toks, i, <<x>>)
    PROVE  toks[i] = x /\ i \in Nat /\ i >= 1 /\ i <= Len(toks) /\ Len(toks) \in Nat
  <1>1. Len(<<x>>) = 1 /\ <<x>>[1] = x /\ Len(toks) \in Nat
    BY DEF Words
  <1>2. i \in Nat \ {0} /\ i + 1 <= Len(toks) + 1 /\ toks[i + (1 - 1)] = x
    BY <1>1 DEF Holds
  <1>3. i + (1 - 1) = i
    BY <1>2
  <1> QED BY <1>1, <1>2, <1>3

-----------------------------------------------------------------------------
(* What a run makes of them. *)

\* A run r in a group of digits leads to q, whatever it does after.
Leads(c, toks, r, q) ==
    /\ q \in RunStates /\ q.started /\ ~ q.done
    /\ In(c)!Run(toks, r) = In(c)!Run(toks, q)

\* A run that can take a word of the group, and one that has its group at value cur.
Open(r) == r \in RunStates /\ ~ r.done /\ ~ r.ones /\ ~ r.tens
Stands(q, i, total, cur, hund) ==
    q.i = i /\ q.total = total /\ q.cur = cur /\ (q.hund <=> hund)

LEMMA Onto ==
    ASSUME NEW c \in DOMAIN Packs, NEW toks \in Words, NEW r \in RunStates, ~ r.done,
           NEW x, Holds(toks, r.i, <<x>>), NEW total, NEW cur, NEW ones, NEW tens, NEW hund,
           Past(In(c)!RunStep(toks, r), r, total, cur, ones, tens, hund)
    PROVE  \E q : Leads(c, toks, r, q) /\ Past(q, r, total, cur, ones, tens, hund)
  <1>1. r.i <= Len(toks)
    BY HoldsOne
  <1>2. In(c)!Run(toks, r) = In(c)!Run(toks, In(c)!RunStep(toks, r))
    BY <1>1, RunOn
  <1> QED BY <1>2 DEF Leads, Past

\* The tables of a language numbers are spelled in.
LEMMA SpellingTables ==
    /\ \A c \in {"en", "es"} :
          c \in DOMAIN Packs /\ In(c)!T = Packs[c] /\ SpellsNumbers(In(c)!T, MoreOrLess[c])
    /\ SpellsEnglish(In("en")!T) /\ SpellsSpanish(In("es")!T)
  <1>1. ASSUME NEW c \in {"en", "es"}
        PROVE  c \in DOMAIN Packs /\ In(c)!T = Packs[c] /\ SpellsNumbers(In(c)!T, MoreOrLess[c])
    <2>1. c \in DOMAIN Packs
      BY SpellingAssumption
    <2>2. In(c)!T = Packs[c]
      BY <2>1 DEF In!T
    <2> QED BY <2>1, <2>2, SpellingAssumption
  <1> QED BY <1>1, SpellingAssumption

\* A word for one of the ones; an article among them counts one.
LEMMA OnesSaid ==
    ASSUME NEW c \in {"en", "es"}, NEW toks \in Words, NEW r \in RunStates, ~ r.done, ~ r.ones,
           NEW w \in DOMAIN In(c)!T.Ones, Holds(toks, r.i, <<w>>)
    PROVE  \E q : /\ Leads(c, toks, r, q)
                  /\ Past(q, r, r.total, r.cur + In(c)!T.Ones[w], TRUE, r.tens, r.hund)
  <1>0. c \in DOMAIN Packs
    BY SpellingTables
  <1>1. toks[r.i] = w /\ r.i <= Len(toks)
    BY HoldsOne
  <1>2. CASE w \in In(c)!T.NumArticles => r.tens \/ r.cur # 0 \/ ~ In(c)!startsScale(toks, r.i + 1)
    <2>1. Past(In(c)!RunStep(toks, r), r, r.total, r.cur + In(c)!T.Ones[w], TRUE, r.tens, r.hund)
      BY <1>0, <1>1, <1>2, StepOnes
    <2> QED BY <1>0, <2>1, Onto
  <1>3. CASE w \in In(c)!T.NumArticles /\ ~ r.tens /\ r.cur = 0 /\ In(c)!startsScale(toks, r.i + 1)
    <2>1. /\ w \notin DOMAIN In(c)!T.Tens /\ w \notin DOMAIN In(c)!T.Hundreds
          /\ w \notin In(c)!T.ScaleHundred /\ w \notin DOMAIN In(c)!T.ScaleBig
          /\ w \notin In(c)!T.DozenWords /\ w \notin In(c)!T.HalfWords
          /\ w \notin In(c)!T.NumConnectors /\ w \notin DOMAIN In(c)!Digits
      <3>1. w \in Roles(In(c)!T)[1] /\ 1 \in 1 .. 9
        BY <1>0, RolesOf
      <3> QED BY <1>0, <3>1, RoleWords
    <2>2. In(c)!T.Ones[w] = 1
      <3>1. w \in DOMAIN In(c)!T.Ones \cap In(c)!T.NumArticles
        BY <1>3
      <3> QED BY <3>1, SpellingTables DEF SpellsNumbers
    <2>3. r.cur + In(c)!T.Ones[w] = 1 /\ 1 \in Int
      BY <1>3, <2>2
    <2>5. Past(In(c)!RunStep(toks, r), r, r.total, 1, TRUE, r.tens, r.hund)
      BY <1>1, <1>3, <2>1, <2>3, GoPast DEF In!RunStep
    <2>6. \E q : Leads(c, toks, r, q) /\ Past(q, r, r.total, 1, TRUE, r.tens, r.hund)
      BY <1>0, <2>5, Onto
    <2> QED BY <2>3, <2>6
  <1> QED BY <1>2, <1>3

LEMMA TensSaid ==
    ASSUME NEW c \in {"en", "es"}, NEW toks \in Words, NEW r, Open(r),
           NEW w \in DOMAIN In(c)!T.Tens, Holds(toks, r.i, <<w>>)
    PROVE  \E q : /\ Leads(c, toks, r, q)
                  /\ Past(q, r, r.total, r.cur + In(c)!T.Tens[w], r.ones, TRUE, r.hund)
  <1>1. c \in DOMAIN Packs /\ toks[r.i] = w /\ r \in RunStates /\ ~ r.done
    BY SpellingTables, HoldsOne DEF Open
  <1>2. Past(In(c)!RunStep(toks, r), r, r.total, r.cur + In(c)!T.Tens[w], r.ones, TRUE, r.hund)
    BY <1>1, StepTens DEF Open
  <1> QED BY <1>1, <1>2, Onto

\* A connector before a word of its own value, or none.
Connectors(c) == {<<>>} \cup {<<x>> : x \in In(c)!T.NumConnectors}

LEMMA Connected ==
    ASSUME NEW c \in {"en", "es"}, NEW toks \in Words, NEW r \in RunStates, r.started, ~ r.done,
           NEW mid \in Connectors(c), NEW w \in Words, w # <<>>, w[1] \in In(c)!Small,
           Holds(toks, r.i, mid \o w)
    PROVE  \E q : /\ Leads(c, toks, r, q) /\ Stands(q, r.i + Len(mid), r.total, r.cur, r.hund)
                  /\ (q.ones <=> r.ones) /\ (q.tens <=> r.tens)
                  /\ Holds(toks, q.i, w)
  <1>0. c \in DOMAIN Packs /\ r.i \in Nat
    BY SpellingTables DEF RunStates
  <1>1. CASE mid = <<>>
    <2>1. mid \o w = w /\ Len(mid) = 0
      BY <1>1, ConcatEmptySeq DEF Words
    <2> QED BY <1>0, <2>1 DEF Leads, Stands
  <1>2. ASSUME NEW x \in In(c)!T.NumConnectors, mid = <<x>>
        PROVE  \E q : /\ Leads(c, toks, r, q) /\ Stands(q, r.i + 1, r.total, r.cur, r.hund)
                      /\ (q.ones <=> r.ones) /\ (q.tens <=> r.tens)
                      /\ Holds(toks, q.i, w)
    <2>0. <<x>> \in Words /\ Len(<<x>>) = 1
      <3>1. x \in Numerals(In(c)!T)
        <4>1. x \in Roles(In(c)!T)[8] /\ 8 \in 1 .. 9
          BY <1>0, RolesOf
        <4> QED BY <1>0, <4>1, OneRole
      <3>2. x \in STRING
        BY <3>1, SpellingTables DEF SpellsNumbers
      <3> QED BY <3>2 DEF Words
    <2>1. Holds(toks, r.i, <<x>>) /\ Holds(toks, r.i + 1, w)
      BY <1>2, <2>0, HoldsBoth
    <2>2. toks[r.i] = x
      BY <2>1, HoldsOne
    <2>3. In(c)!At(toks, r.i + 1) = w[1]
      <3>1. Len(w) \in Nat /\ Len(w) >= 1 /\ Len(toks) \in Nat
        BY DEF Words
      <3>2. r.i + 1 <= Len(toks) /\ toks[(r.i + 1) + (1 - 1)] = w[1]
        BY <1>0, <2>1, <3>1 DEF Holds
      <3>3. (r.i + 1) + (1 - 1) = r.i + 1
        BY <1>0
      <3> QED BY <3>2, <3>3 DEF In!At
    <2>4. Past(In(c)!RunStep(toks, r), r, r.total, r.cur, r.ones, r.tens, r.hund)
      BY <1>0, <2>2, <2>3, StepConnector
    <2>5. PICK q : Leads(c, toks, r, q) /\ Past(q, r, r.total, r.cur, r.ones, r.tens, r.hund)
      BY <1>0, <2>1, <2>4, Onto
    <2> QED BY <2>1, <2>5 DEF Past, Stands
  <1>3. mid # <<>> => \E x \in In(c)!T.NumConnectors : mid = <<x>>
    BY DEF Connectors
  <1>4. \A x : Len(<<x>>) = 1
    OBVIOUS
  <1> QED BY <1>1, <1>2, <1>3, <1>4

\* Leading on from where one was led.
LEMMA LedOn ==
    ASSUME NEW c, NEW toks, NEW r, NEW q, NEW s, Leads(c, toks, r, q), Leads(c, toks, q, s)
    PROVE  Leads(c, toks, r, s)
  BY DEF Leads

\* Tens and ones, with a connector or without.
LEMMA TensAndOnes ==
    ASSUME NEW c \in {"en", "es"}, NEW toks \in Words, NEW r, Open(r), NEW mid \in Connectors(c),
           NEW t \in DOMAIN In(c)!T.Tens, NEW o \in DOMAIN In(c)!T.Ones,
           mid \o <<o>> \in Words, Holds(toks, r.i, <<t>> \o (mid \o <<o>>))
    PROVE  \E q : /\ Leads(c, toks, r, q)
                  /\ Stands(q, r.i + Len(<<t>> \o (mid \o <<o>>)), r.total,
                            r.cur + (In(c)!T.Tens[t] + In(c)!T.Ones[o]), r.hund)
  <1>0. c \in DOMAIN Packs /\ r.i \in Nat /\ r \in RunStates /\ r.cur \in Int /\ ~ r.ones /\ r.ones \in BOOLEAN
    BY SpellingTables DEF RunStates, Open
  <1>1. t \in Numerals(In(c)!T) /\ o \in Numerals(In(c)!T) /\ o \in In(c)!Small
    <2>1. t \in Roles(In(c)!T)[2] /\ o \in Roles(In(c)!T)[1] /\ 1 \in 1 .. 9 /\ 2 \in 1 .. 9
      BY <1>0, RolesOf
    <2>2. t \in Numerals(In(c)!T) /\ o \in Numerals(In(c)!T)
      BY <1>0, <2>1, OneRole
    <2> QED BY <2>2 DEF In!Small
  <1>2. t \in STRING /\ o \in STRING
    BY <1>1, SpellingTables DEF SpellsNumbers
  <1>3. /\ <<t>> \in Words /\ <<o>> \in Words /\ <<o>> # <<>> /\ <<o>>[1] = o
        /\ Len(<<t>>) = 1 /\ Len(<<o>>) = 1
    BY <1>2 DEF Words
  <1>4. Holds(toks, r.i, <<t>>) /\ Holds(toks, r.i + 1, mid \o <<o>>)
    BY <1>3, HoldsBoth
  <1>5. PICK p : Leads(c, toks, r, p) /\ Past(p, r, r.total, r.cur + In(c)!T.Tens[t], r.ones, TRUE, r.hund)
    BY <1>4, TensSaid
  <1>6. PICK q : /\ Leads(c, toks, p, q) /\ Stands(q, p.i + Len(mid), p.total, p.cur, p.hund)
                 /\ (q.ones <=> p.ones) /\ Holds(toks, q.i, <<o>>)
    <2>1. p \in RunStates /\ p.started /\ ~ p.done /\ p.i = r.i + 1
      BY <1>5 DEF Leads, Past
    <2>2. Holds(toks, p.i, mid \o <<o>>)
      BY <1>4, <2>1
    <2> DEFINE w == <<o>>
    <2>3. w \in Words /\ w # <<>> /\ w[1] \in In(c)!Small /\ Holds(toks, p.i, mid \o w)
      BY <1>1, <1>3, <2>2
    <2> HIDE DEF w
    <2>4. \E q : /\ Leads(c, toks, p, q) /\ Stands(q, p.i + Len(mid), p.total, p.cur, p.hund)
                 /\ (q.ones <=> p.ones) /\ (q.tens <=> p.tens) /\ Holds(toks, q.i, w)
      BY <2>1, <2>3, Connected
    <2> QED BY <2>4 DEF w
  <1>7. PICK s : Leads(c, toks, q, s) /\ Past(s, q, q.total, q.cur + In(c)!T.Ones[o], TRUE, q.tens, q.hund)
    <2>1. q \in RunStates /\ ~ q.done /\ ~ q.ones
      BY <1>0, <1>5, <1>6 DEF Leads, Past
    <2> QED BY <1>6, <2>1, OnesSaid
  <1>8. Leads(c, toks, r, s)
    BY <1>5, <1>6, <1>7, LedOn
  <1>9. Len(<<t>> \o (mid \o <<o>>)) = 1 + (Len(mid) + 1) /\ Len(mid) \in Nat
    <2>1. mid \in Seq(STRING \cup In(c)!T.NumConnectors)
      <3>1. mid = <<>> \/ \E x \in In(c)!T.NumConnectors : mid = <<x>>
        BY DEF Connectors
      <3>2. \A x \in In(c)!T.NumConnectors : <<x>> \in Seq(STRING \cup In(c)!T.NumConnectors)
        OBVIOUS
      <3>3. <<>> \in Seq(STRING \cup In(c)!T.NumConnectors)
        OBVIOUS
      <3> QED BY <3>1, <3>2, <3>3
    <2>2. Len(mid \o <<o>>) = Len(mid) + Len(<<o>>)
      BY <1>2, <2>1, ConcatProperties
    <2>3. Len(<<t>> \o (mid \o <<o>>)) = Len(<<t>>) + Len(mid \o <<o>>)
      BY <1>3, ConcatProperties DEF Words
    <2> QED BY <1>3, <2>1, <2>2, <2>3
  <1>10. In(c)!T.Tens[t] \in Int /\ In(c)!T.Ones[o] \in Int
    BY <1>0, Tables
  <1>11. Stands(s, r.i + (1 + (Len(mid) + 1)), r.total,
                r.cur + (In(c)!T.Tens[t] + In(c)!T.Ones[o]), r.hund)
    BY <1>0, <1>5, <1>6, <1>7, <1>9, <1>10 DEF Past, Stands
  <1> QED BY <1>8, <1>9, <1>11

-----------------------------------------------------------------------------
(* The words of a number. *)

LEMMA WordForIs ==
    ASSUME NEW f, NEW v, \E w \in DOMAIN f : f[w] = v
    PROVE  WordFor(f, v) \in DOMAIN f /\ f[WordFor(f, v)] = v
  BY DEF WordFor

LEMMA Divided ==
    ASSUME NEW n \in Nat, NEW d \in {10, 100, 1000}
    PROVE  n % d \in 0 .. (d - 1) /\ n \div d \in Nat /\ n = d * (n \div d) + (n % d)
  <1>1. CASE d = 10
    BY <1>1
  <1>2. CASE d = 100
    BY <1>2
  <1>3. CASE d = 1000
    BY <1>3
  <1> QED BY <1>1, <1>2, <1>3

\* Words numbers are made of, the first with a value of its own.
Spelled(c, w) == w \in Seq(Numerals(In(c)!T)) \ {<<>>}
Valued(c, w) == Spelled(c, w) /\ w[1] \in In(c)!Small

LEMMA SpelledOne ==
    ASSUME NEW c \in {"en", "es"}, NEW x \in In(c)!Small
    PROVE  Valued(c, <<x>>) /\ x \in Numerals(In(c)!T)
  <1>1. c \in DOMAIN Packs
    BY SpellingTables
  <1>2. x \in Numerals(In(c)!T)
    <2>1. x \in Roles(In(c)!T)[1] \/ x \in Roles(In(c)!T)[2] \/ x \in Roles(In(c)!T)[3]
      BY <1>1, RolesOf DEF In!Small
    <2>2. 1 \in 1 .. 9 /\ 2 \in 1 .. 9 /\ 3 \in 1 .. 9
      OBVIOUS
    <2> QED BY <1>1, <2>1, <2>2, OneRole
  <1>3. <<x>> \in Seq(Numerals(In(c)!T)) /\ <<x>> # <<>> /\ <<x>>[1] = x
    BY <1>2
  <1> QED BY <1>2, <1>3 DEF Valued, Spelled

LEMMA SpelledBoth ==
    ASSUME NEW c, NEW u, NEW v, Spelled(c, u), v \in Seq(Numerals(In(c)!T))
    PROVE  /\ Spelled(c, u \o v) /\ Len(u \o v) = Len(u) + Len(v)
           /\ Valued(c, u) => Valued(c, u \o v)
  <1> DEFINE X == Numerals(In(c)!T)
  <1>1. u \in Seq(X) /\ u # <<>> /\ v \in Seq(X)
    BY DEF Spelled
  <1> HIDE DEF X
  <1>2. /\ u \o v \in Seq(X) /\ Len(u \o v) = Len(u) + Len(v)
        /\ \A k \in 1 .. Len(u) : (u \o v)[k] = u[k]
    BY <1>1, ConcatProperties
  <1>3. Len(u) \in Nat /\ Len(v) \in Nat /\ Len(u) >= 1
    BY <1>1
  <1>4. (u \o v)[1] = u[1] /\ u \o v # <<>>
    <2>1. 1 \in 1 .. Len(u)
      BY <1>3
    <2>2. Len(<<>>) = 0
      OBVIOUS
    <2> QED BY <1>2, <1>3, <2>1, <2>2
  <1> QED BY <1>2, <1>4 DEF Valued, Spelled, X

LEMMA SpelledWords ==
    ASSUME NEW c \in {"en", "es"}
    PROVE  /\ \A w \in Seq(Numerals(In(c)!T)) : w \in Words
           /\ \A w : Spelled(c, w) => w \in Words /\ w # <<>> /\ Len(w) \in Nat /\ Len(w) >= 1
           /\ \A mid \in Connectors(c) : mid \in Seq(Numerals(In(c)!T)) /\ (mid # <<>> => Spelled(c, mid))
  <1>1. c \in DOMAIN Packs /\ Numerals(In(c)!T) \subseteq STRING
    BY SpellingTables DEF SpellsNumbers
  <1>2. \A w \in Seq(Numerals(In(c)!T)) : w \in Words
    BY <1>1 DEF Words
  <1>3. ASSUME NEW w, Spelled(c, w)
        PROVE  w \in Words /\ w # <<>> /\ Len(w) \in Nat /\ Len(w) >= 1
    <2>1. w \in Words /\ w # <<>>
      BY <1>2, <1>3 DEF Spelled
    <2> QED BY <2>1 DEF Words
  <1>4. ASSUME NEW x \in In(c)!T.NumConnectors
        PROVE  <<x>> \in Seq(Numerals(In(c)!T)) /\ <<x>> # <<>>
    <2>1. x \in Roles(In(c)!T)[8] /\ 8 \in 1 .. 9
      BY <1>1, RolesOf
    <2>2. x \in Numerals(In(c)!T)
      BY <1>1, <2>1, OneRole
    <2> QED BY <2>2
  <1>5. ASSUME NEW mid \in Connectors(c)
        PROVE  mid \in Seq(Numerals(In(c)!T)) /\ (mid # <<>> => Spelled(c, mid))
    <2>1. mid = <<>> \/ \E x \in In(c)!T.NumConnectors : mid = <<x>>
      BY DEF Connectors
    <2>2. <<>> \in Seq(Numerals(In(c)!T))
      OBVIOUS
    <2> QED BY <1>4, <2>1, <2>2 DEF Spelled
  <1> QED BY <1>2, <1>3, <1>5

\* The words w add n to the group of a run that is open.
Adds(c, w, n) ==
    \A toks \in Words : \A r : Open(r) /\ Holds(toks, r.i, w) =>
        \E q : Leads(c, toks, r, q) /\ Stands(q, r.i + Len(w), r.total, r.cur + n, r.hund)

\* Numbers below a hundred, in English.
LEMMA EnglishUnder100 ==
    ASSUME NEW n \in 0 .. 99
    PROVE  Valued("en", EnglishBelow100(n)) /\ Adds("en", EnglishBelow100(n), n)
  <1> DEFINE t == In("en")!T
             w == EnglishBelow100(n)
             tens == WordFor(t.Tens, n - (n % 10))
             ones == WordFor(t.Ones, IF n < 20 THEN n ELSE n % 10)
  <1>0. "en" \in {"en", "es"} /\ "en" \in DOMAIN Packs
    BY SpellingTables
  <1>1. n \in Nat /\ n % 10 \in 0 .. 9 /\ n \div 10 \in Nat /\ n = 10 * (n \div 10) + (n % 10)
    BY Divided
  <1>2. CASE n < 20
    <2>1. ones \in DOMAIN t.Ones /\ t.Ones[ones] = n
      <3>1. \E x \in DOMAIN t.Ones : t.Ones[x] = n
        BY <1>2, SpellingTables DEF SpellsEnglish
      <3> QED BY <1>2, <3>1, WordForIs
    <2>2. w = <<ones>>
      BY <1>2 DEF EnglishBelow100
    <2> HIDE DEF ones, w
    <2>3. Valued("en", w)
      BY <1>0, <2>1, <2>2, SpelledOne DEF In!Small
    <2>4. ASSUME NEW toks \in Words, NEW r, Open(r), Holds(toks, r.i, w)
          PROVE  \E q : Leads("en", toks, r, q) /\ Stands(q, r.i + Len(w), r.total, r.cur + n, r.hund)
      <3>1. PICK q : Leads("en", toks, r, q) /\ Past(q, r, r.total, r.cur + t.Ones[ones], TRUE, r.tens, r.hund)
        BY <1>0, <2>1, <2>2, <2>4, OnesSaid DEF Open
      <3>2. Len(w) = 1
        BY <2>2
      <3> QED BY <2>1, <3>1, <3>2 DEF Past, Stands
    <2> QED BY <2>3, <2>4 DEF w, Adds
  <1>3. CASE n >= 20
    <2>1. tens \in DOMAIN t.Tens /\ t.Tens[tens] = n - (n % 10)
      <3>1. n - (n % 10) = 10 * (n \div 10) /\ n \div 10 \in 2 .. 9
        BY <1>1, <1>3
      <3>2. \E x \in DOMAIN t.Tens : t.Tens[x] = 10 * (n \div 10)
        BY <1>0, <3>1, SpellingTables DEF SpellsNumbers
      <3> QED BY <3>1, <3>2, WordForIs
    <2>2. ones \in DOMAIN t.Ones /\ t.Ones[ones] = n % 10
      <3>1. \E x \in DOMAIN t.Ones : t.Ones[x] = n % 10
        BY <1>1, SpellingTables DEF SpellsEnglish
      <3> QED BY <1>3, <3>1, WordForIs
    <2>3. w = <<tens>> \o (IF n % 10 = 0 THEN <<>> ELSE <<ones>>)
      BY <1>3 DEF EnglishBelow100
    <2> HIDE DEF ones, tens, w
    <2>4. Valued("en", <<tens>>) /\ Valued("en", <<ones>>)
      BY <1>0, <2>1, <2>2, SpelledOne DEF In!Small
    <2>5. CASE n % 10 = 0
      <3>1. w = <<tens>>
        BY <2>3, <2>5
      <3>2. ASSUME NEW toks \in Words, NEW r, Open(r), Holds(toks, r.i, w)
            PROVE  \E q : Leads("en", toks, r, q) /\ Stands(q, r.i + Len(w), r.total, r.cur + n, r.hund)
        <4>1. PICK q : /\ Leads("en", toks, r, q)
                       /\ Past(q, r, r.total, r.cur + t.Tens[tens], r.ones, TRUE, r.hund)
          BY <1>0, <2>1, <3>1, <3>2, TensSaid
        <4>2. Len(w) = 1 /\ t.Tens[tens] = n
          BY <1>1, <2>1, <2>5, <3>1
        <4> QED BY <4>1, <4>2 DEF Past, Stands
      <3> QED BY <2>4, <3>1, <3>2 DEF w, Adds
    <2>6. CASE n % 10 # 0
      <3> DEFINE u == <<>> \o <<ones>>
      <3>1. u = <<ones>> /\ w = <<tens>> \o u
        BY <2>3, <2>6
      <3>2. Spelled("en", u) /\ u \in Seq(Numerals(t))
        BY <2>4, <3>1 DEF Valued, Spelled
      <3>3. Valued("en", w)
        BY <2>4, <3>1, <3>2, SpelledBoth DEF Valued
      <3>4. ASSUME NEW toks \in Words, NEW r, Open(r), Holds(toks, r.i, w)
            PROVE  \E q : Leads("en", toks, r, q) /\ Stands(q, r.i + Len(w), r.total, r.cur + n, r.hund)
        <4>1. <<>> \in Connectors("en") /\ u \in Words
          BY <1>0, <3>2, SpelledWords DEF Connectors
        <4>2. PICK q : /\ Leads("en", toks, r, q)
                       /\ Stands(q, r.i + Len(w), r.total, r.cur + (t.Tens[tens] + t.Ones[ones]), r.hund)
          BY <1>0, <2>1, <2>2, <3>1, <3>4, <4>1, TensAndOnes
        <4>3. t.Tens[tens] + t.Ones[ones] = n
          BY <1>1, <2>1, <2>2
        <4> QED BY <4>2, <4>3
      <3> QED BY <3>3, <3>4 DEF w, Adds
    <2> QED BY <2>5, <2>6
  <1> QED BY <1>1, <1>2, <1>3

\* The words w are the group n of a run that has none yet.
Groups(c, w, n) ==
    \A toks \in Words : \A r : Open(r) /\ ~ r.hund /\ r.cur = 0 /\ Holds(toks, r.i, w) =>
        \E q : Leads(c, toks, r, q) /\ q.i = r.i + Len(w) /\ q.total = r.total /\ q.cur = n

\* What is left of a group after its hundreds: nothing, or words that add to it.
LEMMA RestAdds ==
    ASSUME NEW c \in {"en", "es"}, NEW mid \in Connectors(c), NEW w, NEW m \in Int,
           Spelled(c, w), mid # <<>> => Valued(c, w), Adds(c, w, m),
           NEW toks \in Words, NEW r, Open(r), r.started, Holds(toks, r.i, mid \o w)
    PROVE  \E q : Leads(c, toks, r, q) /\ Stands(q, r.i + Len(mid \o w), r.total, r.cur + m, r.hund)
  <1>1. /\ w \in Words /\ w # <<>> /\ mid \in Words /\ r \in RunStates /\ ~ r.done
        /\ mid \in Seq(Numerals(In(c)!T)) /\ (mid # <<>> => Spelled(c, mid))
    BY SpelledWords DEF Open
  <1>2. CASE mid = <<>>
    <2>1. mid \o w = w
      BY <1>1, <1>2, ConcatEmptySeq DEF Words
    <2> QED BY <2>1 DEF Adds
  <1>3. CASE mid # <<>>
    <2>1. PICK p : /\ Leads(c, toks, r, p) /\ Stands(p, r.i + Len(mid), r.total, r.cur, r.hund)
                   /\ (p.ones <=> r.ones) /\ (p.tens <=> r.tens) /\ Holds(toks, p.i, w)
      BY <1>1, <1>3, Connected DEF Valued
    <2>2. Open(p)
      BY <2>1 DEF Open, Leads
    <2>3. PICK q : Leads(c, toks, p, q) /\ Stands(q, p.i + Len(w), p.total, p.cur + m, p.hund)
      BY <2>1, <2>2 DEF Adds
    <2>4. Leads(c, toks, r, q)
      BY <2>1, <2>3, LedOn
    <2>5. Len(mid \o w) = Len(mid) + Len(w) /\ Len(mid) \in Nat /\ Len(w) \in Nat /\ r.i \in Nat
      BY <1>1, ConcatProperties DEF Words, RunStates
    <2>6. Stands(q, r.i + Len(mid \o w), r.total, r.cur + m, r.hund)
      BY <2>1, <2>3, <2>5 DEF Stands
    <2> QED BY <2>4, <2>6
  <1> QED BY <1>2, <1>3

\* A run past a word for a hundred.
LEMMA HundredSaid ==
    ASSUME NEW c \in {"en", "es"}, NEW toks \in Words, NEW r \in RunStates, ~ r.done, ~ r.hund,
           NEW w \in In(c)!T.ScaleHundred, Holds(toks, r.i, <<w>>)
    PROVE  \E q : /\ Leads(c, toks, r, q)
                  /\ Past(q, r, r.total, 100 * In(c)!OneOr(r.cur), FALSE, FALSE, TRUE)
  <1>1. c \in DOMAIN Packs /\ toks[r.i] = w
    BY SpellingTables, HoldsOne
  <1>2. Past(In(c)!RunStep(toks, r), r, r.total, 100 * In(c)!OneOr(r.cur), FALSE, FALSE, TRUE)
    BY <1>1, StepScaleHundred
  <1> QED BY <1>1, <1>2, Onto

\* A run past a word for a thousand.
LEMMA ThousandSaid ==
    ASSUME NEW c \in {"en", "es"}, NEW toks \in Words, NEW r \in RunStates, ~ r.done,
           r.cur # 0 \/ ~ r.started,
           NEW w \in DOMAIN In(c)!T.ScaleBig, Holds(toks, r.i, <<w>>),
           NEW total, total = r.total + In(c)!OneOr(r.cur) * In(c)!T.ScaleBig[w]
    PROVE  \E q : Leads(c, toks, r, q) /\ Past(q, r, total, 0, FALSE, FALSE, FALSE)
  <1>1. c \in DOMAIN Packs /\ toks[r.i] = w
    BY SpellingTables, HoldsOne
  <1>2. Past(In(c)!RunStep(toks, r), r, total, 0, FALSE, FALSE, FALSE)
    BY <1>1, StepScaleBig
  <1> QED BY <1>1, <1>2, Onto

\* Numbers below a thousand, in English, with "and" or without.
LEMMA EnglishUnder1000 ==
    ASSUME NEW n \in 0 .. 999, NEW and \in {<<>>, <<"and">>}
    PROVE  Valued("en", EnglishBelow1000(n, and)) /\ Groups("en", EnglishBelow1000(n, and), n)
  <1> DEFINE t == In("en")!T
             w == EnglishBelow1000(n, and)
             h == n \div 100
             m == n % 100
             front == EnglishBelow100(h)
             back == and \o EnglishBelow100(m)
             rest == IF m = 0 THEN <<>> ELSE back
  <1>0. "en" \in {"en", "es"} /\ "en" \in DOMAIN Packs
    BY SpellingTables
  <1>1. n \in Nat /\ m \in 0 .. 99 /\ h \in Nat /\ n = 100 * h + m
    BY Divided
  <1>2. CASE n < 100
    <2>1. w = EnglishBelow100(n) /\ n \in 0 .. 99
      BY <1>2 DEF EnglishBelow1000
    <2>2. Valued("en", w) /\ Adds("en", w, n)
      BY <2>1, EnglishUnder100
    <2> HIDE DEF w
    <2>3. ASSUME NEW toks \in Words, NEW r, Open(r), ~ r.hund, r.cur = 0, Holds(toks, r.i, w)
          PROVE  \E q : Leads("en", toks, r, q) /\ q.i = r.i + Len(w) /\ q.total = r.total /\ q.cur = n
      <3>1. PICK q : Leads("en", toks, r, q) /\ Stands(q, r.i + Len(w), r.total, r.cur + n, r.hund)
        BY <2>2, <2>3 DEF Adds
      <3> QED BY <1>1, <2>3, <3>1 DEF Stands
    <2> QED BY <2>2, <2>3 DEF Groups, w
  <1>3. CASE n >= 100
    <2>1. h \in 1 .. 9 /\ h \in 0 .. 99
      BY <1>1, <1>3
    <2>2. w = (front \o <<"hundred">>) \o rest
      <3>1. ~ (n < 100)
        BY <1>1, <1>3
      <3> QED BY <3>1, Zenon DEF EnglishBelow1000
    <2>3. "hundred" \in t.ScaleHundred /\ and \in Connectors("en")
      BY SpellingTables DEF SpellsEnglish, Connectors
    <2>4. Valued("en", front) /\ Adds("en", front, h)
      BY <2>1, EnglishUnder100
    <2>5. Valued("en", EnglishBelow100(m)) /\ Adds("en", EnglishBelow100(m), m)
      BY <1>1, EnglishUnder100
    <2> HIDE DEF h, m, front, w
    <2>6. Spelled("en", <<"hundred">>) /\ <<"hundred">> \in Seq(Numerals(t))
      <3>1. "hundred" \in Roles(t)[4] /\ 4 \in 1 .. 9
        BY <1>0, <2>3, RolesOf
      <3>2. "hundred" \in Numerals(t)
        BY <1>0, <3>1, OneRole
      <3> QED BY <3>2 DEF Spelled
    <2>7. /\ Spelled("en", front) /\ Valued("en", front \o <<"hundred">>)
          /\ Len(front \o <<"hundred">>) = Len(front) + 1
      <3> DEFINE v == <<"hundred">>
      <3>1. Len(v) = 1 /\ Spelled("en", front) /\ v \in Seq(Numerals(t))
        BY <2>4, <2>6 DEF Valued
      <3> HIDE DEF v
      <3>2. Valued("en", front \o v) /\ Len(front \o v) = Len(front) + Len(v)
        BY <2>4, <3>1, SpelledBoth
      <3> QED BY <3>1, <3>2 DEF v
    <2>8. back \in Seq(Numerals(t))
      <3>1. EnglishBelow100(m) \in Seq(Numerals(t)) /\ and \in Seq(Numerals(t))
        BY <1>0, <2>3, <2>5, SpelledWords DEF Valued, Spelled
      <3> QED BY <3>1, ConcatProperties
    <2> HIDE DEF back
    <2>9. rest \in Seq(Numerals(t))
      BY <2>8
    <2>10. Valued("en", w) /\ Len(w) = (Len(front) + 1) + Len(rest)
      <3> DEFINE u == front \o <<"hundred">>
      <3>1. Spelled("en", u) /\ Valued("en", u) /\ Len(u) = Len(front) + 1 /\ w = u \o rest
        BY <2>2, <2>7 DEF Valued
      <3> HIDE DEF u, rest
      <3>2. rest \in Seq(Numerals(t))
        BY <2>9
      <3>3. Valued("en", u \o rest) /\ Len(u \o rest) = Len(u) + Len(rest)
        BY <3>1, <3>2, SpelledBoth
      <3> QED BY <3>1, <3>3
    <2>11. ASSUME NEW toks \in Words, NEW r, Open(r), ~ r.hund, r.cur = 0, Holds(toks, r.i, w)
           PROVE  \E q : Leads("en", toks, r, q) /\ q.i = r.i + Len(w) /\ q.total = r.total /\ q.cur = n
      <3>0. /\ front \in Words /\ <<"hundred">> \in Words /\ front \o <<"hundred">> \in Words
            /\ rest \in Words /\ Len(front) \in Nat /\ Len(rest) \in Nat /\ r.i \in Nat
        <4>1. r.i \in Nat
          BY <2>11 DEF Open, RunStates
        <4>2. Spelled("en", front \o <<"hundred">>)
          BY <2>7 DEF Valued
        <4>3. rest \in Words
          BY <1>0, <2>9, SpelledWords
        <4>4. Len(rest) \in Nat
          BY <4>3 DEF Words
        <4> QED BY <1>0, <2>6, <2>7, <4>1, <4>2, <4>3, <4>4, SpelledWords
      <3>1. /\ Holds(toks, r.i, front) /\ Holds(toks, r.i + Len(front), <<"hundred">>)
            /\ Holds(toks, r.i + (Len(front) + 1), rest)
        <4>1. Holds(toks, r.i, front \o <<"hundred">>)
              /\ Holds(toks, r.i + Len(front \o <<"hundred">>), rest)
          BY <2>2, <2>11, <3>0, HoldsBoth, ZenonT(40)
        <4>2. Holds(toks, r.i, front) /\ Holds(toks, r.i + Len(front), <<"hundred">>)
          BY <3>0, <4>1, HoldsBoth
        <4> QED BY <2>7, <4>1, <4>2
      <3>2. PICK p : Leads("en", toks, r, p) /\ Stands(p, r.i + Len(front), r.total, r.cur + h, r.hund)
        BY <2>4, <2>11, <3>1 DEF Adds
      <3>3. p \in RunStates /\ ~ p.done /\ ~ p.hund /\ p.i = r.i + Len(front) /\ p.cur = h /\ p.total = r.total
        BY <2>1, <2>11, <3>2 DEF Leads, Stands
      <3>4. PICK q : /\ Leads("en", toks, p, q)
                     /\ Past(q, p, p.total, 100 * In("en")!OneOr(p.cur), FALSE, FALSE, TRUE)
        <4>1. Holds(toks, p.i, <<"hundred">>)
          BY <3>1, <3>3
        <4> DEFINE x == "hundred"
        <4>2. x \in t.ScaleHundred /\ Holds(toks, p.i, <<x>>)
          BY <2>3, <4>1
        <4> HIDE DEF x
        <4> QED BY <1>0, <3>3, <4>2, HundredSaid
      <3>5. /\ Leads("en", toks, r, q) /\ Open(q) /\ q.started
            /\ q.i = r.i + (Len(front) + 1) /\ q.total = r.total /\ q.cur = 100 * h
        <4>1. Leads("en", toks, r, q)
          BY <3>2, <3>4, LedOn
        <4>2. In("en")!OneOr(p.cur) = h
          BY <2>1, <3>3 DEF In!OneOr
        <4>3. q.i = p.i + 1 /\ q.total = p.total /\ q.cur = 100 * h
          BY <3>4, <4>2 DEF Past
        <4> QED BY <3>0, <3>3, <3>4, <4>1, <4>3 DEF Past, Open, Leads
      <3>6. CASE m = 0
        <4>1. Len(rest) = 0
          BY <3>6
        <4> QED BY <1>1, <2>10, <3>0, <3>5, <3>6, <4>1
      <3>7. CASE m # 0
        <4>1. rest = and \o EnglishBelow100(m)
          BY <3>7 DEF back
        <4>2. Holds(toks, q.i, and \o EnglishBelow100(m))
          BY <3>1, <3>5, <4>1
        <4>3. m \in Int
          BY <1>1 DEF m
        <4>4. PICK s : /\ Leads("en", toks, q, s)
                       /\ Stands(s, q.i + Len(and \o EnglishBelow100(m)), q.total, q.cur + m, q.hund)
          BY <1>0, <2>3, <2>5, <3>5, <4>2, <4>3, RestAdds DEF Valued
        <4>5. Leads("en", toks, r, s)
          BY <3>5, <4>4, LedOn
        <4>6. s.i = r.i + Len(w) /\ s.total = r.total /\ s.cur = n
          <5>1. /\ s.i = q.i + Len(rest) /\ s.total = q.total /\ s.cur = q.cur + m
            BY <4>1, <4>4 DEF Stands
          <5> HIDE DEF rest
          <5>2. q.i = r.i + (Len(front) + 1) /\ q.total = r.total /\ q.cur = 100 * h
            BY <3>5
          <5> QED BY <1>1, <2>10, <3>0, <5>1, <5>2
        <4> QED BY <4>5, <4>6
      <3> QED BY <3>6, <3>7
    <2> QED BY <2>10, <2>11 DEF Groups, w
  <1> QED BY <1>1, <1>2, <1>3

\* The words w, from the beginning of a run, are the number n.
Start(i) == Begun(i, 0, FALSE)
Makes(c, w, n) ==
    \A toks \in Words : \A i : Holds(toks, i, w) =>
        \E q : Leads(c, toks, Start(i), q) /\ q.i = i + Len(w) /\ q.total + q.cur = n

LEMMA BegunOpen ==
    ASSUME NEW i \in Nat
    PROVE  LET r == Start(i) IN
           /\ Open(r) /\ ~ r.hund /\ r.cur = 0 /\ r.total = 0 /\ ~ r.started /\ r.i = i
           /\ r \in RunStates /\ ~ r.done
  BY DEF Start, Begun, Open, RunStates

\* A group is a number.
LEMMA GroupMakes ==
    ASSUME NEW c, NEW w, NEW n \in Nat, Groups(c, w, n)
    PROVE  Makes(c, w, n)
  <1> SUFFICES ASSUME NEW toks \in Words, NEW i, Holds(toks, i, w)
               PROVE  \E q : /\ Leads(c, toks, Start(i), q)
                             /\ q.i = i + Len(w) /\ q.total + q.cur = n
    BY DEF Makes
  <1> DEFINE r == Start(i)
  <1>1. i \in Nat
    BY DEF Holds
  <1>2. Open(r) /\ ~ r.hund /\ r.cur = 0 /\ r.total = 0 /\ r.i = i
    BY <1>1, BegunOpen
  <1> HIDE DEF r
  <1>3. PICK q : Leads(c, toks, r, q) /\ q.i = r.i + Len(w) /\ q.total = r.total /\ q.cur = n
    BY <1>2 DEF Groups
  <1> QED BY <1>2, <1>3 DEF r

\* What is left of a number after its thousands: nothing, or one more group.
RestOf(c, rest, m) ==
    \/ m = 0 /\ rest = <<>>
    \/ \E mid \in Connectors(c), w \in Words :
          /\ rest = mid \o w /\ Spelled(c, w) /\ (mid # <<>> => Valued(c, w)) /\ Groups(c, w, m)

LEMMA RestGroups ==
    ASSUME NEW c \in {"en", "es"}, NEW rest, NEW m \in Nat, RestOf(c, rest, m),
           NEW toks \in Words, NEW r, Open(r), r.started, ~ r.hund, r.cur = 0, Holds(toks, r.i, rest)
    PROVE  \E q : /\ Leads(c, toks, r, q)
                  /\ q.i = r.i + Len(rest) /\ q.total = r.total /\ q.cur = m
  <1>0. r \in RunStates /\ ~ r.done /\ r.i \in Nat
    BY DEF Open, RunStates
  <1>1. CASE m = 0 /\ rest = <<>>
    <2>1. Len(rest) = 0
      BY <1>1
    <2> QED BY <1>0, <1>1, <2>1 DEF Leads
  <1>2. ASSUME NEW mid \in Connectors(c), NEW w \in Words, rest = mid \o w, Spelled(c, w),
               mid # <<>> => Valued(c, w), Groups(c, w, m)
        PROVE  \E q : /\ Leads(c, toks, r, q)
                      /\ q.i = r.i + Len(rest) /\ q.total = r.total /\ q.cur = m
    <2>1. /\ w # <<>> /\ mid \in Words
          /\ mid \in Seq(Numerals(In(c)!T)) /\ (mid # <<>> => Spelled(c, mid))
      BY <1>2, SpelledWords
    <2>2. CASE mid = <<>>
      <3>1. mid \o w = w
        BY <2>2, ConcatEmptySeq DEF Words
      <3> QED BY <1>2, <3>1 DEF Groups
    <2>3. CASE mid # <<>>
      <3>1. PICK p : /\ Leads(c, toks, r, p) /\ Stands(p, r.i + Len(mid), r.total, r.cur, r.hund)
                     /\ (p.ones <=> r.ones) /\ (p.tens <=> r.tens) /\ Holds(toks, p.i, w)
        BY <1>0, <1>2, <2>1, <2>3, Connected DEF Valued
      <3>2. Open(p) /\ ~ p.hund /\ p.cur = 0
        BY <3>1 DEF Open, Leads, Stands
      <3>3. PICK q : Leads(c, toks, p, q) /\ q.i = p.i + Len(w) /\ q.total = p.total /\ q.cur = m
        BY <1>2, <3>1, <3>2 DEF Groups
      <3>4. Leads(c, toks, r, q)
        BY <3>1, <3>3, LedOn
      <3>5. Len(mid \o w) = Len(mid) + Len(w) /\ Len(mid) \in Nat /\ Len(w) \in Nat
        BY <2>1, ConcatProperties DEF Words
      <3> QED BY <1>0, <1>2, <3>1, <3>3, <3>4, <3>5 DEF Stands
    <2> QED BY <2>2, <2>3
  <1> QED BY <1>1, <1>2 DEF RestOf

\* What stands before the word for a thousand: nothing for one, or a group.
FrontOf(c, front, k) ==
    \/ k = 1 /\ front = <<>>
    \/ Spelled(c, front) /\ Groups(c, front, k)

\* Thousands, and what is left.
LEMMA ThousandsMake ==
    ASSUME NEW c \in {"en", "es"}, NEW k \in Nat \ {0}, NEW m \in Nat,
           NEW front, FrontOf(c, front, k),
           NEW x \in DOMAIN In(c)!T.ScaleBig, In(c)!T.ScaleBig[x] = 1000,
           NEW rest \in Seq(Numerals(In(c)!T)), RestOf(c, rest, m)
    PROVE  LET w == (front \o <<x>>) \o rest
           IN  Spelled(c, w) /\ Makes(c, w, 1000 * k + m)
  <1> DEFINE u == front \o <<x>>
             w == u \o rest
  <1>0. c \in DOMAIN Packs
    BY SpellingTables
  <1>1. <<x>> \in Seq(Numerals(In(c)!T)) /\ Spelled(c, <<x>>) /\ Len(<<x>>) = 1
    <2>1. x \in Roles(In(c)!T)[5] /\ 5 \in 1 .. 9
      BY <1>0, RolesOf
    <2>2. x \in Numerals(In(c)!T)
      BY <1>0, <2>1, OneRole
    <2> QED BY <2>2 DEF Spelled
  <1>2. /\ front \in Seq(Numerals(In(c)!T)) /\ front \in Words /\ Len(front) \in Nat
        /\ Spelled(c, u) /\ Len(u) = Len(front) + 1
    <2>1. CASE k = 1 /\ front = <<>>
      <3>1. u = <<x>>
        BY <1>1, <2>1, ConcatEmptySeq
      <3>2. <<>> \in Words /\ Len(<<>>) = 0
        BY DEF Words
      <3> HIDE DEF u
      <3> QED BY <1>1, <2>1, <3>1, <3>2
    <2>2. CASE Spelled(c, front)
      <3> DEFINE v == <<x>>
      <3>0. v \in Seq(Numerals(In(c)!T)) /\ Len(v) = 1
        BY <1>1
      <3> HIDE DEF v, u, w
      <3>1. Spelled(c, front \o v) /\ Len(front \o v) = Len(front) + Len(v)
        <4>1. Spelled(c, front) /\ v \in Seq(Numerals(In(c)!T))
          BY <2>2, <3>0
        <4> QED BY <4>1, SpelledBoth, Zenon
      <3>2. front \in Words /\ Len(front) \in Nat /\ front \in Seq(Numerals(In(c)!T))
        BY <2>2, SpelledWords DEF Spelled
      <3> QED BY <3>0, <3>1, <3>2 DEF v, u
    <2> QED BY <2>1, <2>2 DEF FrontOf
  <1>3. /\ <<x>> \in Words /\ u \in Words /\ rest \in Words /\ Len(rest) \in Nat
    <2>1. <<x>> \in Words /\ u \in Words /\ rest \in Words
      BY <1>1, <1>2, SpelledWords
    <2> QED BY <2>1 DEF Words
  <1>4. Spelled(c, w) /\ Len(w) = (Len(front) + 1) + Len(rest)
    <2> HIDE DEF u
    <2> QED BY <1>2, SpelledBoth
  <1>5. ASSUME NEW toks \in Words, NEW i, Holds(toks, i, w)
        PROVE  \E q : /\ Leads(c, toks, Start(i), q)
                      /\ q.i = i + Len(w) /\ q.total + q.cur = 1000 * k + m
    <2> DEFINE r == Start(i)
    <2>0. i \in Nat
      BY <1>5 DEF Holds
    <2>1. /\ Open(r) /\ ~ r.hund /\ r.cur = 0 /\ r.total = 0 /\ ~ r.started /\ r.i = i /\ r \in RunStates
          /\ ~ r.done
      BY <2>0, BegunOpen
    <2> HIDE DEF r
    <2>2. /\ Holds(toks, i, front) /\ Holds(toks, i + Len(front), <<x>>)
          /\ Holds(toks, i + (Len(front) + 1), rest)
      <3>1. Holds(toks, i, u) /\ Holds(toks, i + Len(u), rest)
        <4> HIDE DEF u
        <4> QED BY <1>3, <1>5, HoldsBoth
      <3>2. Holds(toks, i, front) /\ Holds(toks, i + Len(front), <<x>>)
        BY <1>2, <1>3, <3>1, HoldsBoth
      <3> QED BY <1>2, <3>1, <3>2
    <2> HIDE DEF u, w
    <2>3. PICK p : /\ p \in RunStates /\ ~ p.done /\ p.total = 0
                   /\ In(c)!Run(toks, r) = In(c)!Run(toks, p)
                   /\ p.i = i + Len(front) /\ In(c)!OneOr(p.cur) = k /\ (p.cur # 0 \/ ~ p.started)
      <3>1. CASE k = 1 /\ front = <<>>
        <4>1. Len(front) = 0 /\ In(c)!OneOr(r.cur) = 1
          BY <2>1, <3>1 DEF In!OneOr
        <4> QED BY <2>0, <2>1, <3>1, <4>1
      <3>2. CASE Groups(c, front, k)
        <4>1. PICK p : Leads(c, toks, r, p) /\ p.i = r.i + Len(front) /\ p.total = r.total /\ p.cur = k
          BY <2>1, <2>2, <3>2 DEF Groups
        <4>2. In(c)!OneOr(p.cur) = k /\ p.cur # 0
          BY <4>1 DEF In!OneOr
        <4> QED BY <2>1, <4>1, <4>2 DEF Leads
      <3> QED BY <3>1, <3>2 DEF FrontOf
    <2> DEFINE total == 1000 * k
    <2>4. total = p.total + In(c)!OneOr(p.cur) * In(c)!T.ScaleBig[x]
      BY <2>3
    <2> HIDE DEF total
    <2>5. PICK q : Leads(c, toks, p, q) /\ Past(q, p, total, 0, FALSE, FALSE, FALSE)
      <3>1. Holds(toks, p.i, <<x>>) /\ p \in RunStates /\ ~ p.done
        BY <2>2, <2>3
      <3>2. \A f \in RunStates :
                ~ f.done /\ (f.cur # 0 \/ ~ f.started) /\ Holds(toks, f.i, <<x>>) =>
                    \A v : v = f.total + In(c)!OneOr(f.cur) * In(c)!T.ScaleBig[x] =>
                        \E q : Leads(c, toks, f, q) /\ Past(q, f, v, 0, FALSE, FALSE, FALSE)
        BY ThousandSaid, ZenonT(40)
      <3>3. p.cur # 0 \/ ~ p.started
        BY <2>3
      <3> QED BY ONLY <2>4, <3>1, <3>2, <3>3
    <2>6. /\ Leads(c, toks, r, q) /\ Open(q) /\ q.started /\ ~ q.hund /\ q.cur = 0
          /\ q.i = i + (Len(front) + 1) /\ q.total = total
      <3>1. q.i = p.i + 1
        BY <2>5 DEF Past
      <3> QED BY <1>2, <2>0, <2>3, <2>5, <3>1 DEF Past, Leads, Open
    <2>7. PICK s : /\ Leads(c, toks, q, s)
                   /\ s.i = q.i + Len(rest) /\ s.total = q.total /\ s.cur = m
      BY <2>2, <2>6, RestGroups
    <2>8. Leads(c, toks, r, s)
      BY <2>6, <2>7, LedOn
    <2>9. s.i = i + Len(w) /\ s.total + s.cur = 1000 * k + m
      BY <1>2, <1>3, <1>4, <2>0, <2>6, <2>7 DEF total
    <2> QED BY <2>8, <2>9 DEF r
  <1>6. Makes(c, w, 1000 * k + m)
    <2> HIDE DEF w
    <2> QED BY <1>5 DEF Makes
  <1> QED BY <1>4, <1>6

\* Numbers below a million, in English, with "and" or without.
LEMMA EnglishMakes ==
    ASSUME NEW n \in Nat, n \div 1000 < 1000, NEW and \in {<<>>, <<"and">>}
    PROVE  Spelled("en", InEnglish(n, and)) /\ Makes("en", InEnglish(n, and), n)
  <1> DEFINE t == In("en")!T
             w == InEnglish(n, and)
             k == n \div 1000
             m == n % 1000
             front == EnglishBelow1000(k, <<>>)
             back == EnglishBelow1000(m, and)
             rest == IF m = 0 THEN <<>> ELSE and \o back
  <1>0. "en" \in {"en", "es"}
    OBVIOUS
  <1>1. n \in Nat /\ m \in 0 .. 999 /\ k \in Nat /\ n = 1000 * k + m
    BY Divided
  <1>2. CASE n < 1000
    <2>1. w = EnglishBelow1000(n, and) /\ n \in 0 .. 999
      BY <1>1, <1>2 DEF InEnglish
    <2>2. Valued("en", w) /\ Groups("en", w, n)
      BY <2>1, EnglishUnder1000, ZenonT(40)
    <2> HIDE DEF w
    <2> QED BY <1>1, <2>2, GroupMakes DEF Valued, w
  <1>3. CASE n >= 1000
    <2>1. k \in 1 .. 999
      BY <1>1, <1>3
    <2>2. w = (front \o <<"thousand">>) \o rest
      <3>1. ~ (n < 1000)
        BY <1>1, <1>3
      <3> QED BY <3>1, ZenonT(40) DEF InEnglish
    <2>3. /\ "thousand" \in DOMAIN t.ScaleBig /\ t.ScaleBig["thousand"] = 1000
          /\ <<>> \in Connectors("en") /\ and \in Connectors("en")
      BY SpellingTables DEF SpellsEnglish, Connectors
    <2>4. Valued("en", front) /\ Groups("en", front, k)
      <3>1. k \in 0 .. 999 /\ <<>> \in {<<>>, <<"and">>}
        BY <2>1
      <3> HIDE DEF k
      <3> QED BY <3>1, EnglishUnder1000, ZenonT(40)
    <2>5. Valued("en", back) /\ Groups("en", back, m)
      <3>1. m \in 0 .. 999
        BY <1>1
      <3> HIDE DEF m
      <3> QED BY <3>1, EnglishUnder1000, ZenonT(40)
    <2> HIDE DEF k, m, front, back, w
    <2>6. back \in Words /\ back \in Seq(Numerals(t)) /\ and \in Seq(Numerals(t)) /\ Spelled("en", back)
      BY <1>0, <2>3, <2>5, SpelledWords DEF Valued, Spelled
    <2>7. rest \in Seq(Numerals(t))
      <3>1. and \o back \in Seq(Numerals(t))
        BY <2>6, ConcatProperties
      <3> QED BY <3>1
    <2>8. RestOf("en", rest, m)
      <3>1. CASE m = 0
        BY <3>1 DEF RestOf
      <3>2. CASE m # 0
        BY <2>3, <2>5, <2>6, <3>2 DEF RestOf
      <3> QED BY <3>1, <3>2
    <2> HIDE DEF rest
    <2>9. k \in Nat \ {0} /\ m \in Nat /\ Spelled("en", front)
      BY <1>1, <2>1, <2>4 DEF Valued
    <2>10. Spelled("en", w) /\ Makes("en", w, 1000 * k + m)
      <3> DEFINE x == "thousand"
      <3>1. x \in DOMAIN t.ScaleBig /\ t.ScaleBig[x] = 1000 /\ w = (front \o <<x>>) \o rest
        BY <2>2, <2>3
      <3> HIDE DEF x
      <3>2. FrontOf("en", front, k)
        BY <2>4, <2>9 DEF FrontOf
      <3> QED BY <1>0, <2>7, <2>8, <2>9, <3>1, <3>2, ThousandsMake
    <2> QED BY <1>1, <2>10 DEF w
  <1> QED BY <1>1, <1>2, <1>3

\* Numbers below a hundred, in Spanish.
LEMMA SpanishUnder100 ==
    ASSUME NEW n \in 0 .. 99
    PROVE  Spelled("es", SpanishBelow100(n)) /\ Adds("es", SpanishBelow100(n), n)
  <1> DEFINE t == In("es")!T
             w == SpanishBelow100(n)
             tens == WordFor(t.Tens, n - (n % 10))
             one == WordFor(t.Ones, n)
             ones == WordFor(t.Ones, n % 10)
  <1>0. "es" \in {"en", "es"} /\ "es" \in DOMAIN Packs
    BY SpellingTables
  <1>1. n \in Nat /\ n % 10 \in 0 .. 9 /\ n \div 10 \in Nat /\ n = 10 * (n \div 10) + (n % 10)
    BY Divided
  <1>2. CASE n < 30 /\ n # 20
    <2>1. one \in DOMAIN t.Ones /\ t.Ones[one] = n
      <3>1. n \in (0 .. 29) \ {20}
        BY <1>2
      <3>2. \E x \in DOMAIN t.Ones : t.Ones[x] = n
        BY <3>1, SpellingTables DEF SpellsSpanish
      <3> QED BY <3>2, WordForIs
    <2>2. w = <<one>>
      BY <1>2 DEF SpanishBelow100
    <2> HIDE DEF one, w
    <2>3. Spelled("es", w)
      BY <1>0, <2>1, <2>2, SpelledOne DEF In!Small, Valued
    <2>4. ASSUME NEW toks \in Words, NEW r, Open(r), Holds(toks, r.i, w)
          PROVE  \E q : Leads("es", toks, r, q) /\ Stands(q, r.i + Len(w), r.total, r.cur + n, r.hund)
      <3>1. PICK q : Leads("es", toks, r, q) /\ Past(q, r, r.total, r.cur + t.Ones[one], TRUE, r.tens, r.hund)
        BY <1>0, <2>1, <2>2, <2>4, OnesSaid DEF Open
      <3>2. Len(w) = 1
        BY <2>2
      <3> QED BY <2>1, <3>1, <3>2 DEF Past, Stands
    <2> QED BY <2>3, <2>4 DEF w, Adds
  <1>3. CASE ~ (n < 30 /\ n # 20)
    <2>1. tens \in DOMAIN t.Tens /\ t.Tens[tens] = n - (n % 10)
      <3>1. n - (n % 10) = 10 * (n \div 10) /\ n \div 10 \in 2 .. 9
        BY <1>1, <1>3
      <3>2. \E x \in DOMAIN t.Tens : t.Tens[x] = 10 * (n \div 10)
        BY <1>0, <3>1, SpellingTables DEF SpellsNumbers
      <3> QED BY <3>1, <3>2, WordForIs
    <2>2. ones \in DOMAIN t.Ones /\ t.Ones[ones] = n % 10
      <3>1. n % 10 \in (0 .. 29) \ {20}
        BY <1>1
      <3>2. \E x \in DOMAIN t.Ones : t.Ones[x] = n % 10
        BY <3>1, SpellingTables DEF SpellsSpanish
      <3> QED BY <3>2, WordForIs
    <2>3. w = <<tens>> \o (IF n % 10 = 0 THEN <<>> ELSE <<"y">> \o <<ones>>)
      BY <1>3, Zenon DEF SpanishBelow100
    <2> HIDE DEF ones, tens, w
    <2>4. Spelled("es", <<tens>>) /\ Spelled("es", <<ones>>) /\ "y" \in t.NumConnectors
      BY <1>0, <2>1, <2>2, SpelledOne, SpellingTables DEF In!Small, Valued, SpellsSpanish
    <2>5. CASE n % 10 = 0
      <3>1. w = <<tens>>
        BY <2>3, <2>5
      <3>2. ASSUME NEW toks \in Words, NEW r, Open(r), Holds(toks, r.i, w)
            PROVE  \E q : Leads("es", toks, r, q) /\ Stands(q, r.i + Len(w), r.total, r.cur + n, r.hund)
        <4>1. PICK q : /\ Leads("es", toks, r, q)
                       /\ Past(q, r, r.total, r.cur + t.Tens[tens], r.ones, TRUE, r.hund)
          BY <1>0, <2>1, <3>1, <3>2, TensSaid
        <4>2. Len(w) = 1 /\ t.Tens[tens] = n
          BY <1>1, <2>1, <2>5, <3>1
        <4> QED BY <4>1, <4>2 DEF Past, Stands
      <3> QED BY <2>4, <3>1, <3>2 DEF w, Adds
    <2>6. CASE n % 10 # 0
      <3> DEFINE mid == <<"y">>
                 u == mid \o <<ones>>
      <3>1. w = <<tens>> \o u
        BY <2>3, <2>6
      <3>2. mid \in Connectors("es") /\ Spelled("es", mid)
        <4>1. mid \in Connectors("es") /\ mid # <<>>
          BY <2>4 DEF Connectors
        <4> QED BY <1>0, <4>1, SpelledWords
      <3> HIDE DEF mid
      <3>3. Spelled("es", u) /\ u \in Seq(Numerals(t)) /\ u \in Words
        <4> DEFINE v == <<ones>>
        <4>1. v \in Seq(Numerals(t))
          BY <2>4 DEF Spelled
        <4> HIDE DEF v
        <4>2. Spelled("es", mid \o v)
          BY <3>2, <4>1, SpelledBoth
        <4>3. mid \o v \in Words
          BY <1>0, <4>2, SpelledWords
        <4> QED BY <4>2, <4>3 DEF v, Spelled
      <3>4. Spelled("es", w)
        <4> DEFINE v == <<tens>>
        <4> HIDE DEF u, v
        <4>1. Spelled("es", v \o u)
          BY <2>4, <3>3, SpelledBoth DEF v
        <4> QED BY <3>1, <4>1 DEF v
      <3>5. ASSUME NEW toks \in Words, NEW r, Open(r), Holds(toks, r.i, w)
            PROVE  \E q : Leads("es", toks, r, q) /\ Stands(q, r.i + Len(w), r.total, r.cur + n, r.hund)
        <4>1. PICK q : /\ Leads("es", toks, r, q)
                       /\ Stands(q, r.i + Len(w), r.total, r.cur + (t.Tens[tens] + t.Ones[ones]), r.hund)
          BY <1>0, <2>1, <2>2, <3>1, <3>2, <3>3, <3>5, TensAndOnes
        <4>2. t.Tens[tens] + t.Ones[ones] = n
          BY <1>1, <2>1, <2>2
        <4> QED BY <4>1, <4>2
      <3> QED BY <3>4, <3>5 DEF w, Adds
    <2> QED BY <2>5, <2>6
  <1> QED BY <1>2, <1>3

\* The words w are h hundreds, and the group stays open behind them.
Heads(c, w, h) ==
    \A toks \in Words : \A r : Open(r) /\ ~ r.hund /\ r.cur = 0 /\ Holds(toks, r.i, w) =>
        \E q : /\ Leads(c, toks, r, q) /\ Open(q)
               /\ q.i = r.i + Len(w) /\ q.total = r.total /\ q.cur = h

LEMMA HeadAndRest ==
    ASSUME NEW c \in {"en", "es"}, NEW w, NEW h \in Nat, Spelled(c, w), Heads(c, w, h),
           NEW m \in Nat, NEW rest \in Seq(Numerals(In(c)!T)),
           (m = 0 /\ rest = <<>>) \/ Adds(c, rest, m)
    PROVE  Spelled(c, w \o rest) /\ Groups(c, w \o rest, h + m)
  <1> DEFINE u == w \o rest
  <1>1. Spelled(c, u) /\ Len(u) = Len(w) + Len(rest)
    BY SpelledBoth
  <1>2. w \in Words /\ rest \in Words /\ Len(w) \in Nat /\ Len(rest) \in Nat
    <2>1. w \in Words /\ rest \in Words
      BY SpelledWords
    <2> QED BY <2>1 DEF Words
  <1>3. ASSUME NEW toks \in Words, NEW r, Open(r), ~ r.hund, r.cur = 0, Holds(toks, r.i, u)
        PROVE  \E q : Leads(c, toks, r, q) /\ q.i = r.i + Len(u) /\ q.total = r.total /\ q.cur = h + m
    <2>0. r.i \in Nat
      BY <1>3 DEF Open, RunStates
    <2>1. Holds(toks, r.i, w) /\ Holds(toks, r.i + Len(w), rest)
      BY <1>2, <1>3, HoldsBoth
    <2>2. PICK p : /\ Leads(c, toks, r, p) /\ Open(p)
                   /\ p.i = r.i + Len(w) /\ p.total = r.total /\ p.cur = h
      BY <1>3, <2>1 DEF Heads
    <2> HIDE DEF u
    <2>3. CASE m = 0 /\ rest = <<>>
      <3>1. Len(rest) = 0
        BY <2>3
      <3> QED BY <1>1, <1>2, <2>0, <2>2, <2>3, <3>1
    <2>4. CASE Adds(c, rest, m)
      <3>1. PICK q : Leads(c, toks, p, q) /\ Stands(q, p.i + Len(rest), p.total, p.cur + m, p.hund)
        BY <2>1, <2>2, <2>4 DEF Adds
      <3>2. Leads(c, toks, r, q)
        BY <2>2, <3>1, LedOn
      <3>3. q.i = r.i + Len(u) /\ q.total = r.total /\ q.cur = h + m
        BY <1>1, <1>2, <2>0, <2>2, <3>1 DEF Stands
      <3> QED BY <3>2, <3>3
    <2> QED BY <2>3, <2>4
  <1> QED BY <1>1, <1>3 DEF Groups, u

\* A hundred, and two to nine hundreds.
LEMMA HundredHeads ==
    ASSUME NEW c \in {"en", "es"}, NEW x, NEW h \in Int,
           \/ x \in In(c)!T.ScaleHundred /\ h = 100
           \/ x \in DOMAIN In(c)!T.Hundreds /\ In(c)!T.Hundreds[x] = h
    PROVE  Spelled(c, <<x>>) /\ Heads(c, <<x>>, h)
  <1>0. c \in DOMAIN Packs
    BY SpellingTables
  <1>1. Spelled(c, <<x>>) /\ Len(<<x>>) = 1
    <2>1. 3 \in 1 .. 9 /\ 4 \in 1 .. 9 /\ (x \in Roles(In(c)!T)[3] \/ x \in Roles(In(c)!T)[4])
      BY <1>0, RolesOf
    <2>2. x \in Numerals(In(c)!T)
      BY <1>0, <2>1, OneRole
    <2> QED BY <2>2 DEF Spelled
  <1>2. ASSUME NEW toks \in Words, NEW r, Open(r), ~ r.hund, r.cur = 0, Holds(toks, r.i, <<x>>)
        PROVE  \E q : /\ Leads(c, toks, r, q) /\ Open(q)
                      /\ q.i = r.i + 1 /\ q.total = r.total /\ q.cur = h
    <2>1. r \in RunStates /\ ~ r.done /\ ~ r.ones /\ ~ r.tens /\ toks[r.i] = x
      BY <1>2, HoldsOne DEF Open
    <2>2. Past(In(c)!RunStep(toks, r), r, r.total, h, FALSE, FALSE, TRUE)
      <3>1. CASE x \in In(c)!T.ScaleHundred /\ h = 100
        <4>1. 100 * In(c)!OneOr(r.cur) = h
          BY <1>2, <3>1 DEF In!OneOr
        <4>2. Past(In(c)!RunStep(toks, r), r, r.total, 100 * In(c)!OneOr(r.cur), FALSE, FALSE, TRUE)
          BY <1>0, <1>2, <2>1, <3>1, StepScaleHundred
        <4> QED BY <4>1, <4>2
      <3>2. CASE x \in DOMAIN In(c)!T.Hundreds /\ In(c)!T.Hundreds[x] = h
        <4>1. r.cur + In(c)!T.Hundreds[x] = h
          BY <1>2, <3>2
        <4>2. Past(In(c)!RunStep(toks, r), r, r.total, r.cur + In(c)!T.Hundreds[x], r.ones, r.tens, TRUE)
          BY <1>0, <1>2, <2>1, <3>2, StepHundreds
        <4> QED BY <2>1, <4>1, <4>2 DEF Past
      <3> QED BY <3>1, <3>2
    <2>3. PICK q : Leads(c, toks, r, q) /\ Past(q, r, r.total, h, FALSE, FALSE, TRUE)
      BY <1>0, <1>2, <2>1, <2>2, Onto
    <2> QED BY <2>3 DEF Past, Open
  <1> QED BY <1>1, <1>2 DEF Heads

\* Numbers below a thousand, in Spanish.
LEMMA SpanishUnder1000 ==
    ASSUME NEW n \in 0 .. 999
    PROVE  Spelled("es", SpanishBelow1000(n)) /\ Groups("es", SpanishBelow1000(n), n)
  <1> DEFINE t == In("es")!T
             w == SpanishBelow1000(n)
             h == n - (n % 100)
             m == n % 100
             below == SpanishBelow100(m)
             rest == IF m = 0 THEN <<>> ELSE below
             hundreds == WordFor(t.Hundreds, h)
             x == IF n = 100 THEN "cien" ELSE IF n < 200 THEN "ciento" ELSE hundreds
  <1>0. "es" \in {"en", "es"} /\ "es" \in DOMAIN Packs
    BY SpellingTables
  <1>1. n \in Nat /\ m \in 0 .. 99 /\ h \in Nat /\ n = h + m /\ n \div 100 \in Nat /\ h = 100 * (n \div 100)
    BY Divided
  <1>2. CASE n < 100
    <2>1. w = SpanishBelow100(n) /\ n \in 0 .. 99
      BY <1>2 DEF SpanishBelow1000
    <2>2. Spelled("es", w) /\ Adds("es", w, n)
      BY <2>1, SpanishUnder100
    <2> HIDE DEF w
    <2>3. ASSUME NEW toks \in Words, NEW r, Open(r), ~ r.hund, r.cur = 0, Holds(toks, r.i, w)
          PROVE  \E q : Leads("es", toks, r, q) /\ q.i = r.i + Len(w) /\ q.total = r.total /\ q.cur = n
      <3>1. PICK q : Leads("es", toks, r, q) /\ Stands(q, r.i + Len(w), r.total, r.cur + n, r.hund)
        BY <2>2, <2>3 DEF Adds
      <3>2. q.i = r.i + Len(w) /\ q.total = r.total /\ q.cur = n
        BY <2>3, <3>1 DEF Stands
      <3> QED BY <3>1, <3>2
    <2> QED BY <2>2, <2>3 DEF Groups, w
  <1>3. CASE n >= 100
    <2>1. below \in Seq(Numerals(t)) /\ Adds("es", below, m)
      BY <1>1, SpanishUnder100 DEF Spelled
    <2>2. rest \in Seq(Numerals(t)) /\ ((m = 0 /\ rest = <<>>) \/ Adds("es", rest, m))
      <3> HIDE DEF below
      <3> QED BY <2>1
    <2>3. \/ x \in t.ScaleHundred /\ h = 100
          \/ x \in DOMAIN t.Hundreds /\ t.Hundreds[x] = h
      <3>1. CASE n < 200
        <4>1. n \div 100 = 1
          BY <1>1, <1>3, <3>1
        <4> QED BY <3>1, <4>1, SpellingTables DEF SpellsSpanish
      <3>2. CASE n >= 200
        <4>1. n \div 100 \in 2 .. 9 /\ n # 100 /\ ~ (n < 200)
          BY <1>1, <3>2
        <4>2. \E y \in DOMAIN t.Hundreds : t.Hundreds[y] = h
          BY <1>1, <4>1, SpellingTables DEF SpellsSpanish
        <4>3. hundreds \in DOMAIN t.Hundreds /\ t.Hundreds[hundreds] = h
          BY <4>2, WordForIs
        <4> QED BY <4>1, <4>3
      <3> QED BY <1>1, <3>1, <3>2
    <2>4. w = <<x>> \o rest
      <3>1. ~ (n < 100)
        BY <1>1, <1>3
      <3> QED BY <3>1, Zenon DEF SpanishBelow1000
    <2> HIDE DEF h, m, x, rest, w
    <2>5. Spelled("es", <<x>>) /\ Heads("es", <<x>>, h)
      BY <1>0, <1>1, <2>3, HundredHeads
    <2>6. Spelled("es", w) /\ Groups("es", w, n)
      <3> DEFINE v == <<x>>
      <3>1. Spelled("es", v) /\ Heads("es", v, h) /\ w = v \o rest /\ h \in Nat /\ m \in Nat
        BY <1>1, <2>4, <2>5
      <3> HIDE DEF v
      <3>2. Spelled("es", v \o rest) /\ Groups("es", v \o rest, h + m)
        BY <1>0, <2>2, <3>1, HeadAndRest
      <3> QED BY <1>1, <3>1, <3>2
    <2> QED BY <2>6 DEF w
  <1> QED BY <1>1, <1>2, <1>3

\* Numbers below a million, in Spanish.
LEMMA SpanishMakes ==
    ASSUME NEW n \in Nat, n \div 1000 < 1000
    PROVE  Spelled("es", InSpanish(n)) /\ Makes("es", InSpanish(n), n)
  <1> DEFINE t == In("es")!T
             w == InSpanish(n)
             k == n \div 1000
             m == n % 1000
             group == SpanishBelow1000(k)
             front == IF n < 2000 THEN <<>> ELSE group
             back == SpanishBelow1000(m)
             rest == IF m = 0 THEN <<>> ELSE back
  <1>0. "es" \in {"en", "es"}
    OBVIOUS
  <1>1. n \in Nat /\ m \in 0 .. 999 /\ k \in Nat /\ n = 1000 * k + m
    BY Divided
  <1>2. CASE n < 1000
    <2>1. w = SpanishBelow1000(n) /\ n \in 0 .. 999
      BY <1>1, <1>2 DEF InSpanish
    <2>2. Spelled("es", w) /\ Groups("es", w, n)
      BY <2>1, SpanishUnder1000, ZenonT(40)
    <2> HIDE DEF w
    <2> QED BY <1>1, <2>2, GroupMakes DEF w
  <1>3. CASE n >= 1000
    <2>1. k \in 1 .. 999 /\ (n < 2000 => k = 1)
      BY <1>1, <1>3
    <2>2. w = (front \o <<"mil">>) \o rest
      <3>1. ~ (n < 1000)
        BY <1>1, <1>3
      <3> QED BY <3>1, ZenonT(40) DEF InSpanish
    <2>3. "mil" \in DOMAIN t.ScaleBig /\ t.ScaleBig["mil"] = 1000 /\ <<>> \in Connectors("es")
      BY SpellingTables DEF SpellsSpanish, Connectors
    <2>4. Spelled("es", group) /\ Groups("es", group, k)
      <3>1. k \in 0 .. 999
        BY <2>1
      <3>2. \A j \in 0 .. 999 : Spelled("es", SpanishBelow1000(j)) /\ Groups("es", SpanishBelow1000(j), j)
        BY SpanishUnder1000, ZenonT(40)
      <3> HIDE DEF k
      <3> QED BY ONLY <3>1, <3>2, ZenonT(40)
    <2>5. Spelled("es", back) /\ Groups("es", back, m)
      <3>1. m \in 0 .. 999
        BY <1>1
      <3> HIDE DEF m
      <3> QED BY <3>1, SpanishUnder1000, ZenonT(40)
    <2> HIDE DEF k, m, group, back, w
    <2>6. FrontOf("es", front, k)
      BY <2>1, <2>4 DEF FrontOf
    <2>7. back \in Words /\ back \in Seq(Numerals(t))
      BY <1>0, <2>5, SpelledWords DEF Spelled
    <2>8. rest \in Seq(Numerals(t))
      BY <2>7
    <2>9. RestOf("es", rest, m)
      <3>1. CASE m = 0
        BY <3>1 DEF RestOf
      <3>2. CASE m # 0
        <4>1. rest = <<>> \o back
          BY <2>7, <3>2, ConcatEmptySeq DEF Words
        <4> QED BY <2>3, <2>5, <2>7, <4>1 DEF RestOf
      <3> QED BY <3>1, <3>2
    <2> HIDE DEF rest, front
    <2>10. k \in Nat \ {0} /\ m \in Nat
      BY <1>1, <2>1
    <2>11. Spelled("es", w) /\ Makes("es", w, 1000 * k + m)
      <3> DEFINE x == "mil"
      <3>1. x \in DOMAIN t.ScaleBig /\ t.ScaleBig[x] = 1000 /\ w = (front \o <<x>>) \o rest
        BY <2>2, <2>3
      <3> HIDE DEF x
      <3> QED BY <1>0, <2>6, <2>8, <2>9, <2>10, <3>1, ThousandsMake
    <2> QED BY <1>1, <2>11 DEF w
  <1> QED BY <1>1, <1>2, <1>3

-----------------------------------------------------------------------------
(* A spelled number among other words. *)

Counted == {"boxes", "cajas"}

\* Numerals, and what is counted by them, hold no vague phrase.
LEMMA NothingVague ==
    ASSUME NEW c \in {"en", "es"}, NEW toks \in Words, NEW i \in Nat,
           \A j \in i .. Len(toks) : toks[j] \in Numerals(In(c)!T) \cup Counted
    PROVE  In(c)!VagueAt(toks, i).n = 0
  <1> DEFINE n == In(c)!VagueAt(toks, i).n
             ph == SubSeq(toks, i, i + n - 1)
  <1>0. c \in DOMAIN Packs /\ Len(toks) \in Nat
    BY SpellingTables DEF Words
  <1>1. /\ n = In(c)!MatchAt(DOMAIN In(c)!T.vagues, toks, i) /\ n \in Nat
        /\ DOMAIN In(c)!T.vagues \in SUBSET (Words \ {<<>>})
    BY <1>0, VagueFits, Tables
  <1>2. ASSUME n > 0
        PROVE  FALSE
    <2>1. /\ i + n - 1 <= Len(toks) /\ ph \in DOMAIN In(c)!T.vagues /\ Len(ph) = n
          /\ \A k \in 1 .. n : ph[k] = toks[i + k - 1]
      BY <1>1, <1>2, Matched
    <2>2. ph \in Words
      BY <1>1, <2>1
    <2> HIDE DEF ph, n
    <2>3. PICK k \in DOMAIN ph : ph[k] \notin Numerals(In(c)!T) \cup Counted
      BY <2>1, SpellingTables DEF SpellsNumbers, Counted
    <2>4. k \in 1 .. n
      BY <2>1, <2>2, <2>3 DEF Words
    <2>5. i + k - 1 \in i .. Len(toks)
      BY <1>0, <1>1, <2>1, <2>4
    <2> QED BY <2>1, <2>3, <2>4, <2>5
  <1> HIDE DEF n
  <1>3. n = 0
    BY <1>1, <1>2
  <1> QED BY <1>3 DEF n

\* Behind e is the end of the text, or the one thing counted.
LastAt(toks, e) == e = Len(toks) + 1 \/ (e = Len(toks) /\ toks[e] \in Counted)

\* Words that make a number are heard as that number, with one word behind them
\* or none.
LEMMA MadeHeard ==
    ASSUME NEW c \in {"en", "es"}, NEW w, Spelled(c, w), NEW n \in Nat, Makes(c, w, n),
           NEW toks \in Words, NEW i \in 1 .. Len(toks), Holds(toks, i, w),
           LastAt(toks, i + Len(w))
    PROVE  HeardIn(c, toks, i) = <<In(c)!Number(toks, n, FALSE, i, i + Len(w))>>
  <1> DEFINE e == i + Len(w)
  <1>0. /\ c \in DOMAIN Packs /\ Len(toks) \in Nat /\ i \in Nat /\ i >= 1 /\ i <= Len(toks)
        /\ w \in Words /\ Len(w) \in Nat /\ Len(w) >= 1 /\ w \in Seq(Numerals(In(c)!T))
    BY SpellingTables, SpelledWords DEF Words, Spelled
  <1>1. In(c)!VagueAt(toks, i).n = 0
    <2>1. ASSUME NEW j \in i .. Len(toks)
          PROVE  toks[j] \in Numerals(In(c)!T) \cup Counted
      <3>1. CASE j = e
        BY <1>0, <2>1, <3>1 DEF LastAt
      <3>2. CASE j # e
        <4>1. j - i + 1 \in 1 .. Len(w) /\ i + ((j - i + 1) - 1) = j
          BY <1>0, <2>1, <3>2 DEF LastAt
        <4>2. toks[j] = w[j - i + 1]
          BY <4>1 DEF Holds
        <4>3. w[j - i + 1] \in Numerals(In(c)!T)
          BY <1>0, <4>1
        <4> QED BY <4>2, <4>3
      <3> QED BY <3>1, <3>2
    <2> QED BY <1>0, <2>1, NothingVague
  <1>2. PICK r : Leads(c, toks, Start(i), r) /\ r.i = e /\ r.total + r.cur = n
    BY DEF Makes
  <1> DEFINE q == In(c)!Run(toks, Begun(i, 0, FALSE))
  <1>3. q = In(c)!Run(toks, r) /\ r \in RunStates /\ r.started /\ ~ r.done
    BY <1>2 DEF Leads, Start
  <1>4. r.i <= Len(toks) + 1 /\ (r.i <= Len(toks) => toks[r.i] \notin Numerals(In(c)!T))
    <2>1. e <= Len(toks) + 1 /\ (e <= Len(toks) => toks[e] \in Counted)
      BY <1>0 DEF LastAt
    <2>2. \A x \in Counted : x \notin Numerals(In(c)!T)
      BY SpellingTables DEF SpellsNumbers, NumberWords, Counted
    <2> QED BY <1>0, <1>2, <2>1, <2>2
  <1>5. q.i = r.i /\ q.started /\ q.total = r.total /\ q.cur = r.cur
    <2> HIDE DEF q
    <2> QED BY <1>0, <1>3, <1>4, RunResults
  <1> HIDE DEF q
  <1>6. q.i = e /\ q.total + q.cur = n
    BY <1>2, <1>5
  <1>7. HeardIn(c, toks, i) = <<In(c)!Number(toks, q.total + q.cur, FALSE, i, q.i)>>
    <2>1. q = In(c)!Run(toks, Begun(i, 0, FALSE))
      BY DEF q
    <2> QED BY <1>0, <1>1, <1>5, <2>1, HeardRun
  <1> QED BY <1>6, <1>7 DEF e

\* One number, and nothing else heard before and behind it.
LEMMA ScanOne ==
    ASSUME NEW c \in DOMAIN Packs, NEW toks \in Words, NEW i \in {2, 4}, i <= Len(toks),
           \A j \in 1 .. (i - 1) : HeardIn(c, toks, j) = <<>>,
           NEW x, HeardIn(c, toks, i) = <<x>>, x.end \in {Len(toks), Len(toks) + 1},
           x.end = Len(toks) => HeardIn(c, toks, x.end) = <<>>
    PROVE  In(c)!ScanNumbers(toks) = <<x>>
  <1>1. PICK scan \in [Nat -> Seq(Founds(c, toks))] :
            Scans(c, toks, scan) /\ In(c)!ScanNumbers(toks) = scan[1]
    BY ScanSequence
  <1>2. Len(toks) \in Nat
    BY DEF Words
  <1>3. \A j \in Nat : j > Len(toks) => scan[j] = <<>>
    BY <1>1 DEF Scans
  <1>4. \A j \in Nat : ~ (j > Len(toks)) /\ HeardIn(c, toks, j) = <<>> => scan[j] = scan[j + 1]
    BY <1>1 DEF Scans
  <1>5. scan[1] = scan[i]
    <2>1. CASE i = 2
      <3>1. ~ (1 > Len(toks)) /\ HeardIn(c, toks, 1) = <<>> /\ 1 + 1 = 2
        BY <1>2, <2>1
      <3> QED BY <1>4, <2>1, <3>1
    <2>2. CASE i = 4
      <3>1. /\ ~ (1 > Len(toks)) /\ ~ (2 > Len(toks)) /\ ~ (3 > Len(toks))
            /\ 1 \in 1 .. (i - 1) /\ 2 \in 1 .. (i - 1) /\ 3 \in 1 .. (i - 1)
            /\ 1 + 1 = 2 /\ 2 + 1 = 3 /\ 3 + 1 = 4
        <4> DEFINE n == Len(toks)
        <4>1. n \in Nat /\ 4 <= n /\ i = 4
          BY <1>2, <2>2
        <4> HIDE DEF n
        <4>2. ~ (1 > n) /\ ~ (2 > n) /\ ~ (3 > n)
          BY ONLY <4>1
        <4>3. 1 \in 1 .. (i - 1) /\ 2 \in 1 .. (i - 1) /\ 3 \in 1 .. (i - 1)
          BY ONLY <4>1
        <4> QED BY <4>2, <4>3 DEF n
      <3>2. scan[1] = scan[2] /\ scan[2] = scan[3] /\ scan[3] = scan[4]
        BY <1>4, <3>1
      <3> QED BY <2>2, <3>2
    <2> QED BY <2>1, <2>2
  <1>6. scan[x.end] = <<>>
    <2>1. CASE x.end = Len(toks)
      <3> DEFINE n == Len(toks)
                 e == x.end
      <3>0. n \in Nat /\ e = n
        BY <1>2, <2>1
      <3> HIDE DEF n, e
      <3>2. ~ (e > n) /\ e + 1 > n /\ e \in Nat /\ e + 1 \in Nat
        BY ONLY <3>0
      <3>1. ~ (x.end > Len(toks)) /\ x.end + 1 > Len(toks) /\ x.end \in Nat /\ x.end + 1 \in Nat
        BY ONLY <3>2 DEF n, e
      <3> QED BY <1>3, <1>4, <2>1, <3>1
    <2>2. CASE x.end = Len(toks) + 1
      BY <1>2, <1>3, <2>2
    <2> QED BY <2>1, <2>2
  <1>7. scan[i] = <<x>> \o scan[x.end]
    <2>1. i \in Nat /\ ~ (i > Len(toks)) /\ HeardIn(c, toks, i) # <<>> /\ HeardIn(c, toks, i)[1] = x
      BY <1>2
    <2> QED BY <1>1, <2>1, Zenon DEF Scans
  <1>8. <<x>> \o <<>> = <<x>>
    <2>1. <<x>> \in Seq({x})
      OBVIOUS
    <2> QED BY <2>1, ConcatEmptySeq
  <1> QED BY <1>1, <1>5, <1>6, <1>7, <1>8

\* The words put around a number.
LEMMA AroundWords ==
    ASSUME NEW c \in {"en", "es"}
    PROVE  /\ \A x \in {"bin"} \cup Counted : x \in STRING /\ x \notin NumberWords(In(c)!T)
           /\ MoreOrLess[c] \in Words /\ Len(MoreOrLess[c]) = 3 /\ MoreOrLess[c] \in In(c)!T.approxSet
           /\ \A k \in 1 .. 3 : MoreOrLess[c][k] \notin NumberWords(In(c)!T)
           /\ \A p \in In(c)!T.approxSet : Len(p) <= 3
           /\ "bin" \notin WordsOf(In(c)!T.approxSet)
  <1> DEFINE t == In(c)!T
             more == MoreOrLess[c]
  <1>1. /\ Numerals(t) \cup {"bin", "boxes", "cajas"} \subseteq STRING
        /\ ({"bin", "boxes", "cajas"} \cup WordsOf({more})) \cap NumberWords(t) = {}
        /\ "bin" \notin WordsOf(t.approxSet) /\ more \in t.approxSet
        /\ \A p \in t.approxSet : Len(p) <= 3
    BY SpellingTables DEF SpellsNumbers
  <1>2. more = <<"more", "or", "less">> \/ more = <<"mas", "o", "menos">>
    BY DEF MoreOrLess
  <1>3. more \in Words /\ Len(more) = 3 /\ DOMAIN more = 1 .. 3
    <2>1. \A x, y, z : Len(<<x, y, z>>) = 3
      OBVIOUS
    <2> HIDE DEF more
    <2>2. Len(more) = 3
      BY <1>2, <2>1, Zenon
    <2>3. more \in Words
      BY <1>1, SpellingTables, Tables
    <2> QED BY <2>2, <2>3 DEF Words
  <1> HIDE DEF more
  <1>4. \A k \in 1 .. 3 : more[k] \in WordsOf({more})
    BY <1>3 DEF WordsOf
  <1> QED BY <1>1, <1>3, <1>4 DEF Counted, more

\* A number's words, with more before and behind them.
LEMMA HoldsWithin ==
    ASSUME NEW u \in Words, NEW w \in Words, NEW v \in Words
    PROVE  LET toks == (u \o w) \o v IN
           /\ toks \in Words /\ Len(toks) = (Len(u) + Len(w)) + Len(v)
           /\ Holds(toks, Len(u) + 1, w)
           /\ \A k \in 1 .. Len(u) : toks[k] = u[k]
           /\ \A k \in 1 .. Len(v) : toks[(Len(u) + Len(w)) + k] = v[k]
  <1> DEFINE f == u \o w
             toks == f \o v
  <1>1. Len(u) \in Nat /\ Len(w) \in Nat /\ Len(v) \in Nat
    BY DEF Words
  <1>2. /\ f \in Words /\ Len(f) = Len(u) + Len(w)
        /\ \A k \in 1 .. Len(u) : f[k] = u[k]
        /\ \A k \in 1 .. Len(w) : f[Len(u) + k] = w[k]
    BY ConcatProperties DEF Words
  <1> HIDE DEF f
  <1>3. /\ toks \in Words /\ Len(toks) = Len(f) + Len(v)
        /\ \A k \in 1 .. Len(f) : toks[k] = f[k]
        /\ \A k \in 1 .. Len(v) : toks[Len(f) + k] = v[k]
    <2>1. f \in Seq(STRING) /\ v \in Seq(STRING)
      BY <1>2 DEF Words
    <2> QED BY ONLY <2>1, ConcatProperties DEF Words
  <1> HIDE DEF toks
  <1>4. \A k \in 1 .. Len(u) : toks[k] = u[k]
    <2>1. \A k \in 1 .. Len(u) : k \in 1 .. Len(f)
      BY <1>1, <1>2
    <2> QED BY <1>2, <1>3, <2>1
  <1>5. Holds(toks, Len(u) + 1, w)
    <2>1. \A k \in 1 .. Len(w) : Len(u) + k \in 1 .. Len(f) /\ (Len(u) + 1) + (k - 1) = Len(u) + k
      BY <1>1, <1>2
    <2>2. \A k \in 1 .. Len(w) : toks[(Len(u) + 1) + (k - 1)] = w[k]
      BY <1>2, <1>3, <2>1
    <2>3. Len(u) + 1 \in Nat \ {0} /\ (Len(u) + 1) + Len(w) <= Len(toks) + 1
      BY <1>1, <1>2, <1>3
    <2> QED BY <2>2, <2>3 DEF Holds
  <1>6. Len(toks) = (Len(u) + Len(w)) + Len(v)
    BY <1>2, <1>3
  <1>7. \A k \in 1 .. Len(v) : toks[(Len(u) + Len(w)) + k] = v[k]
    BY <1>2, <1>3
  <1> QED BY <1>3, <1>4, <1>5, <1>6, <1>7 DEF toks, f

\* A number behind a bin, before what is counted.
LEMMA NumberAmong ==
    ASSUME NEW c \in {"en", "es"}, NEW w, Spelled(c, w), NEW n \in Nat, Makes(c, w, n), NEW x \in Counted
    PROVE  Exactly(In(c)!ScanNumbers(<<"bin">> \o w \o <<x>>), n, FALSE, 2, 2, Len(w) + 2)
  <1> DEFINE u == <<"bin">>
             v == <<x>>
             toks == (u \o w) \o v
             m == In(c)!MatchApproxEndingAt(toks, 2)
             y == In(c)!Number(toks, n, FALSE, 2, Len(w) + 2)
  <1>0. c \in DOMAIN Packs /\ w \in Words /\ Len(w) \in Nat /\ Len(w) >= 1
    BY SpellingTables, SpelledWords
  <1>1. u \in Words /\ v \in Words /\ Len(u) = 1 /\ Len(v) = 1 /\ u[1] = "bin" /\ v[1] = x
    <2>1. "bin" \in STRING /\ x \in STRING
      BY AroundWords
    <2> QED BY <2>1 DEF Words
  <1> HIDE DEF u, v
  <1>2. /\ toks \in Words /\ Len(toks) = Len(w) + 2 /\ Holds(toks, 2, w)
        /\ toks[1] = "bin" /\ toks[Len(w) + 2] = x
    <2>1. /\ toks \in Words /\ Len(toks) = (1 + Len(w)) + 1 /\ Holds(toks, 1 + 1, w)
          /\ (\A k \in 1 .. 1 : toks[k] = u[k]) /\ \A k \in 1 .. 1 : toks[(1 + Len(w)) + k] = v[k]
      <3>1. /\ toks \in Words /\ Len(toks) = (Len(u) + Len(w)) + Len(v) /\ Holds(toks, Len(u) + 1, w)
            /\ \A k \in 1 .. Len(u) : toks[k] = u[k]
            /\ \A k \in 1 .. Len(v) : toks[(Len(u) + Len(w)) + k] = v[k]
        <4>1. u \in Words /\ w \in Words /\ v \in Words
          BY <1>0, <1>1
        <4> QED BY <4>1, HoldsWithin, Zenon
      <3> HIDE DEF toks
      <3> QED BY <1>1, <3>1, Zenon
    <2>2. (1 + Len(w)) + 1 = Len(w) + 2 /\ 1 \in 1 .. 1 /\ 1 + 1 = 2
      BY <1>0
    <2> HIDE DEF toks
    <2> QED BY <1>1, <2>1, <2>2
  <1> HIDE DEF toks
  <1>3. HeardIn(c, toks, 2) = <<y>>
    <2> DEFINE i == 2
    <2>1. i \in 1 .. Len(toks) /\ Holds(toks, i, w) /\ i + Len(w) = Len(w) + 2 /\ LastAt(toks, i + Len(w))
      BY <1>0, <1>2 DEF LastAt
    <2> HIDE DEF i
    <2>2. HeardIn(c, toks, i) = <<In(c)!Number(toks, n, FALSE, i, i + Len(w))>>
      BY <1>2, <2>1, MadeHeard
    <2> QED BY <2>1, <2>2 DEF i
  <1>4. m = 0
    <2>1. 2 \in Nat /\ 2 <= Len(toks) + 1
      BY <1>0, <1>2
    <2>2. /\ m \in 0 .. 3 /\ (m > 0 => 2 - m >= 1)
          /\ \A q \in (2 - m) .. (2 - 1) : toks[q] \in WordsOf(In(c)!T.approxSet)
      BY <1>0, <1>2, <2>1, ApproxBefore
    <2> HIDE DEF m
    <2>3. m > 0 => 1 \in (2 - m) .. (2 - 1)
      BY <2>2
    <2> QED BY <1>2, <2>2, <2>3, AroundWords
  <1>5. y = [value |-> n, vague |-> FALSE, approx |-> FALSE, mark |-> 2, start |-> 2, end |-> Len(w) + 2]
    <2>1. (n = In(c)!NaN) = FALSE /\ (FALSE \/ m > 0) = FALSE /\ 2 - m = 2
      BY <1>4 DEF In!NaN
    <2>2. y = [value |-> n, vague |-> n = In(c)!NaN, approx |-> FALSE \/ m > 0,
               start |-> 2, end |-> Len(w) + 2, mark |-> 2 - m]
      BY Zenon DEF In!Number
    <2> HIDE DEF m, y
    <2> QED BY <2>1, <2>2, Zenon
  <1>6. y.end = Len(toks) /\ HeardIn(c, toks, y.end) = <<>>
    <2>1. y.end = Len(toks) /\ Len(toks) \in 1 .. Len(toks)
      <3>1. y.end = Len(w) + 2
        <4> HIDE DEF y
        <4> QED BY <1>5
      <3> HIDE DEF y
      <3> QED BY <1>0, <1>2, <3>1
    <2> HIDE DEF y
    <2>2. toks[Len(toks)] \notin NumberWords(In(c)!T)
      BY <1>2, AroundWords
    <2> QED BY <1>0, <1>2, <2>1, <2>2, HeardNothing
  <1>7. \A j \in 1 .. (2 - 1) : HeardIn(c, toks, j) = <<>>
    <2>1. 1 \in 1 .. Len(toks) /\ toks[1] \notin NumberWords(In(c)!T)
      BY <1>0, <1>2, AroundWords
    <2>2. HeardIn(c, toks, 1) = <<>>
      BY <1>0, <1>2, <2>1, HeardNothing
    <2> QED BY <2>2
  <1>8. In(c)!ScanNumbers(toks) = <<y>>
    <2>1. 2 \in {2, 4} /\ 2 <= Len(toks)
      BY <1>0, <1>2
    <2> HIDE DEF y
    <2> QED BY <1>0, <1>2, <1>3, <1>6, <1>7, <2>1, ScanOne
  <1> QED BY <1>5, <1>8 DEF Exactly, toks, u, v

\* A number behind "more or less".
LEMMA NumberMoreOrLess ==
    ASSUME NEW c \in {"en", "es"}, NEW w, Spelled(c, w), NEW n \in Nat, Makes(c, w, n)
    PROVE  Exactly(In(c)!ScanNumbers(MoreOrLess[c] \o w), n, TRUE, 1, 4, Len(w) + 4)
  <1> DEFINE u == MoreOrLess[c]
             v == <<>>
             toks == (u \o w) \o v
             m == In(c)!MatchApproxEndingAt(toks, 4)
             y == In(c)!Number(toks, n, FALSE, 4, Len(w) + 4)
  <1>0. c \in DOMAIN Packs /\ w \in Words /\ Len(w) \in Nat /\ Len(w) >= 1
    BY SpellingTables, SpelledWords
  <1>1. u \in Words /\ v \in Words /\ Len(u) = 3 /\ Len(v) = 0
    BY AroundWords DEF Words
  <1>2. toks = u \o w
    <2>1. u \o w \in Seq(STRING)
      BY <1>0, <1>1, ConcatProperties DEF Words
    <2> QED BY <2>1, ConcatEmptySeq
  <1> HIDE DEF u, v
  <1>3. /\ toks \in Words /\ Len(toks) = Len(w) + 3 /\ Holds(toks, 4, w)
        /\ \A k \in 1 .. 3 : toks[k] = u[k]
    <2>1. /\ toks \in Words /\ Len(toks) = (3 + Len(w)) + 0 /\ Holds(toks, 3 + 1, w)
          /\ (\A k \in 1 .. 3 : toks[k] = u[k])
      <3>1. /\ toks \in Words /\ Len(toks) = (Len(u) + Len(w)) + Len(v) /\ Holds(toks, Len(u) + 1, w)
            /\ \A k \in 1 .. Len(u) : toks[k] = u[k]
        <4>1. u \in Words /\ w \in Words /\ v \in Words
          BY <1>0, <1>1
        <4> QED BY <4>1, HoldsWithin, Zenon
      <3> HIDE DEF toks
      <3> QED BY <1>1, <3>1, Zenon
    <2>2. (3 + Len(w)) + 0 = Len(w) + 3 /\ 3 + 1 = 4
      BY <1>0
    <2> HIDE DEF toks
    <2> QED BY <2>1, <2>2
  <1> HIDE DEF toks
  <1>4. HeardIn(c, toks, 4) = <<y>>
    <2> DEFINE i == 4
    <2>1. i \in 1 .. Len(toks) /\ Holds(toks, i, w) /\ i + Len(w) = Len(w) + 4 /\ LastAt(toks, i + Len(w))
      BY <1>0, <1>3 DEF LastAt
    <2> HIDE DEF i
    <2>2. HeardIn(c, toks, i) = <<In(c)!Number(toks, n, FALSE, i, i + Len(w))>>
      BY <1>3, <2>1, MadeHeard
    <2> QED BY <2>1, <2>2 DEF i
  <1>5. m = 3
    <2> DEFINE phrases == In(c)!T.approxSet
               a == In(c)!MatchAt(phrases, toks, 1)
               ph == SubSeq(toks, 1, 1 + a - 1)
    <2>1. phrases \in SUBSET (Words \ {<<>>}) /\ u \in phrases /\ \A p \in phrases : Len(p) <= 3
      BY <1>0, Tables, AroundWords DEF u
    <2>2. SubSeq(toks, 1, 1 + Len(u) - 1) = u /\ 1 + Len(u) - 1 <= Len(toks)
      <3>1. 1 + Len(u) - 1 = 3 /\ 3 <= Len(toks) /\ Len(toks) \in Nat
        BY <1>0, <1>1, <1>3
      <3> DEFINE s == SubSeq(toks, 1, 3)
      <3>2. s \in Words /\ Len(s) = 3 /\ \A k \in 1 .. 3 : s[k] = toks[k]
        <4>1. toks \in Seq(STRING) /\ 1 \in 1 .. (Len(toks) + 1) /\ 3 \in (1 - 1) .. Len(toks)
          BY <1>3, <3>1 DEF Words
        <4>2. /\ s \in Seq(STRING) /\ Len(s) = 3 - 1 + 1
              /\ \A k \in 1 .. (3 - 1 + 1) : s[k] = toks[1 + k - 1]
          BY <4>1, SubSeqProperties
        <4> HIDE DEF s
        <4>3. 3 - 1 + 1 = 3 /\ \A k \in 1 .. 3 : 1 + k - 1 = k
          OBVIOUS
        <4> QED BY <4>2, <4>3 DEF Words
      <3> HIDE DEF s
      <3>3. s = u
        BY <1>1, <1>3, <3>2 DEF Words
      <3> QED BY <3>1, <3>3 DEF s
    <2>3. a >= 3
      <3>1. a >= Len(u)
        <4> HIDE DEF phrases
        <4> QED BY <1>3, <2>1, <2>2, MatchAtLeast
      <3> HIDE DEF a
      <3> QED BY <1>1, <3>1
    <2>4. a \in Nat /\ (a > 0 => ph \in phrases /\ Len(ph) = a)
      <3> HIDE DEF phrases
      <3> QED BY <1>3, <2>1, Matched
    <2>5. a = 3
      <3> HIDE DEF a, ph, phrases
      <3> QED BY <2>1, <2>3, <2>4
    <2>6. 4 \in Nat /\ 4 <= Len(toks) + 1
      BY <1>0, <1>3
    <2>7. /\ m \in 0 .. 3
          /\ \A k \in 1 .. 3 : 4 - k >= 1 /\ In(c)!MatchAt(phrases, toks, 4 - k) = k => k <= m
      BY <1>0, <1>3, <2>6, ApproxBefore
    <2>8. 3 <= m
      <3> HIDE DEF m, phrases
      <3>1. 3 \in 1 .. 3 /\ 4 - 3 = 1 /\ 4 - 3 >= 1
        OBVIOUS
      <3> QED BY <2>5, <2>7, <3>1
    <2> HIDE DEF m
    <2> QED BY <2>7, <2>8
  <1>6. y = [value |-> n, vague |-> FALSE, approx |-> TRUE, mark |-> 1, start |-> 4, end |-> Len(w) + 4]
    <2>1. (n = In(c)!NaN) = FALSE /\ (FALSE \/ m > 0) = TRUE /\ 4 - m = 1
      BY <1>5 DEF In!NaN
    <2>2. y = [value |-> n, vague |-> n = In(c)!NaN, approx |-> FALSE \/ m > 0,
               start |-> 4, end |-> Len(w) + 4, mark |-> 4 - m]
      BY Zenon DEF In!Number
    <2> HIDE DEF m, y
    <2> QED BY <2>1, <2>2, Zenon
  <1>7. y.end = Len(toks) + 1 /\ y.end # Len(toks)
    <2> HIDE DEF y
    <2>1. y.end = Len(w) + 4
      BY <1>6
    <2> QED BY <1>0, <1>3, <2>1
  <1>8. \A j \in 1 .. (4 - 1) : HeardIn(c, toks, j) = <<>>
    <2>1. ASSUME NEW j \in 1 .. 3
          PROVE  HeardIn(c, toks, j) = <<>>
      <3>1. j \in 1 .. Len(toks) /\ toks[j] \notin NumberWords(In(c)!T)
        BY <1>0, <1>3, <2>1, AroundWords DEF u
      <3> QED BY <1>0, <1>3, <3>1, HeardNothing
    <2> QED BY <2>1
  <1>9. In(c)!ScanNumbers(toks) = <<y>>
    <2>1. 4 \in {2, 4} /\ 4 <= Len(toks)
      BY <1>0, <1>3
    <2> HIDE DEF y
    <2> QED BY <1>0, <1>3, <1>4, <1>7, <1>8, <2>1, ScanOne
  <1>10. In(c)!ScanNumbers(u \o w) = <<y>>
    BY <1>2, <1>9
  <1> QED BY <1>6, <1>10 DEF Exactly, u

-----------------------------------------------------------------------------
(* The scale words after "several". *)

\* A run that has started stays started.
LEMMA RunStarted ==
    ASSUME NEW c \in DOMAIN Packs, NEW toks \in Words, NEW r \in RunStates, r.started,
           r.i <= Len(toks) + 1
    PROVE  In(c)!Run(toks, r).started
  <1> DEFINE V == {q \in RunStates : q.started}
  <1>1. PICK f : Stepped(c, toks, r, f) /\ In(c)!Run(toks, r) = f[Len(toks) + 1 - r.i]
    BY RunSequence
  <1> DEFINE S == {k \in Nat : f[k] \in V}
  <1>2. \A k \in Nat : f[k] = IF k = 0 THEN r ELSE In(c)!Step(toks, f[k - 1])
    BY <1>1 DEF Stepped
  <1>3. 0 \in S
    BY <1>2
  <1>4. ASSUME NEW k \in Nat, k \in S
        PROVE  k + 1 \in S
    <2>1. k + 1 \in Nat /\ k + 1 # 0 /\ (k + 1) - 1 = k /\ f[k] \in RunStates /\ f[k].started
      BY <1>4
    <2>2. f[k + 1] = In(c)!Step(toks, f[k])
      BY <1>2, <2>1
    <2>3. Onward(f[k], In(c)!RunStep(toks, f[k]))
      BY <2>1, RunSteps
    <2>4. f[k + 1] = f[k] \/ f[k + 1] = In(c)!RunStep(toks, f[k])
      BY <2>2 DEF In!Step
    <2>5. f[k + 1] \in RunStates /\ f[k + 1].started
      BY <2>1, <2>3, <2>4 DEF Onward
    <2> QED BY <2>1, <2>5
  <1> HIDE DEF S
  <1>5. \A k \in Nat : k \in S
    BY <1>3, <1>4, Inductive
  <1>6. Len(toks) + 1 - r.i \in Nat
    BY DEF Words, RunStates
  <1> QED BY <1>1, <1>5, <1>6 DEF S

\* A scale word begins a run.
LEMMA ScaleIsRun ==
    ASSUME NEW c \in {"en", "es"}, NEW toks \in Words, NEW i \in Nat \ {0}, In(c)!startsScale(toks, i)
    PROVE  i <= Len(toks) /\ In(c)!parseRun(toks, i).ok
  <1> DEFINE t == In(c)!T
             w == In(c)!At(toks, i)
             b == Start(i)
             r == In(c)!RunStep(toks, b)
             a == In(c)!Run(toks, b)
  <1>0. c \in DOMAIN Packs /\ i \in Nat
    BY SpellingTables
  <1>1. w \in t.ScaleHundred \/ w \in t.DozenWords \/ w \in DOMAIN t.ScaleBig
    BY DEF In!startsScale
  <1>2. i <= Len(toks) /\ toks[i] = w
    <2>1. \E k \in 1 .. 9 : w \in Roles(t)[k]
      <3>1. 4 \in 1 .. 9 /\ 5 \in 1 .. 9 /\ 6 \in 1 .. 9
        OBVIOUS
      <3> QED BY <1>0, <1>1, <3>1, RolesOf
    <2>2. w \in Numerals(t)
      BY <1>0, <2>1, OneRole
    <2>3. "" \notin Numerals(t)
      BY SpellingTables DEF SpellsNumbers
    <2> QED BY <2>2, <2>3 DEF In!At
  <1>3. /\ b \in RunStates /\ b.i = i /\ ~ b.done /\ ~ b.hund /\ b.cur = 0 /\ ~ b.started /\ ~ b.half
    BY <1>0 DEF Start, Begun, RunStates
  <1> HIDE DEF b, w
  <1>4. r \in RunStates /\ r.started /\ r.i <= Len(toks) + 1
    <2>1. Onward(b, r)
      BY <1>0, <1>3, RunSteps
    <2>2. r \in RunStates /\ r.i \in {i, i + 1}
      BY <1>3, <2>1 DEF Onward
    <2>3. r.started
      <3>1. CASE w \in t.ScaleHundred
        <4>1. Past(r, b, b.total, 100 * In(c)!OneOr(b.cur), FALSE, FALSE, TRUE)
          BY <1>0, <1>2, <1>3, <3>1, StepScaleHundred
        <4> QED BY <4>1 DEF Past
      <3>2. CASE w \in DOMAIN t.ScaleBig
        <4>1. Past(r, b, b.total + In(c)!OneOr(b.cur) * t.ScaleBig[w], 0, FALSE, FALSE, FALSE)
          BY <1>0, <1>2, <1>3, <3>2, StepScaleBig
        <4> QED BY <4>1 DEF Past
      <3>3. CASE w \in t.DozenWords
        <4>1. /\ w \notin DOMAIN t.Ones /\ w \notin t.NumArticles /\ w \notin DOMAIN t.Tens
              /\ w \notin DOMAIN t.Hundreds /\ w \notin t.ScaleHundred
              /\ w \notin DOMAIN t.ScaleBig /\ w \notin t.HalfWords
              /\ w \notin t.NumConnectors /\ w \notin DOMAIN In(c)!Digits
          <5>1. w \in Roles(t)[6] /\ 6 \in 1 .. 9
            BY <1>0, <3>3, RolesOf
          <5> QED BY <1>0, <5>1, RoleWords
        <4> DEFINE skip == [b EXCEPT !.i = b.i + 1]
                   go == [skip EXCEPT !.started = TRUE]
                   x == (In(c)!OneOr(b.cur) * 12) \div (IF b.half THEN 2 ELSE 1)
        <4>2. r = [go EXCEPT !.cur = x, !.done = TRUE]
          BY <1>2, <1>3, <3>3, <4>1 DEF In!RunStep
        <4> HIDE DEF x
        <4> QED BY <1>3, <4>2 DEF RunStates
      <3> QED BY <1>1, <3>1, <3>2, <3>3 DEF w
    <2>4. Len(toks) \in Nat
      BY DEF Words
    <2> QED BY <1>0, <1>2, <2>2, <2>3, <2>4
  <1>5. a = In(c)!Run(toks, r)
    BY <1>0, <1>2, <1>3, RunOn
  <1>6. a.started
    <2> HIDE DEF a, r
    <2> QED BY <1>0, <1>4, <1>5, RunStarted
  <1>7. In(c)!parseRun(toks, i) = In(c)!RunResult(a, i, FALSE)
    BY DEF In!parseRun, In!parseRunFrom, Start, Begun, b
  <1> HIDE DEF a
  <1> QED BY <1>2, <1>6, <1>7 DEF In!RunResult

\* "several" before a scale word is a vague number that takes the word along.
LEMMA SeveralHeard ==
    ASSUME NEW toks \in Words, NEW i \in 1 .. Len(toks), toks[i] = "several",
           In("en")!startsScale(toks, i + 1)
    PROVE  \E x : HeardIn("en", toks, i) = <<x>> /\ x.vague /\ i + 1 \in i .. (x.end - 1)
  <1> DEFINE t == In("en")!T
             v == In("en")!VagueAt(toks, i)
             run == In("en")!parseRun(toks, i)
             scale == In("en")!parseRun(toks, i + 1)
             x == In("en")!Number(toks, In("en")!NaN, TRUE, i, scale.end)
  <1>0. "en" \in {"en", "es"} /\ "en" \in DOMAIN Packs
    BY SpellingTables
  <1>1. i \in Nat /\ i >= 1 /\ i <= Len(toks) /\ Len(toks) \in Nat
    BY DEF Words
  <1>2. DOMAIN t.vagues \in SUBSET (Words \ {<<>>})
    BY <1>0, Tables
  <1>3. v.n = 1
    <2> DEFINE w == toks[i]
    <2>1. <<w>> \in DOMAIN t.vagues /\ w \notin WordsOf(DOMAIN t.vagues \ {<<w>>})
      BY SpellingTables DEF SpellsEnglish
    <2> HIDE DEF w
    <2>2. In("en")!MatchAt(DOMAIN t.vagues, toks, i) = 1
      BY <1>2, <2>1, MatchedAlone DEF w
    <2> QED BY <1>0, <1>1, <2>2, VagueFits
  <1>4. v.value = In("en")!NaN
    <2>1. /\ v.value = t.vagues[SubSeq(toks, i, i + 1 - 1)] /\ SubSeq(toks, i, i + 1 - 1) \in DOMAIN t.vagues
          /\ Len(SubSeq(toks, i, i + 1 - 1)) = 1 /\ SubSeq(toks, i, i + 1 - 1)[1] = "several"
      <3>1. v.value = t.vagues[SubSeq(toks, i, i + v.n - 1)] /\ v.n = In("en")!MatchAt(DOMAIN t.vagues, toks, i)
        BY <1>0, <1>1, <1>3, VagueFits
      <3>2. LET n == In("en")!MatchAt(DOMAIN t.vagues, toks, i) IN
            n > 0 => /\ SubSeq(toks, i, i + n - 1) \in DOMAIN t.vagues
                     /\ Len(SubSeq(toks, i, i + n - 1)) = n
                     /\ \A k \in 1 .. n : SubSeq(toks, i, i + n - 1)[k] = toks[i + k - 1]
        BY <1>1, <1>2, Matched
      <3> HIDE DEF v
      <3>3. i + 1 - 1 = i /\ 1 > 0 /\ 1 \in 1 .. 1
        BY <1>1
      <3> QED BY <1>3, <3>1, <3>2, <3>3
    <2> DEFINE ph == SubSeq(toks, i, i + 1 - 1)
    <2>2. ph \in Words
      BY <1>2, <2>1
    <2> HIDE DEF ph
    <2>3. ph = <<"several">>
      <3> DEFINE w == "several"
      <3>1. ph \in Seq(STRING) /\ Len(ph) = 1 /\ ph[1] = w
        BY <2>1, <2>2 DEF Words, ph
      <3> HIDE DEF w
      <3>2. ph = <<w>>
        BY ONLY <3>1
      <3> QED BY <3>2 DEF w
    <2>4. t.vagues[<<"several">>] = -1
      BY SpellingTables DEF SpellsEnglish
    <2> QED BY <2>1, <2>3, <2>4 DEF In!NaN, ph
  <1>5. i + 1 <= Len(toks) /\ scale.ok /\ scale.end \in (i + 2) .. (Len(toks) + 1)
    <2> DEFINE j == i + 1
    <2>1. j \in Nat \ {0} /\ In("en")!startsScale(toks, j)
      BY <1>1
    <2> HIDE DEF j
    <2>2. j <= Len(toks) /\ In("en")!parseRun(toks, j).ok
      BY <1>0, <2>1, ScaleIsRun
    <2>3. RunTakes("en", toks, j, In("en")!parseRun(toks, j))
      <3>1. j \in Nat /\ j <= Len(toks) + 1
        BY <1>1, <2>1, <2>2
      <3> QED BY <1>0, <3>1, RunParsed
    <2>4. In("en")!parseRun(toks, j).end \in (j + 1) .. (Len(toks) + 1)
      BY <2>2, <2>3 DEF RunTakes
    <2>5. j + 1 = i + 2
      BY <1>1 DEF j
    <2> QED BY <2>2, <2>4, <2>5 DEF j
  <1>6. HeardIn("en", toks, i) = In("en")!Heard(toks, i, v, scale, run)
    <2>1. In("en")!VagueScale(toks, i + v.n, v.value) = scale
      BY <1>3, <1>4 DEF In!VagueScale
    <2>2. v.n > 0
      BY <1>3
    <2>3. HeardIn("en", toks, i) =
            In("en")!Heard(toks, i, v, IF v.n > 0 THEN In("en")!VagueScale(toks, i + v.n, v.value)
                                       ELSE In("en")!NoRun, run)
      BY DEF HeardIn, In!HeardAt
    <2> HIDE DEF v, scale, run
    <2> QED BY <2>1, <2>2, <2>3
  <1> HIDE DEF v, run, scale
  <1>7. HeardIn("en", toks, i) = <<x>>
    BY <1>4, <1>5, <1>6 DEF In!Heard
  <1>8. x.vague /\ x.end = scale.end
    BY DEF In!Number
  <1> HIDE DEF x
  <1>9. i + 1 \in i .. (x.end - 1)
    BY <1>1, <1>5, <1>8
  <1> QED BY <1>7, <1>8, <1>9

\* The words of what is heard at i are of the vague phrase there, or numerals.
LEMMA FoundWords ==
    ASSUME NEW c \in DOMAIN Packs, NEW toks \in Words, NEW i \in Nat, i <= Len(toks),
           NEW x, HeardIn(c, toks, i) = <<x>>
    PROVE  \A q \in i .. (x.end - 1) :
              q < i + In(c)!MatchAt(DOMAIN In(c)!T.vagues, toks, i) \/ toks[q] \in Numerals(In(c)!T)
  <1> DEFINE v == In(c)!VagueAt(toks, i)
             run == In(c)!parseRun(toks, i)
             scale == IF v.n > 0 THEN In(c)!VagueScale(toks, i + v.n, v.value) ELSE In(c)!NoRun
             Takes(end) == \A q \in i .. (end - 1) : q < i + v.n \/ toks[q] \in Numerals(In(c)!T)
  <1>0. Len(toks) \in Nat
    BY DEF Words
  <1>1. /\ v.n = In(c)!MatchAt(DOMAIN In(c)!T.vagues, toks, i) /\ v.n \in Nat /\ v.value \in Int
        /\ v.n > 0 => i + v.n - 1 <= Len(toks)
    BY VagueFits
  <1> HIDE DEF v
  <1>2. \A value, approx, end : In(c)!Number(toks, value, approx, i, end).end = end
    BY DEF In!Number
  <1>3. run.ok => Takes(run.end)
    <2>1. RunTakes(c, toks, i, run)
      <3>1. i <= Len(toks) + 1
        BY <1>0
      <3> QED BY <3>1, RunParsed
    <2> QED BY <2>1 DEF RunTakes
  <1>4. scale.ok => Takes(scale.end)
    <2>1. CASE v.n > 0
      <3> DEFINE j == i + v.n
      <3>1. j \in Nat /\ j <= Len(toks) + 1 /\ j >= i
        BY <1>0, <1>1, <2>1
      <3>2. scale = In(c)!VagueScale(toks, j, v.value)
        BY <2>1
      <3> HIDE DEF j, scale
      <3>3. \A s \in {In(c)!parseRunFrom(toks, j, v.value, TRUE), In(c)!parseRun(toks, j)} :
               RunTakes(c, toks, j, s)
        BY <1>1, <3>1, RunTakesWords, RunParsed
      <3>4. \/ scale = In(c)!NoRun
            \/ scale \in {In(c)!parseRunFrom(toks, j, v.value, TRUE), In(c)!parseRun(toks, j)}
        BY <3>2 DEF In!VagueScale
      <3>5. ~ In(c)!NoRun.ok
        BY DEF In!NoRun
      <3>6. scale.ok => RunTakes(c, toks, j, scale)
        BY <3>3, <3>4, <3>5
      <3>7. ASSUME scale.ok
            PROVE  Takes(scale.end)
        <4>1. /\ scale.end \in (j + 1) .. (Len(toks) + 1)
              /\ \A q \in j .. (scale.end - 1) : toks[q] \in Numerals(In(c)!T)
          BY <3>6, <3>7 DEF RunTakes
        <4>2. \A q \in i .. (scale.end - 1) : q < j \/ q \in j .. (scale.end - 1)
          BY <3>1, <4>1
        <4> QED BY <4>1, <4>2 DEF j
      <3> QED BY <3>7
    <2>2. CASE ~ v.n > 0
      BY <2>2 DEF In!NoRun
    <2> QED BY <2>1, <2>2
  <1>5. Takes(i + v.n)
    BY <1>0, <1>1
  <1>6. <<x>> = In(c)!Heard(toks, i, v, scale, run)
    BY DEF In!HeardAt, HeardIn, v
  <1> HIDE DEF scale, run, Takes
  <1>7. \E value, approx, end : Takes(end) /\ <<x>> = <<In(c)!Number(toks, value, approx, i, end)>>
    <2>1. CASE scale.ok
      <3>1. <<x>> = <<In(c)!Number(toks, IF v.value = In(c)!NaN THEN In(c)!NaN ELSE scale.value,
                                   TRUE, i, scale.end)>>
        BY <1>6, <2>1 DEF In!Heard
      <3> QED BY <1>4, <2>1, <3>1
    <2>2. CASE ~ scale.ok /\ v.n > 0 /\ ~ In(c)!startsNumber(toks, i + v.n)
      <3>1. <<x>> = <<In(c)!Number(toks, v.value, TRUE, i, i + v.n)>>
        BY <1>6, <2>2 DEF In!Heard
      <3> QED BY <1>5, <3>1
    <2>3. CASE ~ scale.ok /\ ~ (v.n > 0 /\ ~ In(c)!startsNumber(toks, i + v.n))
      <3>1. <<x>> = IF run.ok THEN <<In(c)!Number(toks, run.value, FALSE, i, run.end)>> ELSE <<>>
        BY <1>6, <2>3 DEF In!Heard
      <3>2. run.ok /\ <<x>> = <<In(c)!Number(toks, run.value, FALSE, i, run.end)>>
        BY <3>1
      <3> QED BY <1>3, <3>2
    <2> QED BY <2>1, <2>2, <2>3
  <1>8. PICK value, approx, end : Takes(end) /\ <<x>> = <<In(c)!Number(toks, value, approx, i, end)>>
    BY <1>7
  <1>9. x = In(c)!Number(toks, value, approx, i, end)
    BY <1>8
  <1>10. Takes(x.end)
    BY <1>2, <1>8, <1>9
  <1> QED BY <1>1, <1>10 DEF Takes

\* The scale words after "several" are of a vague number.
LEMMA SeveralCovered ==
    ASSUME NEW toks \in Words, NEW i \in 1 .. Len(toks), toks[i] = "several",
           In("en")!startsScale(toks, i + 1)
    PROVE  LET nums == In("en")!ScanNumbers(toks) IN
           \E k \in DOMAIN nums : nums[k].vague /\ i + 1 \in nums[k].start .. (nums[k].end - 1)
  <1> DEFINE t == In("en")!T
             nums == In("en")!ScanNumbers(toks)
             M(j) == In("en")!MatchAt(DOMAIN t.vagues, toks, j)
  <1>0. "en" \in {"en", "es"} /\ "en" \in DOMAIN Packs
    BY SpellingTables
  <1>1. i \in Nat /\ i >= 1 /\ i <= Len(toks) /\ Len(toks) \in Nat
    BY DEF Words
  <1>2. PICK x : HeardIn("en", toks, i) = <<x>> /\ x.vague /\ i + 1 \in i .. (x.end - 1)
    BY SeveralHeard
  <1>3. PICK k \in DOMAIN nums : i \in nums[k].start .. (nums[k].end - 1)
    <2>1. <<x>> # <<>>
      OBVIOUS
    <2>2. HeardIn("en", toks, i) # <<>>
      BY <1>2, <2>1, Zenon
    <2> QED BY <1>0, <2>2, Scanned DEF AllHeard
  <1> DEFINE y == nums[k]
             j == y.start
  <1>4. HeardIn("en", toks, j) = <<y>> /\ j \in 1 .. Len(toks) /\ y.end \in Int
    <2>1. NumberFits(y, Len(toks)) /\ HeardIn("en", toks, y.start) = <<y>>
      BY <1>0, NumbersFit
    <2> HIDE DEF y
    <2> QED BY <1>1, <2>1 DEF NumberFits
  <1>5. i \in j .. (y.end - 1)
    BY <1>3
  <1> HIDE DEF y, j, nums
  <1>6. j = i
    <2>1. j \in Nat /\ j <= Len(toks) /\ j <= i
      BY <1>1, <1>4, <1>5
    <2>2. i < j + M(j) \/ toks[i] \in Numerals(t)
      BY <1>0, <1>4, <1>5, <2>1, FoundWords
    <2>3. toks[i] \notin Numerals(t)
      BY SpellingTables DEF SpellsEnglish
    <2>4. \A a \in 1 .. (i - 1) : a + M(a) <= i
      <3> DEFINE w == toks[i]
      <3>1. <<w>> \in DOMAIN t.vagues /\ w \notin WordsOf(DOMAIN t.vagues \ {<<w>>})
        BY SpellingTables DEF SpellsEnglish
      <3>2. DOMAIN t.vagues \in SUBSET (Words \ {<<>>})
        BY <1>0, Tables
      <3> HIDE DEF w
      <3> QED BY <3>1, <3>2, MatchedAlone DEF w
    <2>5. j # i => j \in 1 .. (i - 1)
      BY <1>1, <1>4, <2>1
    <2>6. M(j) \in Nat
      <3>1. DOMAIN t.vagues \in SUBSET (Words \ {<<>>})
        BY <1>0, Tables
      <3> QED BY <2>1, <3>1, Matched
    <2> HIDE DEF M
    <2> QED BY <1>1, <2>1, <2>2, <2>3, <2>4, <2>5, <2>6
  <1>7. y = x
    BY <1>2, <1>4, <1>6
  <1>8. y.vague /\ i + 1 \in y.start .. (y.end - 1)
    BY <1>2, <1>6, <1>7 DEF j
  <1> QED BY <1>8 DEF y, nums

-----------------------------------------------------------------------------
(* Whatever is spelled and said. *)

NumberSpelled == number \in Nat /\ number \div 1000 < 1000

LEMMA NumberInvariant == Spec => []NumberSpelled
  <1>1. Init => NumberSpelled
    <2> SUFFICES ASSUME Init
                 PROVE  NumberSpelled
      OBVIOUS
    <2>1. number \in Numbers \/ number = 0
      BY DEF Init
    <2>2. 0 \in Nat /\ 0 \div 1000 < 1000
      OBVIOUS
    <2> QED BY <2>1, <2>2, UtterancesAssumption DEF NumberSpelled
  <1>2. NumberSpelled /\ [Next]_vars => NumberSpelled'
    <2>1. [Next]_vars => number' = number
      BY DEF Next, Say, vars
    <2> QED BY <2>1 DEF NumberSpelled
  <1> QED BY <1>1, <1>2, PTL DEF Spec

\* Every number spelled out in English or in Spanish is found once, whole and
\* exact, at its own place; after "more or less" it is approximate; and the
\* scale words after "several" are never an exact number (ScanNumbers, parseRun).
THEOREM NumbersAreHeard == Spec => []NumbersHeard
  <1>1. NumberSpelled /\ TextFits => NumbersHeard
    <2> SUFFICES ASSUME NumberSpelled, TextFits
                 PROVE  NumbersHeard
      OBVIOUS
    <2>1. "en" \in {"en", "es"} /\ "es" \in {"en", "es"} /\ "boxes" \in Counted /\ "cajas" \in Counted
      BY DEF Counted
    <2>2. number \in Nat /\ number \div 1000 < 1000
      BY DEF NumberSpelled
    <2>3. ASSUME NEW w \in {InEnglish(number, <<>>), InEnglish(number, <<"and">>)}
          PROVE  /\ Exactly(In("en")!ScanNumbers(<<"bin">> \o w \o <<"boxes">>),
                            number, FALSE, 2, 2, Len(w) + 2)
                 /\ Exactly(In("en")!ScanNumbers(MoreOrLess.en \o w),
                            number, TRUE, 1, 4, Len(w) + 4)
      <3>1. Spelled("en", w) /\ Makes("en", w, number)
        BY <2>2, <2>3, EnglishMakes
      <3>2. MoreOrLess.en = MoreOrLess["en"]
        OBVIOUS
      <3>3. Exactly(In("en")!ScanNumbers(<<"bin">> \o w \o <<"boxes">>), number, FALSE, 2, 2, Len(w) + 2)
        <4> DEFINE x == "boxes"
        <4> HIDE DEF x
        <4>1. x \in Counted
          BY <2>1 DEF x
        <4>2. Exactly(In("en")!ScanNumbers(<<"bin">> \o w \o <<x>>), number, FALSE, 2, 2, Len(w) + 2)
          BY <2>1, <2>2, <3>1, <4>1, NumberAmong, ZenonT(40)
        <4> QED BY <4>2 DEF x
      <3>4. Exactly(In("en")!ScanNumbers(MoreOrLess["en"] \o w), number, TRUE, 1, 4, Len(w) + 4)
        BY <2>1, <2>2, <3>1, NumberMoreOrLess, ZenonT(40)
      <3> QED BY <3>2, <3>3, <3>4
    <2>4. LET w == InSpanish(number) IN
          /\ Exactly(In("es")!ScanNumbers(<<"bin">> \o w \o <<"cajas">>),
                     number, FALSE, 2, 2, Len(w) + 2)
          /\ Exactly(In("es")!ScanNumbers(MoreOrLess.es \o w),
                     number, TRUE, 1, 4, Len(w) + 4)
      <3> DEFINE w == InSpanish(number)
      <3>1. Spelled("es", w) /\ Makes("es", w, number)
        BY <2>2, SpanishMakes
      <3>2. MoreOrLess.es = MoreOrLess["es"]
        OBVIOUS
      <3> HIDE DEF w
      <3>3. Exactly(In("es")!ScanNumbers(<<"bin">> \o w \o <<"cajas">>), number, FALSE, 2, 2, Len(w) + 2)
        <4> DEFINE x == "cajas"
        <4> HIDE DEF x
        <4>1. x \in Counted
          BY <2>1 DEF x
        <4>2. Exactly(In("es")!ScanNumbers(<<"bin">> \o w \o <<x>>), number, FALSE, 2, 2, Len(w) + 2)
          BY <2>1, <2>2, <3>1, <4>1, NumberAmong, ZenonT(40)
        <4> QED BY <4>2 DEF x
      <3>4. Exactly(In("es")!ScanNumbers(MoreOrLess["es"] \o w), number, TRUE, 1, 4, Len(w) + 4)
        BY <2>1, <2>2, <3>1, NumberMoreOrLess, ZenonT(40)
      <3> QED BY <3>2, <3>3, <3>4 DEF w
    <2>5. LET w == En!foldsOf(Said)
              nums == In("en")!ScanNumbers(w)
          IN  \A i \in DOMAIN w : w[i] = "several" /\ In("en")!startsScale(w, i + 1) =>
                 \E k \in DOMAIN nums : nums[k].vague /\ i + 1 \in nums[k].start .. (nums[k].end - 1)
      <3> DEFINE w == En!foldsOf(Said)
      <3>1. w \in Words
        <4>1. Said \in Tokens
          BY CloneIsTokens DEF TextFits, Said
        <4>2. En!newParse(Said).w \in Words
          BY <4>1, NewParseFits DEF ParseFits
        <4> QED BY <4>2 DEF En!newParse
      <3> HIDE DEF w
      <3>2. DOMAIN w = 1 .. Len(w)
        BY <3>1 DEF Words
      <3> QED BY <3>1, <3>2, SeveralCovered DEF w
    <2> QED BY <2>3, <2>4, <2>5 DEF NumbersHeard
  <1> QED BY <1>1, NumberInvariant, TextInvariant, PTL
===============================================================================
