------------------------------ MODULE NumWords ------------------------------
(* lang/numword.go: the numbers spoken in a sequence of words.  A span is    *)
(* [start, end) over positions from 1; mark takes in the words that make the *)
(* number approximate.                                                       *)
EXTENDS Language

\* The tokens parseDigits reads as a number.
Digits == [w \in {"5", "14"} |-> IF w = "5" THEN 5 ELSE 14]

At(toks, i) == IF i <= Len(toks) THEN toks[i] ELSE ""

startsScale(toks, i) ==
    At(toks, i) \in T.ScaleHundred \cup T.DozenWords \cup DOMAIN T.ScaleBig

\* The words that bring a value of their own into a run.
Small == DOMAIN T.Ones \cup DOMAIN T.Tens \cup DOMAIN T.Hundreds

startsNumber(toks, i) ==
    At(toks, i) \in Small \cup DOMAIN Digits \/ startsScale(toks, i)

\* A run in progress: position, thousands so far, the group being built, and
\* which places of the group are taken.
NoRun == [ok |-> FALSE]

HalfDozen(toks, i) ==
    LET j == IF At(toks, i + 1) \in T.NumArticles THEN i + 2 ELSE i + 1
    IN  At(toks, j) \in T.DozenWords

OneOr(n) == IF n = 0 THEN 1 ELSE n

\* May the small word w still join the group?
Fits(r, w) ==
    \/ w \in DOMAIN T.Ones /\ ~r.ones
    \/ w \in DOMAIN T.Tens /\ ~r.tens /\ ~r.ones
    \/ w \in DOMAIN T.Hundreds /\ ~r.hund /\ ~r.tens /\ ~r.ones

RunStep(toks, r) ==
    LET w    == toks[r.i]
        skip == [r EXCEPT !.i = r.i + 1]
        go   == [skip EXCEPT !.started = TRUE]
        stop == [r EXCEPT !.done = TRUE]
        half == w \in T.HalfWords /\ ~r.started
        one  == /\ w \in T.NumArticles /\ ~r.ones /\ ~r.tens /\ r.cur = 0
                /\ startsScale(toks, r.i + 1)
    IN CASE half /\ HalfDozen(toks, r.i) -> [skip EXCEPT !.half = TRUE]
         [] one -> [go EXCEPT !.cur = 1, !.ones = TRUE]
         [] ~one /\ w \in DOMAIN T.Ones /\ Fits(r, w) ->
                [go EXCEPT !.cur = r.cur + T.Ones[w], !.ones = TRUE]
         [] w \in DOMAIN T.Tens /\ Fits(r, w) ->
                [go EXCEPT !.cur = r.cur + T.Tens[w], !.tens = TRUE]
         [] w \in DOMAIN T.Hundreds /\ Fits(r, w) ->
                [go EXCEPT !.cur = r.cur + T.Hundreds[w], !.hund = TRUE]
         [] w \in T.ScaleHundred /\ ~r.hund ->
                [go EXCEPT !.cur = 100 * OneOr(r.cur),
                           !.ones = FALSE, !.tens = FALSE, !.hund = TRUE]
         [] w \in DOMAIN T.ScaleBig /\ ~(r.cur = 0 /\ r.started) ->
                [go EXCEPT !.total = r.total + OneOr(r.cur) * T.ScaleBig[w], !.cur = 0,
                           !.ones = FALSE, !.tens = FALSE, !.hund = FALSE]
         [] w \in T.DozenWords ->
                [go EXCEPT !.cur = (OneOr(r.cur) * 12) \div (IF r.half THEN 2 ELSE 1),
                           !.done = TRUE]
         [] w \in T.NumConnectors /\ r.started /\ At(toks, r.i + 1) \in Small -> skip
         [] w \in DOMAIN Digits /\ ~r.started ->
                [go EXCEPT !.cur = Digits[w], !.ones = TRUE, !.tens = TRUE, !.hund = FALSE]
         [] OTHER -> stop

Step(toks, r) == IF r.done \/ r.i > Len(toks) THEN r ELSE RunStep(toks, r)

\* The run r carried on to its end: a step takes at least one word or stops.
Run(toks, r) ==
    LET after[k \in Nat] == IF k = 0 THEN r ELSE Step(toks, after[k - 1])
    IN  after[Len(toks) + 1 - r.i]

RunResult(r, i, seeded) ==
    IF ~r.started \/ (seeded /\ r.i = i) THEN NoRun
    ELSE [ok |-> TRUE, value |-> r.total + r.cur, end |-> r.i]

\* seed is the value of a vague phrase before a scale word, 0 without one.
parseRunFrom(toks, i, seed, seeded) ==
    RunResult(Run(toks, [i |-> i, total |-> 0, cur |-> seed, started |-> seeded,
                         ones |-> seeded, tens |-> FALSE, hund |-> FALSE,
                         half |-> FALSE, done |-> FALSE]), i, seeded)

parseRun(toks, i) == parseRunFrom(toks, i, 0, FALSE)

Number(toks, value, approx, start, end) ==
    LET m == MatchApproxEndingAt(toks, start)
    IN  [value |-> value, vague |-> value = NaN, approx |-> approx \/ m > 0,
         start |-> start, end |-> end, mark |-> start - m]

\* Faulty variant: the scale words after "several" are left for the next number.
ScaleLeftOver(toks, next, value) ==
    IF value # NaN /\ startsScale(toks, next) THEN parseRunFrom(toks, next, value, TRUE) ELSE NoRun

\* The scale words after a vague phrase: multiplied when it has a value, taken
\* along when it has none, so that they are not heard as an exact number.
VagueScale(toks, next, value) ==
    IF ~startsScale(toks, next) THEN NoRun
    ELSE IF value # NaN THEN parseRunFrom(toks, next, value, TRUE)
    ELSE parseRun(toks, next)

\* The vague phrase at toks[i]: its words, none when n = 0, and its value.
VagueAt(toks, i) ==
    LET n == MatchAt(DOMAIN T.vagues, toks, i)
    IN  [n |-> n, value |-> IF n > 0 THEN T.vagues[SubSeq(toks, i, i + n - 1)] ELSE 0]

\* The number at toks[i], <<>> when there is none: a vague phrase with scale
\* words, one with no number behind it, or a run.
Heard(toks, i, v, scale, run) ==
    CASE scale.ok -> <<Number(toks, IF v.value = NaN THEN NaN ELSE scale.value,
                              TRUE, i, scale.end)>>
      [] ~scale.ok /\ v.n > 0 /\ ~startsNumber(toks, i + v.n) ->
             <<Number(toks, v.value, TRUE, i, i + v.n)>>
      [] OTHER -> IF run.ok THEN <<Number(toks, run.value, FALSE, i, run.end)>> ELSE <<>>

HeardAt(toks, i, v) ==
    Heard(toks, i, v, IF v.n > 0 THEN VagueScale(toks, i + v.n, v.value) ELSE NoRun,
          parseRun(toks, i))

ScanOn(scan, i, found) == IF found = <<>> THEN scan[i + 1] ELSE found \o scan[found[1].end]

ScanNumbers(toks) ==
    LET scan[i \in Nat] ==
            IF i > Len(toks) THEN <<>>
            ELSE ScanOn(scan, i, HeardAt(toks, i, VagueAt(toks, i)))
    IN  scan[1]
=============================================================================
