------------------------------- MODULE Parser -------------------------------
(* parser/: an utterance becomes quantity, unit, location, item and          *)
(* description.  A token is a folded word and whether a clause ends after    *)
(* it; a parse is the tokens, their clause numbers and the numbers found in  *)
(* them; used is the set of positions some slot has consumed.  Texts are     *)
(* kept as positions, values of locations as letter and number, so that      *)
(* "a 14" and "A-14" are one location.                                       *)
EXTENDS NumWords

CONSTANTS NoQty,         \* a nil quantity
          ExtraUnits     \* units of the reference data
Letters == {"a"}         \* isSingleLetter
CodeValue == [w \in {"a-14", "b-2"} |-> IF w = "a-14" THEN <<"a", 14>> ELSE <<"b", 2>>]
Codes == DOMAIN CodeValue                                       \* isCodeTok

foldsOf(toks) == [i \in DOMAIN toks |-> toks[i].w]
\* The tokens as an utterance of their own.
cloneAsUtterance(toks) == IF toks = <<>> THEN toks ELSE [toks EXCEPT ![Len(toks)].end = TRUE]

Clause(toks, i) == Cardinality({j \in 1..(i - 1) : toks[j].end})

newParse(toks) == [w |-> foldsOf(toks), n |-> Len(toks),
                   clause |-> [i \in DOMAIN toks |-> Clause(toks, i)],
                   nums |-> ScanNumbers(foldsOf(toks))]

Nums(p) == {p.nums[k] : k \in DOMAIN p.nums}
MinOf(S) == CHOOSE x \in S : \A y \in S : x <= y
clauseEnd(p, i) ==
    MinOf({j \in (i + 1)..(p.n + 1) : j = p.n + 1 \/ p.clause[j] # p.clause[i]})

\* The whole numbers up to 9999 that start at i: a set of at most one.
intNumSpanAt(p, i) == {x \in Nums(p) : x.start = i /\ ~x.vague /\ x.value \in 0..9999}

---------------------------------------------------------------------------
(* Locations *)

\* The position after the value of an anchor noun, or 0 when it has none.
ValueEnd(p, noun) ==
    LET v   == noun + 1
        end == clauseEnd(p, noun)
        At1(i) == {x.end : x \in {y \in intNumSpanAt(p, i) : y.end <= end}}
    IN CASE p.w[v] \in Codes -> v + 1
         [] p.w[v] \in Letters -> IF At1(v + 1) = {} THEN v + 1 ELSE MinOf(At1(v + 1))
         [] OTHER -> IF At1(v) = {} THEN 0 ELSE MinOf(At1(v))

\* One segment as a set: empty when there is none.
segFromNoun(p, used, noun, start) ==
    IF noun + 1 >= clauseEnd(p, noun) \/ noun + 1 \in used \/ ValueEnd(p, noun) = 0 THEN {}
    ELSE {[start |-> start, end |-> ValueEnd(p, noun), val |-> noun + 1,
           anchor |-> IF p.w[noun] \in T.KeepAnchorNouns THEN p.w[noun] ELSE ""]}

\* Past the preposition at i and the articles after it, in i's clause.
AfterArticles(p, i) ==
    MinOf({j \in (i + 1)..(p.n + 1) :
             j = p.n + 1 \/ ~(p.w[j] \in T.Articles /\ p.clause[j] = p.clause[i])})

segAt(p, used, i) ==
    IF p.w[i] \in T.LocationPreps
    THEN LET j == AfterArticles(p, i) IN
         CASE j > p.n \/ (j <= p.n /\ p.clause[j] # p.clause[i]) -> {}
           [] j <= p.n /\ p.clause[j] = p.clause[i] /\ p.w[j] \in T.LocationNouns ->
                  segFromNoun(p, used, j, i)
           [] OTHER -> IF p.w[j] \in Codes /\ j \notin used
                       THEN {[start |-> i, end |-> j + 1, val |-> j, anchor |-> ""]} ELSE {}
    ELSE IF p.w[i] \in T.LocationNouns THEN segFromNoun(p, used, i, i) ELSE {}

One(S) == CHOOSE x \in S : TRUE

\* Adjacent segments from i on, in its clause.
Segments(p, i) ==
    LET segs[j \in Nat] ==
            IF j > p.n \/ p.clause[j] # p.clause[i] \/ segAt(p, {}, j) = {} THEN <<>>
            ELSE LET s == One(segAt(p, {}, j)) IN <<s>> \o segs[s.end]
    IN  segs[i]

renderLocValue(p, s) ==
    LET letter == s.end - s.val >= 2 /\ p.w[s.val] \in Letters
        after  == intNumSpanAt(p, s.val + 1)
        whole  == {x \in intNumSpanAt(p, s.val) : x.end = s.end}
    IN CASE letter /\ after # {} -> <<p.w[s.val], One(after).value>>
         [] ~(letter /\ after # {}) /\ whole # {} -> <<"", One(whole).value>>
         [] OTHER -> IF p.w[s.val] \in Codes THEN CodeValue[p.w[s.val]]
                     ELSE <<p.w[s.val], NaN>>

renderLocation(p, segs) ==
    [k \in DOMAIN segs |-> <<segs[k].anchor, renderLocValue(p, segs[k])>>]

extractLocation(p) ==
    LET at == {i \in 1..p.n : segAt(p, {}, i) # {}}
    IN  IF at = {} THEN <<>> ELSE Segments(p, MinOf(at))

Span(from, to) == from..(to - 1)                \* the positions of [from, to)
SpanOf(segs) == UNION {Span(segs[k].start, segs[k].end) : k \in DOMAIN segs}

\* All of [i, end) as segments, across clauses; <<>> when some word fits none.
Cover(p, used, i, end) ==
    LET cover[j \in Nat] ==
            LET seg == segAt(p, used, j) IN
            IF j >= end \/ seg = {} \/ (seg # {} /\ One(seg).end > end) THEN <<>>
            ELSE IF One(seg).end = end THEN <<One(seg)>>
            ELSE LET rest == cover[One(seg).end]
                 IN  IF rest = <<>> THEN <<>> ELSE <<One(seg)>> \o rest
    IN  cover[i]

locationFromSpan(p, used, start, end) ==
    LET after == {x \in intNumSpanAt(p, start + 1) : x.end = end}
    IN CASE start >= end -> <<>>
         [] end - start = 1 /\ p.w[start] \in Codes -> << <<"", CodeValue[p.w[start]]>> >>
         [] end - start > 1 /\ p.w[start] \in Letters /\ after # {} ->
                << <<"", <<p.w[start], One(after).value>> >> >>
         [] OTHER -> renderLocation(p, Cover(p, used, start, end))

---------------------------------------------------------------------------
(* Corrections: "..., no, A-14" *)

IsUnit(w) == w \in T.Units \cup ExtraUnits

\* The number a span is, with a unit after it or not: a set of at most one.
qtyFromSpan(p, start, end) ==
    LET at == {k \in DOMAIN p.nums : start \in {p.nums[k].mark, p.nums[k].start}} IN
    IF at = {} THEN {} ELSE
    LET x == p.nums[MinOf(at)] IN
    IF x.vague \/ ~(x.end = end \/ (x.end = end - 1 /\ IsUnit(p.w[end - 1]))) THEN {}
    ELSE {[qty |-> x.value, approx |-> x.approx, unit |-> IF x.end = end THEN 0 ELSE end - 1]}

NoOverride == [loc |-> <<>>, qty |-> {}, used |-> {}]

\* Faulty variant: the first correction of a slot stands.
KeepFirst(o, loc, qty, span) ==
    [loc |-> IF o.loc # <<>> THEN o.loc ELSE loc, qty |-> IF o.qty # {} THEN o.qty ELSE qty,
     used |-> o.used \cup span]

\* A later correction of a slot replaces an earlier one.
Override(o, loc, qty, span) ==
    [loc |-> IF loc # <<>> THEN loc ELSE o.loc, qty |-> IF qty # {} THEN qty ELSE o.qty,
     used |-> o.used \cup span]

\* The span [from, to) after a marker at i is a location, or else a quantity;
\* anything else is no correction.
Replace(o, loc, qty, span) ==
    IF loc # <<>> THEN Override(o, loc, {}, span)
    ELSE IF qty # {} THEN Override(o, <<>>, qty, span) ELSE o
CorrectedBy(p, o, loc, from, to, span) == Replace(o, loc, qtyFromSpan(p, from, to), span)

\* Up to the end of the marker's clause, or of the next when it ends one.
CorrectionEnd(p, i, from) ==
    IF from < clauseEnd(p, i) THEN clauseEnd(p, i)
    ELSE IF from > p.n THEN from ELSE clauseEnd(p, from)

\* At word i, a marker of n words when n > 0.
CorrectionAt(p, taken, o, i, n) ==
    LET from == i + n
        to   == CorrectionEnd(p, i, from)
    IN  IF n > 0 /\ from < to /\ ({i} \cup Span(from, to)) \cap taken = {}
        THEN CorrectedBy(p, o, locationFromSpan(p, taken, from, to), from, to, Span(i, to))
        ELSE o

Negation(p, used, o, i) ==
    CorrectionAt(p, used \cup o.used, o, i, MatchAt(T.negationSet, p.w, i))

\* From the second word on: an utterance that begins with "no" is a command.
applyNegations(p, used) ==
    LET upTo[i \in Nat] == IF i < 2 THEN NoOverride ELSE Negation(p, used, upTo[i - 1], i)
    IN  upTo[p.n]

---------------------------------------------------------------------------
(* Slots *)

\* Past the words "of" from j on, before end.
PastOf(p, j, end) ==
    IF j >= end THEN j ELSE MinOf({k \in j..end : k = end \/ p.w[k] \notin T.Of})

NoCount == [num |-> {}, unit |-> 0, after |-> 0, of |-> {}, value |-> NoQty,
            approx |-> FALSE, vague |-> FALSE, article |-> FALSE]

\* Faulty variant: a number a location took is counted as well.
FreeAll(p, used) == DOMAIN p.nums

\* The numbers no location or correction has a word of.
FreeNums(p, used) ==
    {k \in DOMAIN p.nums : Span(p.nums[k].mark, p.nums[k].end) \cap used = {}}

\* The first free number, [of] [unit] [of]; a word before "of" is a unit too.
CountNumber(p, used) ==
    LET x    == p.nums[MinOf(FreeNums(p, used))]
        end  == clauseEnd(p, x.end - 1)
        j    == PastOf(p, x.end, end)
        unit == /\ j < end /\ j \notin used
                /\ IsUnit(p.w[j]) \/ (j + 1 < end /\ p.w[j + 1] \in T.Of)
        k    == IF unit THEN j + 1 ELSE j
        last == IF j < end /\ j \notin used THEN PastOf(p, k, end) ELSE j
    IN  [num |-> Span(x.mark, x.end), unit |-> IF unit THEN j ELSE 0, after |-> last,
         of |-> Span(x.end, last) \ (IF unit THEN {j} ELSE {}),
         value |-> IF x.vague THEN NoQty ELSE x.value, approx |-> x.approx /\ ~x.vague,
         vague |-> x.vague, article |-> FALSE]

\* "a box of nails" counts one, unless a number was spoken or corrected.
CountArticle(p, used) ==
    LET at == {i \in 1..(p.n - 1) : /\ {i, i + 1} \cap used = {} /\ p.w[i] \in T.NumArticles
                                    /\ p.clause[i] = p.clause[i + 1] /\ IsUnit(p.w[i + 1])}
        i  == MinOf(at)
        last == PastOf(p, i + 2, clauseEnd(p, i))
    IN  IF at = {} THEN NoCount
        ELSE [NoCount EXCEPT !.num = {i}, !.unit = i + 1, !.after = last,
                             !.of = Span(i + 2, last), !.value = 1, !.article = TRUE]

Count(p, used, ov) ==
    CASE FreeNums(p, used) # {} -> CountNumber(p, used)
      [] FreeNums(p, used) = {} /\ ov.qty = {} -> CountArticle(p, used)
      [] OTHER -> NoCount

\* The unconsumed run of one clause the item is: after the count, else the first.
ItemSpan(p, used, after) ==
    LET free == (1..p.n) \ used
        late == {i \in free : after > 0 /\ i >= after}
        from == MinOf(IF late # {} THEN late ELSE free)
    IN  IF free = {} THEN {}
        ELSE {i \in free : i >= from /\ p.clause[i] = p.clause[from] /\ from..i \subseteq free}

\* Conjunctions that begin a run of leftover words are not described.
LeadingConjunctions(p, free) ==
    {i \in free : \E s \in free : /\ s <= i /\ s..i \subseteq free /\ s - 1 \notin free
                                  /\ \A k \in s..i : p.w[k] \in T.Conjunctions}

\* Parse certainty of the quantity, in hundredths.
CertQuantity(value, vague, approx, article) ==
    CASE value = NoQty /\ ~vague -> 0
      [] vague -> 35
      [] ~vague /\ value # NoQty /\ approx -> 50
      [] ~vague /\ value # NoQty /\ ~approx -> IF article THEN 85 ELSE 100

\* The slots, from the location, the corrections, the count, the words taken
\* before the item is looked for, and the item.
Slots(p, group, ov, c, used, item) ==
    LET left   == ((1..p.n) \ used) \ item
        q      == IF ov.qty = {} THEN [qty |-> c.value, approx |-> c.approx, unit |-> 0]
                  ELSE One(ov.qty)
        \* nothing left to be the item: the unit word was the item
        demote == item = {} /\ c.unit > 0 /\ q.unit = 0
        unit   == IF q.unit > 0 THEN q.unit ELSE c.unit
        vague  == ov.qty = {} /\ c.vague
    IN  [location |-> IF ov.loc # <<>> THEN ov.loc ELSE renderLocation(p, group),
         quantity |-> q.qty, approx |-> q.approx, vague |-> vague,
         unit |-> IF demote THEN 0 ELSE unit,
         item |-> IF demote THEN {c.unit} ELSE item,
         description |-> left \ LeadingConjunctions(p, left),
         overridden |-> {f \in {"location", "quantity"} :
                           \/ f = "location" /\ ov.loc # <<>> /\ group # <<>>
                           \/ f = "quantity" /\ ov.qty # {} /\ (c.value # NoQty \/ c.vague)},
         certQuantity |-> CertQuantity(q.qty, vague, q.approx, c.article),
         carried |-> 0,                        \* how many items ago its location was said
         \* which positions went where
         spans |-> <<SpanOf(group), ov.used, c.num, c.of, {c.unit} \ {0}, item, left>>]

Itemed(p, group, ov, c, used) == Slots(p, group, ov, c, used, ItemSpan(p, used, c.after))
Counted(p, group, ov, used, c) ==
    Itemed(p, group, ov, c, used \cup c.num \cup c.of \cup ({c.unit} \ {0}))
Corrected(p, group, ov) ==
    LET used == SpanOf(group) \cup ov.used IN Counted(p, group, ov, used, Count(p, used, ov))
Located(p, group) == Corrected(p, group, applyNegations(p, SpanOf(group)))
Parsed(p) == Located(p, extractLocation(p))

parseTokens(toks) == Parsed(newParse(toks))

---------------------------------------------------------------------------
(* Several items in one utterance *)

\* Faulty variant: every "and" outside a number starts an item.
itemCutsAnywhere(p) ==
    LET inNum == UNION {Span(x.mark, x.end) : x \in Nums(p)}
    IN  {i \in 2..(p.n - 1) : p.w[i] \in T.Conjunctions /\ i \notin inNum}

\* The conjunctions that begin a new item.
itemCutsOf(p) ==
    LET inNum == UNION {Span(x.mark, x.end) : x \in Nums(p)}
        Starts(i) == {x \in Nums(p) : x.start = i}
        Counts(e) == e <= p.n /\ (IsUnit(p.w[e]) \/ At(p.w, e + 1) \in T.Of)
    IN  {i \in 2..(p.n - 1) :
            /\ p.w[i] \in T.Conjunctions /\ i \notin inNum
            /\ IF Starts(i + 1) # {} THEN Counts(One(Starts(i + 1)).end)
               ELSE p.w[i + 1] \in T.NumArticles /\ IsUnit(At(p.w, i + 2))}
findItemCuts(toks) == itemCutsOf(newParse(toks))

\* The parts between the cuts, each an utterance of its own.
PartsCut(toks, cuts) ==
    LET parts[from \in Nat] ==
            LET later == {c \in cuts : c >= from}
                end   == IF later = {} THEN Len(toks) + 1 ELSE MinOf(later)
                part  == cloneAsUtterance(SubSeq(toks, from, end - 1))
            IN  (IF part = <<>> THEN <<>> ELSE <<part>>)
                \o (IF later = {} THEN <<>> ELSE parts[end + 1])
    IN  parts[1]

Parts(toks) == PartsCut(toks, findItemCuts(toks))

\* The item that says where item k is: the last one up to k with a location.
PlaceOf(results, k) ==
    LET known == {j \in 1..k : results[j].location # <<>>}
    IN  IF known = {} THEN k ELSE CHOOSE j \in known : \A l \in known : l <= j

ParseEach(parts) == [k \in DOMAIN parts |-> parseTokens(parts[k])]
\* A later item without a location is where the one before it is, less surely.
Inherited(results) ==
    [k \in DOMAIN results |->
        LET j == PlaceOf(results, k)
        IN  [results[k] EXCEPT !.location = results[j].location, !.carried = k - j]]

ParseAll(toks) == Inherited(ParseEach(Parts(toks)))

---------------------------------------------------------------------------
(* Commands spoken in review *)

allIn(folds, words) == folds # <<>> /\ \A i \in DOMAIN folds : folds[i] \in words
Command(kind, field, value) == [kind |-> kind, field |-> field, value |-> value]
Dictation == Command("none", "", <<>>)

\* "[change] [the] <field> [is|to] <value>"; the value is a span of positions.
parseSetField(folds) ==
    LET change == At(folds, 1) \in T.ChangeWords
        a == IF change THEN 2 ELSE 1
        f == IF At(folds, a) \in T.Articles THEN a + 1 ELSE a
        sep == At(folds, f + 1) \in T.IsWords \cup T.ToWords
        v == IF sep THEN f + 2 ELSE f + 1
    IN  IF At(folds, f) \in DOMAIN T.FieldAliases /\ (sep \/ change) /\ v <= Len(folds)
        THEN {Command("set", T.FieldAliases[folds[f]], Span(v, Len(folds) + 1))} ELSE {}

\* "no, A-14", "no, fifteen", "no": all of the rest is a location or a quantity.
SetTo(loc, qty, otherwise) ==
    IF loc # <<>> THEN Command("set", "location", loc)
    ELSE IF qty # {} THEN Command("set", "quantity", One(qty).qty) ELSE otherwise
SetToAll(p, otherwise) ==
    SetTo(locationFromSpan(p, {}, 1, p.n + 1), qtyFromSpan(p, 1, p.n + 1), otherwise)
Shorthand(rest, otherwise) ==
    IF rest = <<>> THEN otherwise ELSE SetToAll(newParse(rest), otherwise)

CommandOf(toks, folds, field, n) ==
    LET rejected == IF allIn(folds, T.RejectWords) THEN Command("reject", "", <<>>)
                    ELSE Dictation
    IN CASE folds = <<>> -> Dictation
         [] folds # <<>> /\ MatchAt(T.scratchSet, folds, 1) = Len(folds) ->
                Command("scratch", "", <<>>)
         [] allIn(folds, T.ConfirmWords) -> Command("confirm", "", <<>>)
         [] OTHER -> IF field # {} THEN One(field)
                     ELSE IF n > 0
                     THEN Shorthand(cloneAsUtterance(SubSeq(toks, n + 1, Len(toks))), rejected)
                     ELSE rejected

ParseFolds(toks, folds) ==
    CommandOf(toks, folds, parseSetField(folds), MatchAt(T.negationSet, folds, 1))
ParseCommand(toks) == ParseFolds(toks, foldsOf(toks))

\* The value of a spoken quantity on its own: the first number that has one.
FirstSure(nums) ==
    LET sure == {k \in DOMAIN nums : ~nums[k].vague}
    IN  IF sure = {} THEN {} ELSE {[qty |-> nums[MinOf(sure)].value,
                                   approx |-> nums[MinOf(sure)].approx]}
ParseQuantityText(toks) == FirstSure(ScanNumbers(foldsOf(toks)))
=============================================================================
