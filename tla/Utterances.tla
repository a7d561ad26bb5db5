----------------------------- MODULE Utterances -----------------------------
(* The pure functions an utterance goes through, on every input up to a      *)
(* bound: a number spelled out in English and in Spanish, an English         *)
(* utterance put together phrase by phrase, two names of the reference data. *)
EXTENDS Integers, Sequences, FiniteSets, Matcher

CONSTANTS Packs,         \* the rule tables of both languages
          Numbers,       \* numbers to spell
          Phrases,       \* what is said: sequences of tokens
          MaxPhrases,    \* bound: phrases in an utterance
          Names,         \* names a part or a location can have
          NoQty, ExtraUnits, Thresholds

\* No name is empty (foldKeys); a threshold is a fraction (config.Validate);
\* numbers are spelled below a million.
ASSUME UtterancesAssumption ==
    /\ \A n \in Numbers : n \in Nat /\ n \div 1000 < 1000
    /\ Names \subseteq Seq(STRING) \ {<<>>}
    /\ Thresholds \in [{"asr", "quantity", "location", "item"} -> 0..100]
    /\ Phrases \subseteq Seq([w : STRING, end : BOOLEAN])

AllFields == {"quantity", "location", "item"}
En == INSTANCE Review WITH Code <- "en", Required <- AllFields
In(c) == INSTANCE NumWords WITH Code <- c

\* The words of phrases, and the words numbers are made of.
WordsOf(phrases) == UNION {{p[k] : k \in DOMAIN p} : p \in phrases}
Roles(t) == <<DOMAIN t.Ones, DOMAIN t.Tens, DOMAIN t.Hundreds, t.ScaleHundred, DOMAIN t.ScaleBig,
              t.DozenWords, t.HalfWords, t.NumConnectors, DOMAIN En!Digits>>
Numerals(t) == t.NumArticles \cup UNION {Roles(t)[k] : k \in DOMAIN Roles(t)}
NumberWords(t) == Numerals(t) \cup WordsOf(DOMAIN t.vagues)

\* Of every table: its numbers are whole and its phrases have words; a numeral
\* has one role, an article that begins a number may be a one besides; "of"
\* begins no location and no correction, and no location begins inside the
\* words that announce a correction (tables_en.go, tables_es.go).
ASSUME PacksAssumption ==
    /\ "en" \in DOMAIN Packs
    /\ \A c \in DOMAIN Packs :
          LET t      == Packs[c]
              starts == t.LocationPreps \cup t.LocationNouns
          IN  /\ \A f \in {t.Ones, t.Tens, t.Hundreds, t.ScaleBig, t.vagues} :
                    \A w \in DOMAIN f : f[w] \in Int
              /\ \A phrases \in {DOMAIN t.vagues, t.approxSet, t.negationSet} :
                    phrases \subseteq Seq(STRING) \ {<<>>}
              /\ \A j, k \in DOMAIN Roles(t) : j # k => Roles(t)[j] \cap Roles(t)[k] = {}
              /\ \A k \in DOMAIN Roles(t) : k # 1 => Roles(t)[k] \cap t.NumArticles = {}
              /\ t.Of \cap starts = {}
              /\ \A p \in t.negationSet :
                    p[1] \notin t.Of /\ \A k \in 2..Len(p) : p[k] \notin starts

\* Of English (tables_en.go): no location begins with a code or with a word of a
\* number; "no" announces a correction, alone and in no other role; the words
\* the corrections below are made of have the roles they have there, and none
\* that begins a location or another correction.
ASSUME EnglishAssumption ==
    LET t      == Packs["en"]
        starts == t.LocationPreps \cup t.LocationNouns
        counts == NumberWords(t) \cup WordsOf(t.approxSet)
        Alone(w, phrases) == <<w>> \in phrases /\ w \notin WordsOf(phrases \ {<<w>>})
    IN  /\ {"no", "b-2", "about", "thirty", "reels", "nails"} \subseteq STRING
        /\ starts \cap (counts \cup En!Letters \cup En!Codes) = {}
        /\ Alone("no", t.negationSet) /\ Alone("about", t.approxSet)
        /\ "no" \notin starts \cup counts \cup t.Articles \cup t.ChangeWords \cup DOMAIN t.FieldAliases
        /\ {"b-2", "about", "thirty", "reels"} \cap (starts \cup WordsOf(t.negationSet)) = {}
        /\ {"about", "reels", "nails"} \cap NumberWords(t) = {} /\ "nails" \notin starts
        /\ "thirty" \in DOMAIN t.Tens /\ t.Tens["thirty"] = 30
        /\ "thirty" \notin WordsOf(DOMAIN t.vagues \cup t.approxSet)
        /\ "reels" \in t.Units

\* Of the words numbers are spelled in (tables_en.go, tables_es.go): an article
\* that is a one counts one; a phrase of a vague number is not made of numerals
\* and units alone; a phrase of approximation has no more words than are looked
\* back at; the words put around a number below are no part of one.  Each number
\* up to nineteen (in Spanish twenty-nine), each ten and each hundred has a word.
MoreOrLess == [en |-> <<"more", "or", "less">>, es |-> <<"mas", "o", "menos">>]
SpellsNumbers(t, more) ==
    /\ Numerals(t) \cup {"bin", "boxes", "cajas"} \subseteq STRING /\ "" \notin Numerals(t)
    /\ \A w \in DOMAIN t.Ones \cap t.NumArticles : t.Ones[w] = 1
    /\ \A p \in DOMAIN t.vagues : \E k \in DOMAIN p : p[k] \notin Numerals(t) \cup {"boxes", "cajas"}
    /\ \A p \in t.approxSet : Len(p) <= 3
    /\ ({"bin", "boxes", "cajas"} \cup WordsOf({more})) \cap NumberWords(t) = {}
    /\ "bin" \notin WordsOf(t.approxSet) /\ more \in t.approxSet
    /\ \A k \in 2..9 : \E w \in DOMAIN t.Tens : t.Tens[w] = 10 * k
SpellsEnglish(t) ==
    /\ \A n \in 0..19 : \E w \in DOMAIN t.Ones : t.Ones[w] = n
    /\ "hundred" \in t.ScaleHundred /\ "and" \in t.NumConnectors
    /\ "thousand" \in DOMAIN t.ScaleBig /\ t.ScaleBig["thousand"] = 1000
    /\ <<"several">> \in DOMAIN t.vagues /\ t.vagues[<<"several">>] = -1
    /\ "several" \notin Numerals(t) \cup WordsOf(DOMAIN t.vagues \ {<<"several">>})
SpellsSpanish(t) ==
    /\ \A n \in (0..29) \ {20} : \E w \in DOMAIN t.Ones : t.Ones[w] = n
    /\ \A k \in 2..9 : \E w \in DOMAIN t.Hundreds : t.Hundreds[w] = 100 * k
    /\ {"cien", "ciento"} \subseteq t.ScaleHundred /\ "y" \in t.NumConnectors
    /\ "mil" \in DOMAIN t.ScaleBig /\ t.ScaleBig["mil"] = 1000
ASSUME SpellingAssumption ==
    /\ {"en", "es"} \subseteq DOMAIN Packs
    /\ \A c \in {"en", "es"} : SpellsNumbers(Packs[c], MoreOrLess[c])
    /\ SpellsEnglish(Packs["en"]) /\ SpellsSpanish(Packs["es"])

VARIABLES number,        \* to be spelled
          text,          \* the tokens said so far
          said,          \* how many phrases they are
          names          \* a pair of names, or none
vars == <<number, text, said, names>>

Init == /\ text = <<>> /\ said = 0
        /\ \/ number \in Numbers /\ names = <<>>
           \/ number = 0 /\ names \in Names \X Names

\* One more phrase, the clause open after it or closed.
Say == /\ number = 0 /\ names = <<>>
       /\ said < MaxPhrases /\ said' = said + 1
       /\ \E p \in Phrases : text' = text \o p
       /\ UNCHANGED <<number, names>>
Next == Say
Spec == Init /\ [][Next]_vars

\* The tokens of what was said; the last one always ends a clause.
Said == En!cloneAsUtterance(text)
Tok(w) == [w |-> w, end |-> FALSE]

---------------------------------------------------------------------------
(* Numbers *)

WordFor(f, v) == CHOOSE w \in DOMAIN f : f[w] = v

\* Numbers below a million, by the parts they are said in.
EnglishBelow100(n) ==
    LET T == In("en")!T IN
    IF n < 20 THEN <<WordFor(T.Ones, n)>>
    ELSE <<WordFor(T.Tens, n - (n % 10))>>
         \o (IF n % 10 = 0 THEN <<>> ELSE <<WordFor(T.Ones, n % 10)>>)
EnglishBelow1000(n, and) ==
    IF n < 100 THEN EnglishBelow100(n)
    ELSE EnglishBelow100(n \div 100) \o <<"hundred">>
         \o (IF n % 100 = 0 THEN <<>> ELSE and \o EnglishBelow100(n % 100))
InEnglish(n, and) ==
    IF n < 1000 THEN EnglishBelow1000(n, and)
    ELSE EnglishBelow1000(n \div 1000, <<>>) \o <<"thousand">>
         \o (IF n % 1000 = 0 THEN <<>> ELSE and \o EnglishBelow1000(n % 1000, and))

SpanishBelow100(n) ==
    LET T == In("es")!T IN
    IF n < 30 /\ n # 20 THEN <<WordFor(T.Ones, n)>>
    ELSE <<WordFor(T.Tens, n - (n % 10))>>
         \o (IF n % 10 = 0 THEN <<>> ELSE <<"y">> \o <<WordFor(T.Ones, n % 10)>>)
SpanishBelow1000(n) ==
    LET hundreds == IF n = 100 THEN "cien" ELSE IF n < 200 THEN "ciento"
                    ELSE WordFor(In("es")!T.Hundreds, n - (n % 100))
    IN  IF n < 100 THEN SpanishBelow100(n)
        ELSE <<hundreds>> \o (IF n % 100 = 0 THEN <<>> ELSE SpanishBelow100(n % 100))
InSpanish(n) ==
    IF n < 1000 THEN SpanishBelow1000(n)
    ELSE (IF n < 2000 THEN <<>> ELSE SpanishBelow1000(n \div 1000)) \o <<"mil">>
         \o (IF n % 1000 = 0 THEN <<>> ELSE SpanishBelow1000(n % 1000))

Exactly(nums, value, approx, mark, start, end) ==
    nums = <<[value |-> value, vague |-> FALSE, approx |-> approx,
              mark |-> mark, start |-> start, end |-> end]>>

CountsSomething(r) == r.quantity # NoQty \/ r.vague
\* Every number spelled out, in English with and without "and", is found once,
\* whole and exact, at its own place among other words; after "more or less" it
\* is approximate and takes the marker along.  And the scale words after
\* "several" are heard as no exact number, whatever surrounds them: numword.go,
\* "so it can't leak out as an exact, full-confidence number" (ScanNumbers).
NumbersHeard ==
    /\ \A w \in {InEnglish(number, <<>>), InEnglish(number, <<"and">>)} :
          /\ Exactly(In("en")!ScanNumbers(<<"bin">> \o w \o <<"boxes">>),
                     number, FALSE, 2, 2, Len(w) + 2)
          /\ Exactly(In("en")!ScanNumbers(MoreOrLess.en \o w),
                     number, TRUE, 1, 4, Len(w) + 4)
    /\ LET w == InSpanish(number) IN
          /\ Exactly(In("es")!ScanNumbers(<<"bin">> \o w \o <<"cajas">>),
                     number, FALSE, 2, 2, Len(w) + 2)
          /\ Exactly(In("es")!ScanNumbers(MoreOrLess.es \o w),
                     number, TRUE, 1, 4, Len(w) + 4)
    /\ LET w == En!foldsOf(Said)
           nums == In("en")!ScanNumbers(w)
       IN  \A i \in DOMAIN w : w[i] = "several" /\ In("en")!startsScale(w, i + 1) =>
              \E k \in DOMAIN nums : nums[k].vague /\ i + 1 \in nums[k].start..(nums[k].end - 1)

\* Of several items said with "and" between them, each after the first counts
\* something: a description with "and" in it is not torn in two (findItemCuts).
\* It is so where the article or unit after "and" is taken by no location and no
\* correction of that item and no clause ends at the article, as in the phrases
\* of the run: "and a, box" is an item that counts nothing.
ItemsAreCounted ==
    LET results == En!ParseAll(Said)
    IN  \A k \in DOMAIN results : k > 1 => CountsSomething(results[k])

---------------------------------------------------------------------------
(* Slots *)

Partition(spans, S) ==
    /\ UNION {spans[k] : k \in DOMAIN spans} = S
    /\ \A j, k \in DOMAIN spans : j # k => spans[j] \cap spans[k] = {}
Slotted(r, toks) == Partition(r.spans, DOMAIN toks)
SlottedParts(parts, results) == \A k \in DOMAIN parts : Slotted(results[k], parts[k])

\* Every word of an utterance has one slot: no number of an aisle is also the
\* quantity, no word corrected away is also the item, and what no slot claims
\* is left for the description.  So for each part when an utterance names
\* several items (parseTokens, ParseAll).
OneSlotPerWord ==
    Said # <<>> => /\ Slotted(En!parseTokens(Said), Said)
                   /\ SlottedParts(En!Parts(Said), En!ParseAll(Said))

Correction(ws) == En!cloneAsUtterance(<<Tok("no")>> \o [k \in DOMAIN ws |-> Tok(ws[k])])

CountsThirty(r) == r.quantity = 30 /\ r.approx /\ ~r.vague
Sets(c, r) ==
    c.kind = "set" => c.value = IF c.field = "location" THEN r.location ELSE r.quantity

\* What is said after "no" at the end of an utterance is the value of its slot,
\* whatever was said or corrected before, and is the value the same words give
\* when they are said in review (applyNegations, ParseCommand).
CorrectionWins ==
    /\ Said # <<>> =>
        /\ En!parseTokens(Said \o Correction(<<"b-2">>)).location = << <<"", <<"b", 2>> >> >>
        /\ CountsThirty(En!parseTokens(Said \o Correction(<<"about", "thirty", "reels">>)))
    /\ (\A k \in DOMAIN Said : Said[k].end => k = Len(Said)) =>
        Sets(En!ParseCommand(<<Tok("no")>> \o Said),
             En!parseTokens(<<[w |-> "nails", end |-> TRUE], Tok("no")>> \o Said))

---------------------------------------------------------------------------
(* Review *)

Flagged(o, qs, res) ==
    /\ En!AutoConfirmed(o) =>
          En!doubtful(o) = {} /\ o.unresolved = {} /\ ~o.vague /\ ~o.approx
    /\ \A f \in {"location", "item"} :
          En!reviewObs(En!editText(o, f, res)) = {} => En!doubtful(o) \subseteq {f}
    /\ \A q \in qs : En!reviewObs(En!editQuantity(o, q)) = {} =>
          ~q.approx /\ En!doubtful(o) \subseteq {"quantity"}

\* What the resolver can say of a field; of one that is absent it says nothing.
ResolvedTo(present) == IF present THEN En!Resolutions ELSE {En!NoData}

FlaggedAtAll(r, qs) ==
    \A asr \in {0, 69, 70, 100}, loc \in ResolvedTo(r.location # <<>>),
       item \in ResolvedTo(r.item # {}) :
        LET o == En!Judged(r, asr, loc, item)
        IN  Flagged(o, qs, item) /\ (En!AutoConfirmed(o) => asr >= Thresholds.asr)

\* A record that does not ask for review is one the readback has nothing to
\* highlight on, whose quantity is exact and whose location and item are known
\* as far as reference data goes; it may be saved unasked.  A correction of one
\* field leaves the low confidences of the others standing.  So it is of each
\* item of several, one that took over its location included (ParseAll, review,
\* reviewObs, doubtful, editObservation).
DoubtIsFlagged ==
    LET results == En!ParseAll(Said)
        qs      == En!ParseQuantityText(Said)
    IN  /\ FlaggedAtAll(En!parseTokens(Said), qs)
        /\ \A k \in DOMAIN results : FlaggedAtAll(results[k], qs)

---------------------------------------------------------------------------
(* Reference data *)

\* A name of the reference data finds its owner: spoken as it is written it
\* resolves to an entry of that name, up to a plural ending; and a full score is
\* given to no other text (bestScore, Resolve*, Jaro).
NameFindsItsOwner ==
    names # <<>> =>
        LET entries == <<{names[1]}, {names[2]}>> IN
        /\ \A q \in {names[1], names[2]}, code \in BOOLEAN :
              LET e == Resolve(q, entries, code) IN
              e # 0 /\ depluralize(names[e]) = depluralize(q)
        /\ JaroWinkler(names[1], names[2]).n = JaroWinkler(names[1], names[2]).d
              <=> names[1] = names[2]
=============================================================================
