------------------------------ MODULE Language ------------------------------
(* lang/lang.go: the tables in use and the matching of their phrases.        *)
EXTENDS RulePacks

CONSTANTS Packs,   \* the rule tables by language: RulePacks
          Code     \* "en" or "es"

T == IF Code \in DOMAIN Packs THEN Packs[Code] ELSE Packs["en"]     \* GetOrDefault

\* The length of the longest of the phrases that starts at toks[i], or 0.
MatchAt(phrases, toks, i) ==
    LET here == {p \in phrases : /\ i + Len(p) - 1 <= Len(toks)
                                 /\ SubSeq(toks, i, i + Len(p) - 1) = p}
        lens == {Len(p) : p \in here}
    IN  IF lens = {} THEN 0 ELSE CHOOSE n \in lens : \A m \in lens : m <= n

maxApproxLen == 3

\* The approximation phrase that ends just before toks[i]: the first start from
\* maxApproxLen words back whose longest phrase ends there.
MatchApproxEndingAt(toks, i) ==
    LET ns == {n \in 1..maxApproxLen : i - n >= 1 /\ MatchAt(T.approxSet, toks, i - n) = n}
    IN  IF ns = {} THEN 0 ELSE CHOOSE n \in ns : \A m \in ns : m <= n
=============================================================================
