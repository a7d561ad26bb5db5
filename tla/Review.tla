------------------------------- MODULE Review -------------------------------
(* The judgement session.go makes of a parsed record: its confidences, when  *)
(* it needs review, what the readback highlights, and what a correction of   *)
(* one field leaves of that.  Confidences are in hundredths; a product of    *)
(* two is compared in ten-thousandths.                                       *)
EXTENDS Parser

CONSTANTS Required,      \* the configured required fields
          Thresholds     \* [asr, quantity, location, item]

\* What the resolver says of a text: no reference data, no match, or a score
\* (its threshold is 85).
NoData == -2
NoMatch == -1
Resolutions == {NoData, NoMatch, 85, 100}

CertLocation(r, res) == CASE r.location = <<>> -> 0
                          [] r.location # <<>> /\ res = NoData -> 75
                          [] r.location # <<>> /\ res = NoMatch -> 60
                          [] OTHER -> res
CertItem(r, res) == CASE r.item = {} -> 0
                      [] r.item # {} /\ res = NoData -> 80
                      [] r.item # {} /\ res = NoMatch -> 70
                      [] OTHER -> res

\* Each item a location is carried on to is a tenth less sure of it.
Carried(conf, items) == (conf * 9 ^ items) \div 10 ^ items

\* A stored record: which fields it has, its confidences and what matched.
Judged(r, asr, loc, item) ==
    [quantity |-> r.quantity # NoQty, location |-> r.location # <<>>, item |-> r.item # {},
     vague |-> r.vague, approx |-> r.approx,
     conf |-> [asr |-> 100 * asr, quantity |-> r.certQuantity * asr,
               location |-> Carried(CertLocation(r, loc) * asr, r.carried),
               item |-> CertItem(r, item) * asr],
     unresolved |-> {f \in {"location", "item"} :
                       \/ f = "location" /\ r.location # <<>> /\ loc = NoMatch
                       \/ f = "item" /\ r.item # {} /\ item = NoMatch}]

Fields == {"quantity", "location", "item"}
Low(o, f) == o.conf[f] < 100 * Thresholds[f]

confidenceReasons(o) ==
    {<<"low", f>> : f \in {g \in Fields : o[g] /\ Low(o, g)}}
    \cup (IF o.conf.asr > 0 /\ Low(o, "asr") THEN {<<"low", "asr">>} ELSE {})

Missing(o) == {<<"no", f>> : f \in {g \in Required \cap Fields : ~o[g]}}

\* The reasons of a stored record after a correction, and of a fresh one, which
\* also says what the reference data does not know.
reviewObs(o) == Missing(o) \cup confidenceReasons(o)
review(o) == reviewObs(o) \cup {<<"unknown", f>> : f \in o.unresolved}

\* The fields the readback highlights.
doubtful(o) == {f \in Fields : ~o[f] \/ Low(o, f)}

\* A field replaced by voice or by hand: quantity from spoken words, location
\* and item with what the resolver says of the new text.
editQuantity(o, q) == [o EXCEPT !.quantity = TRUE, !.vague = FALSE, !.approx = q.approx,
                                !.conf.quantity = IF q.approx THEN 5000 ELSE 9500]
editText(o, f, res) ==
    [o EXCEPT ![f] = TRUE, !.conf[f] = IF res >= 0 THEN 100 * res ELSE 9000,
              !.unresolved = IF res = NoMatch THEN o.unresolved \cup {f} ELSE o.unresolved \ {f}]

---------------------------------------------------------------------------
(* enterReview saves a record without asking when the device is set to and   *)
(* nothing needs review.                                                     *)
AutoConfirmed(o) == review(o) = {}
=============================================================================
