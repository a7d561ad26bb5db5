----------------------------- MODULE RulePacks -----------------------------
(* lang/tables_en.go, tables_es.go: the rule tables of the two languages, cut *)
(* to some of their words.  There is a word for every number up to the thousands, *)
(* of inflected forms one or two; of each other role some words stand for all. *)
(* Several have a second role here as there (a, and, no, some, un, unos, y); *)
(* other words with two roles, and second roles of words kept, are left out. *)
(* Words are folded tokens.                                                  *)
EXTENDS Integers, Sequences, FiniteSets

NaN == -1         \* the value of "several"

\* The words of a list, each with the value from + step * (its place - 1).
Numbered(words, from, step) ==
    [w \in {words[k] : k \in DOMAIN words} |->
        from + step * ((CHOOSE k \in DOMAIN words : words[k] = w) - 1)]
Also(f, g) == [w \in DOMAIN f \cup DOMAIN g |-> IF w \in DOMAIN f THEN f[w] ELSE g[w]]

English ==
    [LocationNouns |-> {"bin", "aisle", "shelf"}, KeepAnchorNouns |-> {"aisle", "shelf"},
     LocationPreps |-> {"in", "on"}, Articles |-> {"the"},
     Ones |-> Numbered(<<"zero", "one", "two", "three", "four", "five", "six", "seven",
                         "eight", "nine", "ten", "eleven", "twelve", "thirteen", "fourteen",
                         "fifteen", "sixteen", "seventeen", "eighteen", "nineteen">>, 0, 1),
     Tens |-> Numbered(<<"twenty", "thirty", "forty", "fifty", "sixty", "seventy",
                         "eighty", "ninety">>, 20, 10),
     Hundreds |-> [w \in {} |-> 0], ScaleHundred |-> {"hundred"},
     ScaleBig |-> Numbered(<<"thousand", "million">>, 1000, 999000),
     DozenWords |-> {"dozen"}, HalfWords |-> {"half"}, NumConnectors |-> {"and"},
     NumArticles |-> {"a", "an"},
     approxSet |-> {<<"about">>, <<"some">>, <<"more", "or", "less">>},
     vagues |-> Also(Numbered(<< <<"a", "couple">>, <<"a", "few">> >>, 2, 1),
                     [p \in {<<"several">>, <<"some">>, <<"a", "lot">>} |-> NaN]),
     Units |-> {"boxes", "box", "reels"}, Of |-> {"of"},
     ConfirmWords |-> {"yes", "correct"}, RejectWords |-> {"no", "wrong"},
     scratchSet |-> {<<"scratch", "that">>, <<"delete">>, <<"delete", "that">>},
     negationSet |-> {<<"no">>, <<"i", "mean">>},
     FieldAliases |-> [location |-> "location", qty |-> "quantity", item |-> "item"],
     IsWords |-> {"is"}, ChangeWords |-> {"change"}, ToWords |-> {"to"},
     Conjunctions |-> {"and"}]

Spanish ==
    [LocationNouns |-> {"bin", "pasillo"}, KeepAnchorNouns |-> {"pasillo"},
     LocationPreps |-> {"en"}, Articles |-> {"el"},
     Ones |-> Also(Numbered(<<"cero", "un", "dos", "tres", "cuatro", "cinco", "seis", "siete", "ocho",
                              "nueve", "diez", "once", "doce", "trece", "catorce", "quince",
                              "dieciseis", "diecisiete", "dieciocho", "diecinueve">>, 0, 1),
                   Also([w \in {"una", "uno"} |-> 1],
                        Numbered(<<"veintiun", "veintidos", "veintitres", "veinticuatro",
                                   "veinticinco", "veintiseis", "veintisiete",
                                   "veintiocho", "veintinueve">>, 21, 1))),
     Tens |-> Numbered(<<"veinte", "treinta", "cuarenta", "cincuenta", "sesenta", "setenta",
                         "ochenta", "noventa">>, 20, 10),
     Hundreds |-> Numbered(<<"doscientos", "trescientos", "cuatrocientos", "quinientos",
                             "seiscientos", "setecientos", "ochocientos", "novecientos">>, 200, 100),
     ScaleHundred |-> {"cien", "ciento"}, ScaleBig |-> Numbered(<<"mil", "millon">>, 1000, 999000),
     DozenWords |-> {"docena"}, HalfWords |-> {"media"}, NumConnectors |-> {"y"},
     NumArticles |-> {"un", "una", "uno"},
     approxSet |-> {<<"unos">>, <<"mas", "o", "menos">>},
     vagues |-> Also(Numbered(<< <<"un", "par">>, <<"unos", "pocos">> >>, 2, 1),
                     [p \in {<<"varios">>, <<"un", "monton">>} |-> NaN]),
     Units |-> {"cajas", "caja"}, Of |-> {"de"},
     ConfirmWords |-> {"si"}, RejectWords |-> {"no", "mal"},
     scratchSet |-> {<<"borra", "eso">>}, negationSet |-> {<<"no">>, <<"digo">>},
     FieldAliases |-> [ubicacion |-> "location", cantidad |-> "quantity", articulo |-> "item"],
     IsWords |-> {"es"}, ChangeWords |-> {"cambia"}, ToWords |-> {"a", "por"},
     Conjunctions |-> {"y"}]
=============================================================================
