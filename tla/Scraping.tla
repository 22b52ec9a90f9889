-------------------------------- MODULE Scraping ------------------------------
(***************************************************************************)
(* The pages of the games as their scrapers read them (scraper_tools, the  *)
(* Selectors of hammerfest_client).  A document is a record: under each    *)
(* selector, the sequence of what it matches, an element or its only text. *)
(* A result is a set: of the value that was read, or empty for an error.   *)
(* An option is a sequence of one value at most.                           *)
(***************************************************************************)
EXTENDS Naturals, SequencesExt, FiniteSetsExt

\* A list, an option, and a list of pairs that no key is in twice
IsList(s) == s \in Seq(Range(s))
IsOption(s) == IsList(s) /\ Len(s) <= 1
IsIndexed(pairs) == /\ IsList(pairs)
                    /\ \A p \in Range(pairs) : p = <<p[1], p[2]>>
                    /\ \A i, j \in DOMAIN pairs : pairs[i][1] = pairs[j][1] => i = j

\* exactly_one, select_one, get_one_text
One(matches) == IF Len(matches) = 1 THEN {matches[1]} ELSE {}

\* at_most_one, select_one_opt
AtMostOne(matches) == IF Len(matches) <= 1 THEN {matches} ELSE {}

First(matches) == IF matches = <<>> THEN {} ELSE {matches[1]}

If(condition) == IF condition THEN {TRUE} ELSE {}

\* The fields of two records, those of the first where both have one
Over(f, g) == [x \in DOMAIN f \cup DOMAIN g |-> IF x \in DOMAIN f THEN f[x] ELSE g[x]]

\* collect: the results of all the elements, an error if one is
Each(matches, Read(_)) ==
  IF \E i \in DOMAIN matches : Read(matches[i]) = {} THEN {}
  ELSE {[i \in DOMAIN matches |-> CHOOSE r \in Read(matches[i]) : TRUE]}

\* collect into a HashMap: the last of the pairs with a key remains
AsMap(pairs) ==
  [k \in {p[1] : p \in Range(pairs)} |->
     pairs[Max({i \in DOMAIN pairs : pairs[i][1] = k})][2]]

\* A link to a page of a game: the values of the keys in its query
Href(key, value) == << <<key, value>> >>
Argument(href, key) ==
  {href[i][2] : i \in {j \in DOMAIN href : \A k \in DOMAIN href : href[k][1] = key <=> k = j}}

Text(lang, value) == [lang |-> lang, value |-> value]

\* The names of a locale: a text of another language is not found
Translated(lang, text) == {text.value : t \in If(text.lang = lang)}

-----------------------------------------------------------------------------
(* A page that is not what the scraper expects: the element of a selector  *)
(* is not there, or another one is like it.                                *)

Spoilt(doc, selectors) ==
  {[doc EXCEPT ![s] = <<>>] : s \in selectors}
  \cup {[doc EXCEPT ![s] = @ \o @] : s \in selectors}

\* ... in one of the elements of a list
SpoiltIn(doc, list, selectors) ==
  UNION {{[doc EXCEPT ![list][i] = e] :
            e \in Spoilt(doc[list][i], selectors \cap DOMAIN doc[list][i])} :
         i \in DOMAIN doc[list]}
=============================================================================
