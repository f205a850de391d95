----------------------------- MODULE PriceCache -----------------------------
(***************************************************************************)
(* load_pricing of core/pricing.py: the price list of one audit, from the   *)
(* local yaml file and, if PRICE_SOURCE_URL is set, from an online rate     *)
(* card or its last copy in the data directory.  All audits of all          *)
(* processes share that copy, prices_cache.json.                           *)
(*                                                                         *)
(* Of a rate card the model keeps the URL; its rows, how they are parsed and *)
(* the yaml file under them are left out.  The copy is emptied when it is   *)
(* opened and written when it is closed.                                   *)
(***************************************************************************)
EXTENDS AuditSet

CONSTANTS Urls,     \* rate cards PRICE_SOURCE_URL may name
          NoUrl, NoCard, Blank, Garbled

ASSUME PriceAssumption == ({NoCard, Blank, Garbled} \cap Urls = {}) /\ (NoUrl \notin Urls)

VARIABLES
  priceCache,  \* the copy: of which card, Blank, Garbled, or NoCard if there is none
  loading,     \* loading[a]: how far load_pricing has come for audit a
  source,      \* source[a]: the URL it was configured with
  card,        \* card[a]: the card a has, NoCard for the yaml file alone
  says,        \* says[a]: where the report says its prices come from
  asked        \* URLs that any audit so far was configured with

priceVars == <<priceCache, loading, source, card, says, asked>>

Loading == {"no", "asking", "opening", "filling", "reading", "loaded"}

PriceTypeOK ==
  /\ priceCache \in Urls \cup {NoCard, Blank, Garbled}
  /\ loading \in [Audits -> Loading]
  /\ source \in [Audits -> Urls \cup {NoUrl}]
  /\ card \in [Audits -> Urls \cup {NoCard}]
  /\ says \in [Audits -> {"local", "online", "cached"}]
  /\ asked \subseteq Urls

PriceInit ==
  /\ priceCache = NoCard
  /\ loading = [a \in Audits |-> "no"]
  /\ source = [a \in Audits |-> NoUrl]
  /\ card = [a \in Audits |-> NoCard]
  /\ says = [a \in Audits |-> "local"]
  /\ asked = {}

Step(a, place) == loading' = [loading EXCEPT ![a] = place]

\* The list is complete: card c on top of the yaml file, from what it says.
Loaded(a, c, label) == /\ Step(a, "loaded")
                       /\ card' = [card EXCEPT ![a] = c]
                       /\ says' = [says EXCEPT ![a] = label]

-----------------------------------------------------------------------------
\* load_pricing; without a URL the yaml file is all there is.
LoadPrices(a, u) ==
  /\ loading[a] = "no"
  /\ source' = [source EXCEPT ![a] = u]
  /\ asked' = asked \cup ({u} \ {NoUrl})
  /\ IF u = NoUrl THEN Loaded(a, NoCard, "local")
     ELSE Step(a, "asking") /\ UNCHANGED <<card, says>>
  /\ UNCHANGED priceCache

\* The rate card answers, with at least one row.
CardAnswers(a) ==
  /\ loading[a] = "asking"
  /\ Step(a, "opening")
  /\ card' = [card EXCEPT ![a] = source[a]]
  /\ UNCHANGED <<priceCache, source, says, asked>>

\* It does not, or with nothing that could be used.
CardFails(a) == /\ loading[a] = "asking"
                /\ Step(a, "reading")
                /\ UNCHANGED <<priceCache, source, card, says, asked>>

OpenCache(a) == /\ loading[a] = "opening"
                /\ Step(a, "filling")
                /\ priceCache' = Blank
                /\ UNCHANGED <<source, card, says, asked>>

\* The rows go to the start of the file.  If another audit has written there
\* since it was opened, and more rows than this one, the last of them remain.
FillCache(a) ==
  /\ loading[a] = "filling"
  /\ priceCache' \in {card[a]} \cup IF priceCache = Blank THEN {} ELSE {Garbled}
  /\ Loaded(a, card[a], "online")
  /\ UNCHANGED <<source, asked>>

\* An OSError on the way: the card is used all the same.
CacheNotWritten(a) == /\ loading[a] \in {"opening", "filling"}
                      /\ Loaded(a, card[a], "online")
                      /\ UNCHANGED <<priceCache, source, asked>>

\* Mutant: a copy that does not parse leaves the label of one that does.
ReadMislabelled(a) ==
  /\ loading[a] = "reading"
  /\ IF priceCache \in Urls THEN Loaded(a, priceCache, "cached")
     ELSE Loaded(a, NoCard, IF priceCache = NoCard THEN "local" ELSE "cached")
  /\ UNCHANGED <<priceCache, source, asked>>

\* The copy is used if it can be parsed, and the yaml file alone if not.
ReadCache(a) ==
  /\ loading[a] = "reading"
  /\ IF priceCache \in Urls THEN Loaded(a, priceCache, "cached")
     ELSE Loaded(a, NoCard, "local")
  /\ UNCHANGED <<priceCache, source, asked>>

LoadStep(a) == \/ CardAnswers(a) \/ CardFails(a) \/ OpenCache(a) \/ FillCache(a)
               \/ CacheNotWritten(a) \/ ReadCache(a)

\* The process of the audits of S ends.
EndLoading(S) ==
  /\ loading' = [a \in Audits |-> IF a \in S /\ loading[a] # "loaded" THEN "no" ELSE loading[a]]
  /\ UNCHANGED <<priceCache, source, card, says, asked>>

-----------------------------------------------------------------------------
(* Properties *)

\* CHANGELOG.md: "The report notes which source was used."  It is the source of
\* this audit's prices, a whole card of it, whatever other processes do to the
\* copy and wherever they stop.  SameSource says of which copies.
SourceTold(SameSource) ==
  \A a \in Audits : loading[a] = "loaded" =>
    /\ says[a] = "local" => card[a] = NoCard
    /\ says[a] = "online" => card[a] = source[a] /\ card[a] \in Urls
    /\ says[a] = "cached" => card[a] \in Urls /\ (SameSource => card[a] = source[a])

\* It is so as long as PRICE_SOURCE_URL is the same for all,
SourceToldIfSame == SourceTold(\A u, v \in asked : u = v)

\* and not when it was changed: the copy is then labelled with the new URL.
SourceToldAlways == SourceTold(TRUE)

\* What makes it so: nothing but cards that were asked for gets into the copy.
PriceInv ==
  /\ priceCache \in Urls => priceCache \in asked
  /\ \A a \in Audits :
       /\ source[a] \in asked \cup {NoUrl}
       /\ loading[a] \in {"asking", "opening", "filling", "reading"} => source[a] \in Urls
       /\ loading[a] \in {"opening", "filling"} => card[a] = source[a]
  /\ SourceToldIfSame
=============================================================================
