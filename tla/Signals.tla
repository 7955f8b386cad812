------------------------------ MODULE Signals ------------------------------
(***************************************************************************)
(* What a page scores (ranking/signal.rs, RegionCount of                   *)
(* webpage/region.rs).  Scores are integers in units of a tenth of         *)
(* 1 / SignalUnit; what bm25 makes of the words of a query is left out, a  *)
(* goggle adds to it (Queries).                                            *)
(***************************************************************************)
EXTENDS Queries, Bags

CONSTANTS SignalUnit,      \* a value of 1.0
          Hour,            \* 3600 seconds
          FetchTimes,      \* fetch_time_ms_cache has values for so many: 1000
          UpdateTimes      \* update_time_cache, by hours: 1 / log2(hours + 1)

ASSUME SignalsAssumption ==
  /\ SignalUnit \in Nat \ {0} /\ Hour \in Nat \ {0} /\ FetchTimes \in Nat
  /\ \A hours \in DOMAIN UpdateTimes \ {0} : UpdateTimes[hours] <= UpdateTimes[hours - 1]
-----------------------------------------------------------------------------
(* RegionCount: the counts as they change, and as they were at a commit.     *)
NewRegionCount == [map |-> EmptyBag, fast |-> EmptyBag, total |-> 0]

Increment(count, region) ==
  [count EXCEPT !.map = @ (+) SetToBag({region}), !.total = @ + 1]


CommitRegions(count) ==
  [map |-> count.map, fast |-> count.map, total |-> BagCardinality(count.map)]

MergeRegions(count, other) == CommitRegions([count EXCEPT !.map = @ (+) other.map])

RegionScore(count, region) ==
  IF region \in DOMAIN count.fast
    THEN (count.fast[region] * SignalUnit) \div count.total ELSE 0
-----------------------------------------------------------------------------
(* Signals and their coefficients, in tenths.                                *)
DefaultCoefficient ==
  [Bm25 |-> 10, HostCentrality |-> 20480, PageCentrality |-> 40960, IsHomepage |-> 1,
   FetchTimeMs |-> 1, UpdateTimestamp |-> 800, NumTrackers |-> 200, Region |-> 600]

\* SignalAggregator::try_from: the last alteration of a signal counts, and
\* only two signals have a name.
Coefficient(alterations, signal) ==
  LET name == [Bm25 |-> "bm25", HostCentrality |-> "host_centrality"]
      named == SelectSeq(alterations, LAMBDA a :
                           signal \in DOMAIN name /\ a.signal = name[signal])
  IN  IF named = <<>> THEN DefaultCoefficient[signal] ELSE Last(named).score

\* Signal::value; field is the value of the fast field.
SignalValue(signal, field, count, now, selected) ==
  CASE signal \in {"HostCentrality", "PageCentrality"} -> field
    [] signal = "IsHomepage" -> field * SignalUnit
    [] signal = "FetchTimeMs" -> IF field >= FetchTimes THEN 0 ELSE SignalUnit \div (field + 1)
    [] signal = "UpdateTimestamp" ->
         LET hours == (now - field) \div Hour
         IN  IF now <= field \/ hours \notin DOMAIN UpdateTimes THEN 0 ELSE UpdateTimes[hours]
    [] signal = "NumTrackers" -> SignalUnit \div (field + 1)
    [] signal = "Region" ->
         (IF field = selected THEN 50 * SignalUnit ELSE 0) + RegionScore(count, field)

\* All but Bm25: is_computable_before_search.
StaticSignals == DOMAIN DefaultCoefficient \ {"Bm25"}

SumOfSignals(fields, alterations, count, now, selected) ==
  MapThenSumSet(LAMBDA s : Coefficient(alterations, s) * SignalValue(s, fields[s], count, now, selected),
                StaticSignals)

\* precompute_score: what the fields would be, read off the page.
PrecomputeScore(page, count, now) ==
  SumOfSignals([HostCentrality |-> page.hostCentrality, PageCentrality |-> page.pageCentrality,
                IsHomepage |-> IF IsHomepage(page.url) THEN 1 ELSE 0,
                FetchTimeMs |-> page.fetchTime,
                UpdateTimestamp |-> IF UpdatedTime(page) = None THEN 0 ELSE UpdatedTime(page),
                NumTrackers |-> NumTrackers(page),
                Region |-> RegionOf(page.lang)],
               <<>>, count, now, None)

\* SignalAggregator::score of a document, without its bm25.
SignalScore(doc, alterations, count, now, selected) ==
  SumOfSignals(doc.fast, alterations, count, now, selected)
=============================================================================
