------------------------- MODULE DistributedSearch -------------------------
(***************************************************************************)
(* searcher/distributed.rs: one search over the shards of an index.  Every *)
(* shard is asked at once and each asks all of its replicas at once; the   *)
(* first replica to finish, well or not, decides for its shard.  The pages *)
(* of the shards that answered are ranked together, and the shards are     *)
(* then asked in turn for the documents behind the pointers on the page.   *)
(*                                                                         *)
(* A search server (entrypoint/search_server.rs) is seen through what an   *)
(* attempt to ask it may give: content, or a failure (no connection in     *)
(* time, a broken one, no answer in 30 seconds, an Empty answer).          *)
(***************************************************************************)
EXTENDS Ranking

CONSTANTS
  Docs,          \* documents of the index
  Doc,           \* their scores and hashes
  Home,          \* the shard of each document
  NShards,       \* the number of shards, in the order of the searcher's list
  Replicas,      \* the search servers
  ShardOf,       \* the shard each is a replica of
  WithBangs,     \* the servers configured with bangs
  PerPage,       \* NUM_RESULTS_PER_PAGE
  Attempts,      \* the attempts a RemoteSearcher makes: 5
  Queries,       \* the queries: kind is "empty", "blank", "bang" or "terms"
  Unreadable     \* the sets of documents that the stores may fail to read

Missing == 0       \* None among the retrieved pages

ASSUME DistributedSearchAssumption ==
  /\ IsFiniteSet(Docs) /\ NShards \in Nat /\ PerPage \in Nat \ {0} /\ Attempts \in Nat \ {0}
  /\ Home \in [Docs -> 1 .. NShards] /\ ShardOf \in [Replicas -> 1 .. NShards]
  /\ Doc \in [Docs -> [score : Nat, site : Hashes, title : Hashes, url : Hashes]]
  /\ \A d, e \in Docs : Doc[d].score = Doc[e].score => d = e
  /\ Missing \notin Docs /\ Unreadable \subseteq SUBSET Docs
  /\ WithBangs \subseteq Replicas
  /\ Queries \subseteq [kind : {"empty", "blank", "bang", "terms"}, skip : Nat]

Shards == 1 .. NShards

VARIABLES
  query,         \* what is searched for, and how many pages are skipped
  phase,         \* "start", "search", "retrieve" or "done"
  failures,      \* the failed attempts of each RemoteSearcher in this phase
  answered,      \* the RemoteSearchers that got content in this phase
  outcome,       \* what each shard's search gave: "pending", "ok" or "err"
  initial,       \* initial_results, in the order in which shards finished
  ranked,        \* top_websites
  at,            \* the shard being asked for documents
  retrieved,     \* retrieved_webpages
  result,        \* what the search returned
  unreadable     \* the documents that the servers' stores fail to read

calls == <<failures, answered>>
given == <<query, unreadable>>
vars == <<given, phase, calls, outcome, initial, ranked, at, retrieved, result>>

NoResult == [kind |-> "none", docs |-> <<>>, shards |-> <<>>]
Fresh == failures' = [r \in Replicas |-> 0] /\ answered' = {}
ReplicasOf(s) == {r \in Replicas : ShardOf[r] = s}

\* The page of a local search: the ranks that the server skips to by itself.
LocalPage(s) ==
  LET rank(d) == Cardinality({e \in Docs : Home[e] = s /\ Doc[e].score > Doc[d].score})
  IN  {d \in Docs : Home[d] = s /\ rank(d) >= PerPage * query.skip
                    /\ rank(d) < PerPage * (query.skip + 1)}

Init ==
  /\ query \in Queries
  /\ unreadable \in Unreadable
  /\ phase = "start"
  /\ failures = [r \in Replicas |-> 0]
  /\ answered = {}
  /\ outcome = [s \in Shards |-> "pending"]
  /\ initial = <<>>
  /\ ranked = <<>>
  /\ at = 1
  /\ retrieved = <<>>
  /\ result = NoResult

\* search_api and search_prettified: an empty query is not searched for.
Start ==
  /\ phase = "start"
  /\ IF query.kind = "empty"
     THEN phase' = "done" /\ result' = [NoResult EXCEPT !.kind = "EmptyQuery"]
     ELSE phase' = "search" /\ UNCHANGED result
  /\ UNCHANGED <<given, calls, outcome, initial, ranked, at, retrieved>>

----------------------------------------------------------------------------
\* The calls of RemoteSearchers that are still awaited.
Awaited(r) ==
  \/ phase = "search" /\ outcome[ShardOf[r]] = "pending"
  \/ phase = "retrieve" /\ ShardOf[r] = at

\* RemoteSearcher: all searchers of a shard run until one has finished.
Asking(r) == Awaited(r) /\ r \notin answered /\ failures[r] < Attempts

GaveUp(r) == failures[r] = Attempts
Finished(r) == r \in answered \/ GaveUp(r)

\* Take the same timeout again and again.
AttemptFails_Uncounted(r) ==
  /\ Asking(r)
  /\ UNCHANGED vars

AttemptFails(r) ==
  /\ Asking(r)
  /\ failures' = [failures EXCEPT ![r] = @ + 1]
  /\ UNCHANGED <<given, phase, answered, outcome, initial, ranked, at, retrieved, result>>

\* A server finds no terms in a blank query and answers Empty.
AttemptAnswers(r) ==
  /\ Asking(r)
  /\ query.kind /= "blank"
  /\ answered' = answered \cup {r}
  /\ UNCHANGED <<given, phase, failures, outcome, initial, ranked, at, retrieved, result>>

\* Shard::search: the first of the searchers that finished, or none at all.
ShardSearched(s) ==
  /\ phase = "search" /\ outcome[s] = "pending"
  /\ \/ /\ ReplicasOf(s) = {}
        /\ outcome' = [outcome EXCEPT ![s] = "err"]
        /\ UNCHANGED initial
     \/ \E r \in ReplicasOf(s) :
          /\ Finished(r)
          /\ IF r \in answered
             THEN /\ outcome' = [outcome EXCEPT ![s] = "ok"]
                  /\ initial' = Append(initial,
                       [shard |-> s, bang |-> query.kind = "bang" /\ r \in WithBangs])
             ELSE /\ outcome' = [outcome EXCEPT ![s] = "err"]
                  /\ UNCHANGED initial
  /\ UNCHANGED <<given, phase, calls, ranked, at, retrieved, result>>

----------------------------------------------------------------------------
\* The searcher: combine what the shards found, then retrieve it.
Searched == phase = "search" /\ \A s \in Shards : outcome[s] /= "pending"

\* Look at the shard that answered first.
HasBang_First == initial /= <<>> /\ initial[1].bang

HasBang == \E i \in 1 .. Len(initial) : initial[i].bang
Answering == {initial[i].shard : i \in 1 .. Len(initial)}

ReturnBang ==
  /\ Searched /\ HasBang
  /\ phase' = "done"
  /\ result' = [NoResult EXCEPT !.kind = "Bang"]
  /\ UNCHANGED <<given, calls, outcome, initial, ranked, at, retrieved>>

Found == UNION {LocalPage(s) : s \in Answering}
TopN == PerPage + query.skip

\* The rankings that a BucketCollector of TopN may give.
Rankings ==
  LET size == IF Cardinality(Found) < TopN THEN Cardinality(Found) ELSE TopN
  IN  UNION {{ids \in [1 .. size -> kept] : IsGreedyRanking(Doc, ids, kept, TopN)} :
               kept \in {k \in SUBSET Found : AreTheBest(Doc, k, Found, TopN + 1)}}

Combine ==
  /\ Searched /\ ~HasBang
  /\ \E ranking \in Rankings :
       ranked' = SubSeq(ranking, query.skip + 1,
                        IF Len(ranking) < TopN THEN Len(ranking) ELSE TopN)
  /\ retrieved' = [i \in 1 .. Len(ranked') |-> Missing]
  /\ phase' = "retrieve" /\ at' = 1
  /\ Fresh
  /\ UNCHANGED <<given, outcome, initial, result>>

\* filter: what is left of a sequence without some elements.
Without(seq, bad) ==
  LET kept[i \in 0 .. Len(seq)] ==
        IF i = 0 THEN <<>>
        ELSE IF seq[i] \in bad THEN kept[i - 1] ELSE Append(kept[i - 1], seq[i])
  IN  kept[Len(seq)]

IndexesOf(s) ==
  Without([i \in 1 .. Len(ranked) |-> i], {i \in 1 .. Len(ranked) : Home[ranked[i]] /= s})

\* Put the documents into the places still free.
Zip_FirstFree(indexes, docs) ==
  LET free(i) == Cardinality({k \in 1 .. i : retrieved[k] = Missing})
  IN  [i \in 1 .. Len(retrieved) |->
         IF retrieved[i] = Missing /\ free(i) <= Len(docs)
         THEN docs[free(i)] ELSE retrieved[i]]

\* The indexes of a shard's pointers with the documents it gave, in order.
Zip(indexes, docs) ==
  [i \in 1 .. Len(retrieved) |->
     IF \E k \in 1 .. Len(docs) : indexes[k] = i
     THEN docs[CHOOSE k \in 1 .. Len(docs) : indexes[k] = i]
     ELSE retrieved[i]]

\* Shard::retrieve_websites for the shard whose turn it is, even if the page
\* has none of its documents.  A server leaves out the documents that it
\* cannot read.
RetrieveFrom(s) ==
  /\ phase = "retrieve" /\ at = s
  /\ \/ ReplicasOf(s) = {} /\ UNCHANGED retrieved
     \/ \E r \in ReplicasOf(s) :
          /\ Finished(r)
          /\ IF r \in answered
             THEN LET indexes == IndexesOf(s)
                      pointers == [k \in 1 .. Len(indexes) |-> ranked[indexes[k]]]
                  IN  retrieved' = Zip(indexes, Without(pointers, unreadable))
             ELSE UNCHANGED retrieved
  /\ at' = at + 1
  /\ UNCHANGED <<given, phase, calls, outcome, initial, ranked, result>>

Documents == Without(retrieved, {Missing})

\* Return what there is, be it nothing.
Finish_NoCheck ==
  /\ phase = "retrieve" /\ at > NShards
  /\ phase' = "done"
  /\ result' = [kind |-> "Websites", docs |-> Documents,
                shards |-> [i \in 1 .. Len(initial) |-> initial[i].shard]]
  /\ UNCHANGED <<given, calls, outcome, initial, ranked, at, retrieved>>

\* The result of a release build, which has no debug_assert.  num_docs is the
\* sum over the shards, and the first of them gives correction and entity.
Finish ==
  /\ phase = "retrieve" /\ at > NShards
  /\ phase' = "done"
  /\ result' = IF Documents = <<>> /\ ranked /= <<>>
               THEN [NoResult EXCEPT !.kind = "SearchFailed"]
               ELSE [kind |-> "Websites", docs |-> Documents,
                     shards |-> [i \in 1 .. Len(initial) |-> initial[i].shard]]
  /\ UNCHANGED <<given, calls, outcome, initial, ranked, at, retrieved>>

RemoteStep(r) == AttemptFails(r) \/ AttemptAnswers(r)
SearcherStep ==
  \/ Start
  \/ \E s \in Shards : ShardSearched(s) \/ RetrieveFrom(s)
  \/ ReturnBang \/ Combine \/ Finish

Next == SearcherStep \/ \E r \in Replicas : RemoteStep(r)

\* The runtime polls the searcher, and every attempt has its timeout.
Spec == Init /\ [][Next]_vars /\ WF_vars(SearcherStep)
             /\ \A r \in Replicas : WF_vars(RemoteStep(r))

----------------------------------------------------------------------------
\* The type of the state; no searcher makes more attempts than it may.
TypeOK ==
  /\ query \in Queries /\ unreadable \in Unreadable
  /\ phase \in {"start", "search", "retrieve", "done"}
  /\ failures \in [Replicas -> 0 .. Attempts] /\ answered \subseteq Replicas
  /\ outcome \in [Shards -> {"pending", "ok", "err"}]
  /\ initial \in Seq([shard : Shards, bang : BOOLEAN])
  /\ ranked \in Seq(Docs) /\ retrieved \in Seq(Docs \cup {Missing})
  /\ at \in 1 .. NShards + 1
  /\ result \in [kind : {"none", "EmptyQuery", "Bang", "Websites", "SearchFailed"},
                 docs : Seq(Docs), shards : Seq(Shards)]

Holding(seq) == {seq[i] : i \in 1 .. Len(seq)}

\* A page is not shown only if its server cannot read it, or if a replica of
\* its shard failed all attempts; and a search that lost every page it ranked
\* is an error, never a result without hits.
LossesAreTold ==
  phase = "done" /\ result.kind \in {"Websites", "SearchFailed"} =>
    /\ \A i \in 1 .. Len(ranked) :
         \/ ranked[i] \in Holding(result.docs) \cup unreadable
         \/ \E r \in ReplicasOf(Home[ranked[i]]) : GaveUp(r)
    /\ result.kind = "Websites" /\ result.docs = <<>> => ranked = <<>>
    /\ Holding(result.docs) \subseteq Holding(ranked)

\* Documents arrive shard by shard and go where they were ranked.  A document
\* that a server left out shifts those of its shard: they keep their order,
\* and nothing is shown twice.  Page p has room for PerPage documents of the
\* p-th pages of the shards and is filled as far as these go, but for p of
\* them, which are passed over and come on no page.
KeepsTheOrder ==
  LET rankOf(d) == CHOOSE i \in 1 .. Len(ranked) : ranked[i] = d
      docs == result.docs
  IN  /\ \A i, k \in 1 .. Len(docs) : i < k =>
           /\ docs[i] /= docs[k]
           /\ Home[docs[i]] = Home[docs[k]] => rankOf(docs[i]) < rankOf(docs[k])
      /\ Holding(ranked) \cap unreadable = {} =>
           \A i, k \in 1 .. Len(docs) : i < k => rankOf(docs[i]) < rankOf(docs[k])
      /\ phase = "retrieve" =>
           /\ Len(ranked) <= PerPage /\ Holding(ranked) \subseteq Found
           /\ Len(ranked) < PerPage => Cardinality(Found) <= Len(ranked) + query.skip
           /\ Cardinality(Found) >= Len(ranked) + query.skip \/ ranked = <<>>

\* A bang that some shard's answer has redirects the search, in whatever order
\* the answers came; and only a bang does.
BangWins ==
  phase = "done" =>
    (result.kind = "Bang" <=> \E i \in 1 .. Len(initial) : initial[i].bang)

\* Every search comes to an end, whatever the servers do.
SearchEnds == <>(phase = "done")
=============================================================================
