# A TLA+ model of stractt

stractt is a web search engine: it downloads WARC files, builds a graph of the
links and an inverted index of the pages with a small map-reduce framework,
and answers searches from shards of the index.  This directory models the
parts of it that keep state, talk to each other or must agree on an order, and
checks and proves what they promise.

All file names below are relative to `src/src/`.

## 1. Inventory

| Part | State | Operations | Interacts with | What is hard |
|---|---|---|---|---|
| `webgraph/graph_store.rs` | five RocksDB trees per graph, each behind an LRU write-back cache and a `Mutex`; a `next_id` counter in one of them | `insert`, `node2id`, `id2node`, `outgoing_edges`, `ingoing_edges`, `nodes`, `edges`, `append`, `flush`, `open` | `kv/` (RocksDB), `lru` crate | eviction of dirty entries, five trees that must agree, restarts at any flush |
| `webgraph/mod.rs` | a full and a host graph, a directory | `insert`, `merge`, freeze/thaw, distances, centrality | `graph_store.rs`, `directory.rs`, the reducers of `entrypoint/webgraph.rs` | iteration through a cache while another graph is written, merges over several steps |
| `mapreduce/` over `sonic.rs` | a pool (ready list, running counter, all workers), one future per job; per worker a listening socket | `Manager::run`, `map`, `get_worker`, `WorkerGuard`, `stop_workers`, `Worker::run` | TCP connections with timeouts | interleaved futures, lost and late answers, worker crashes, retry, termination |
| `collector.rs`, `ranking/mod.rs` | a double-ended heap per segment and one over all, hash counts | `collect`, `harvest`, `merge_fruits`, `insert`, `into_sorted_vec`, `update_best_doc` | tantivy | stale scores in a heap, pruning, offset |
| `searcher/distributed.rs`, `searcher/local.rs`, `entrypoint/search_server.rs` | per search: initial results, ranking, retrieved pages | `search_api`, `search_prettified`, the four requests of a server | `sonic.rs`, `exponential_backoff.rs`, `collector.rs` | answers in any order, replicas and shards failing between two phases, timeouts |
| `index.rs`, `inverted_index.rs`, `directory.rs`, `fastfield_cache.rs`, `subdomain_count.rs`, `webpage/region.rs`, `spell/dictionary.rs` | tantivy segments, key-value stores and counters in one directory | `insert`, `commit`, `merge`, `merge_into_segments`, `stop` | tantivy, `image_store.rs` | files renamed under metadata, stores merged one after the other, crashes in between |
| `entrypoint/indexer.rs`, `entrypoint/mod.rs`, `warc.rs` | the downloads and the index of each job | `download_into_buf`, `records`, the indexing job, `reduce` | HTTP, rayon, `mapreduce/` | retry into the same file, a bad record, merges in any bracketing, restarts |
| `query/union.rs`, `query/intersection.rs`, `ranking/goggles/pattern_query.rs` | cursors into posting lists | `advance`, `seek` | tantivy | loops over several cursors, the first document, the ends of lists |
| `image_store.rs`, `image_downloader.rs` | RocksDB stores of icons and images, a queue of downloads per index | `insert`, `merge`, `schedule`, `download` | HTTP, `index.rs` | downloads that fail, two stores merged, keys that two indexes both use |
| `webpage/just_text.rs`, `webpage/mod.rs` | the paragraph in the making, the stacks of two traversals | `paragraphs`, `calculate_good_paragraphs`, `parse_text`, `links` | the HTML parser | text around removed elements and line breaks, paragraphs revised beside their neighbours |
| `webpage/url.rs`, `webpage/schema_org.rs`, `schema.rs` | the stored document of a page | `into_tantivy`, `retrieve` | tantivy | one url in many forms |
| `query/parser.rs`, `query/mod.rs`, `bangs.rs` | a query as a Boolean query over the fields | `parse`, `Query::parse`, `Bangs::get` | `index.rs` | negation, fields that are stemmed or not, terms that are also words |
| `ranking/goggles/`, `ranking/site_rankings.rs`, `ranking/signal.rs`, `webpage/region.rs` | instructions as clauses, region counts | `as_tantivy`, `precompute_score`, `score` | `query/`, `collector.rs` | orders of options, discards, counts kept twice |
| `webgraph/mod.rs` (distances), `entrypoint/centrality.rs`, `ranking/centrality_store.rs` | a heap, distances, two stores | `dijkstra`, `harmonic_centrality`, `append` | the graph store | a graph that changes its caches while it is read |
| `spell/`, `snippet.rs` | a dictionary, fragments | `spell_correction`, `generate` | `index.rs` | words of pages that are not there, offsets |
| `entrypoint/entity.rs`, `entity_index/`, `search_prettifier.rs` | the page being read, an index of entities | the loop over the dump, `build_entity`, `search`, `entity_link_to_html` | tantivy | state left from the page before, spans of links |
| `ttl_cache.rs` | a map with insertion times | `insert`, `get`, prune | nothing: unused | - |
| `frontend/`, `autosuggest.rs` | none that changes | HTTP handlers | the distributed searcher | - |

What makes each part correct:

* **cached tree**: a read returns what was last written; nothing is lost but
  what the code has to lose (the cache after a crash).
* **graph store**: a node has one id and an id one node; both directions
  describe the same edges; the graph is the multigraph that was inserted.
* **webgraph**: a merge is the union of two multigraphs.
* **map-reduce**: each job's result is reduced exactly once; no worker leaks or
  is used twice; the manager gives up only when it has to; it always ends.
* **collector**: the ranking is the one a greedy selection would make; it does
  not depend on how documents are spread over segments.
* **doc sets**: a union, an intersection or a pattern is itself a sorted cursor,
  which skips nothing and whose calls return.
* **index**: however the jobs' indexes are merged, the last one has every page
  once, under its own url, and counters that agree with the pages; a killed run
  can be started again.
* **distributed search**: the page is in the order of the ranking, what is lost
  is reported, and every search ends.
* **a page's text**: paragraphs are the blocks of the document; a link is the
  text between its tags; what is kept depends on what a paragraph is, not on
  the order in which its neighbours are revised.
* **local search**: an answer has exactly the pages that say what the query
  says and that no goggle discards, however they are spread over files,
  segments and indexes; with scores that tell nothing of the spread, and
  snippets that show the query.
* **spelling**: a word that pages have is not corrected away, nor into one that
  none has, as long as the dictionary has room for all words.
* **entities**: they are the articles of the dump, and the links in what is
  shown of them lie on the words that they lie on there.
* **centralities**: they are the harmonic centralities of the graph on disk.

The file `PROJECT.json` lists the hazards behind these one by one, each at its
line and with the properties that would catch it.

## 2. Modules

```
LruTree            the data structure: cache, store, recency list   (pure)
 |- LruTreeProofs      what its operators do to a tree with room
 |- CachedTree         one tree under any calls and restarts
 |   |- ForgetfulMap, KeyValueMap      what a tree promises
 |   '- CachedTreeProofs   (also over LruTreeProofs)
 '- GraphData          blocked trees, adjacency, ids, a graph of five trees (pure)
     |- GraphStore     one graph under any calls, restarts and cut flushes
     |   |- EdgeMultigraph             what a graph promises
     |   |- GraphStoreProofs   (also over LruTreeProofs, and Webgraph)
     |   '- Distances          shortest paths and harmonic centrality of a graph,
     |                         through the caches
     '- Webgraph       segments of a full and a host graph, merged edge by edge

MapReduce          manager, pool, workers, connections
 |- ReduceOnce         what Manager::run promises
 '- MapReduceProofs    of the pool, of re-runs, and that the one implements the other

Ranking            scores and counts, the definition of a greedy ranking (pure)
 |- BucketCollector    segment collectors and the merging collector
 |   '- BucketCollectorProofs
 '- DistributedSearch  shards, replicas, the two phases of a search
     '- DistributedSearchProofs

Cursor             what a DocSet promises
 '- DocSets            unions, intersections and pattern scorers
     |- MCDocSets          their inputs, from Patterns
     '- DocSetsProofs
Patterns           which positions match a goggle pattern          (pure)

Warc               a retried download and the records in it        (pure)
IndexData          segments, dictionary, dealing out of segments   (pure)
 '- Indexing           jobs, merges, crashes and restarts of run_locally
     '- IndexingProofs

JustText           scan and classification of paragraphs            (pure)
 '- PageText           a document, edge by edge, to its text and its links

Webpages           urls, pages, the fields of stored documents      (pure)
 |- Queries            terms, parsed queries, bangs, goggles  (over Patterns too)
 |   |- Snippets           fragments and what is bold in them (over Spelling too)
 |   '- Signals            what a page scores, region counts
 '- Entities           the dump, infoboxes, links, what is displayed
Spelling           edit distance, corrections, splitting            (pure)
PageSearch         Snippets, Signals and Entities together: insert, commit,
                   merge and search
```

`MC*` modules give the constants their values; `MapReduce` needs none.

Definitions that end in a slip (`Insert_NoWriteBack`, `Adjust_Once`) are
variants of the definition they stand before, as a plausible mistake would have
it; no specification uses them.  They serve to show that a property notices:
with the definition replaced by its slip, TLC finds the property violated.

### LruTree, CachedTree (`webgraph/graph_store.rs`, 84-146)

A tree is a record `store`, `cache`, `lru`, `cap`.  `UpdateCache`, `Get`,
`Mutate`, `Insert`, `Flush` are `update_cache`, `get`, `get_mut` (with the write
through the returned reference), `insert` and `flush`.  The `lru` crate is
external and modelled by what `get`, `put`, `push` and `pop_lru` do.  `insert`
tests the length before the key, and `update_cache` puts without a write-back:
both are kept as they are.  RocksDB is an atomic map whose content survives the
process.  Each call is one action, because every tree is behind a `Mutex`;
`Restart` may happen between any two calls.

`ForgetfulMap` is what a tree really promises: a map that may forget one
unsaved entry when a key is read.  `KeyValueMap` is what its callers take it
for.

### GraphData, GraphStore (`webgraph/graph_store.rs`, 26-82 and 148-325)

`GraphData` has the operators of `BlockedCachedTree`, `Adjacency` and
`GraphStore` on a record of five trees; one call of the code is a composition
of tree operations with all their effects on caches.  `GraphStore` drives
them.  Labels are not modelled: nothing in the code looks at them.  A restart
keeps what the stores hold, which includes what evictions wrote since the last
flush.

`CrashInFlush` is a process that dies inside `flush`: the trees are written one
after the other (`FlushOrder`), and each entry of a tree in the order of its
recency list, so a crash leaves some trees new, one partly new and the others
old.  Behaviours with such crashes (`tears`) are explored with the cache sizes
of `TornSizes`.  One bound on them is named in `CallInsert`: a store that a
restart may find with trees of different ages is only read after it.  An insert
there may give an id that an entry on disk still uses to another node; see the
disagreements.

### Distances (`webgraph/mod.rs`, 273-497; `entrypoint/centrality.rs`)

Every operator that reads says what graph it leaves, because one read may push
out what another has loaded.  `Search` is the loop of `dijkstra`,
`CalculateCentrality` the two centralities with their norm, `AppendScores` the
store of their results, `IngoingOf` the edges by names.  A distance `d` counts
`Unit / d`, and `Unit` is divisible by the distances there are.
`CentralitiesAreHarmonic` compares with `Harmonic`, a definition by the ways of
at most `k` edges on disk, in every state of a `GraphStore` with room.

### Webgraph (`webgraph/mod.rs`, `entrypoint/webgraph.rs`)

Segments are built (`InsertLink`), frozen, sent and thawed (`FreezeAndThaw`),
and merged.  A merge is a sequence of actions: one per graph, per block loaded
by the `EdgeIterator` and per edge appended.  Which edge comes next is chosen as
the merge goes (`ComesNext`): a list of edges once begun is finished, and the order
of the nodes inside a block is that of a Rust `HashMap`, any.  The blocks come in
any order as well; in the code it is that of the bytes of their encoded numbers,
least significant first.  A build has a full and a host graph or a host graph only,
as the entry points open them.  `merge.current` holds edges with their places in
the lists, so that two equal edges are two.

### MapReduce (`mapreduce/`, `sonic.rs`)

| Model | Code |
|---|---|
| `future[j]`: get, connect, await, failed, push, drop, done | where the future of `map(job)` is: `get_worker`, `connect`, `send`, the error path, `success`, the drop of the guard |
| `ready`, `running` | `ready_workers`, `running_workers` |
| `guard[j]` | the `WorkerGuard` on the future's stack |
| `worker`, `serving`, `inbox`, `answer` | a worker process, the job it maps, the connections queued on its socket, what it wrote to the open one |
| `lost`, `runs` | history: workers that a failure left out, mappings of each job |

A connection is one request and one answer.  A failed attempt to connect, a
broken connection, and the 30 seconds of `send` are the one action
`PerformFails`; it is enabled whatever the worker does, since time is not
modelled.  A worker notices an abandoned connection only when it reads or
writes: `AcceptFails` and the second branch of `Respond` end its loop, as the
`?` in `Worker::run` does.  `PushWorker` and `DropGuard` are two actions
although no await lies between them on the uncontended path: the lock on
`ready_workers` may make one.

The futures of a chunk are one task (`buffer_unordered`, `manager.rs:254`).  One
that finds the list empty while workers are out sleeps with `std::thread::sleep`
and asks again (199-208).  It awaits nothing there but a lock that nobody else
holds, so it does not give up its turn: in `Sleep` it is `"asleep"`, and no other
future takes a step while one is (`FutureStep`).  What ends this is tokio: every
poll of the lock takes one from the budget of the task, and when that is used up
(after some 128 rounds, of a second each) the lock is not given, free as it is.
The task is then polled again from the beginning with a new budget; `Yield` is
that moment.  Which future asks first there depends on the order of the list of
those that were woken, so another may get on or not.

### Ranking, BucketCollector (`collector.rs`)

The scales are 14, 6 and 0.1, so an adjusted score is the score times 84 over
an integer.  The model keeps the divisor and compares by products: the order is
exact, without floating point.  `Adjust` is one turn of the loop in
`update_best_doc`, which stops when the adjusted score of the largest document
stays.  All three kinds of hashes are counted in one map, as in the code.

The heap is external (`min_max_heap`).  Documents that tie come out of it in any
order, with one exception that the ranking depends on: what `peek_max` showed is
what `pop_max` takes next, if nothing has changed in between.  `best` is that
document.  Without it a tie could put a document into the ranking that was not
adjusted, and the ranking would not be greedy.

### DistributedSearch (`searcher/distributed.rs`)

One search, from the query to its result, in both phases.  A server is external
to this module: an attempt to ask it fails or gives content (the page of its
shard, which skips as `local.rs` does), and may leave out documents it cannot
read (`inverted_index.rs:201`).  The ranking of the merged pages is any greedy
ranking in the sense of `Ranking`: that a `BucketCollector` gives one is what
`BucketCollector.cfg` checks.  `search_prettified` has the control of
`search_api` line by line, with other result types; one model stands for both.
`Without` is the `filter` of the code, written as a recursive function, about
which proofs are possible.

### Cursor, DocSets, Patterns (`query/union.rs`, `query/intersection.rs`, `ranking/goggles/pattern_query.rs`)

A step is one call to one posting list, so that the loops show: `GoToFirst` is
one turn of `go_to_first_doc`, `SeekRight`, `SeekLeft` and `SeekOther` are the
loop of `Intersection::advance`, `UnionMoveHead` moves one head of a union.
Posting lists are tantivy's and modelled as sets with a position.  `Cursor` is
the contract: a call goes to the first document from its aim.  A seek of a union
may stop short of it (`exact` is false), which is weaker than what tantivy asks of
a `DocSet`.  What its queries then make of a union is in `Queries`.

What a pattern says of a document is data.  `Patterns!Outcome` is
`perform_pattern_match` with its shortcuts kept: the loop that skips the first
part, the lists in the order of their sizes, and the index that goes beyond the
last.  It enters `DocSets` through the inputs: `HasChain` says declaratively
what that loop computes and is what `DocSets.cfg` compares with.

### Warc, IndexData, Indexing (`warc.rs`, `index.rs`, `inverted_index.rs`, `spell/dictionary.rs`, `entrypoint/indexer.rs`)

| Model | Code |
|---|---|
| `job[j].pc` | where the job, or the merge into its index, is |
| `job[j].todo`, `added`, `words`, `regions` | what is in memory: records still to come, the writer's documents, the dictionary's cache, the region counts |
| `disk[j]` | the job's directory: segments in `meta.json`, dictionary, region counts, subdomains |
| `disk[j].broken` | some of its files are there and others not: `open` fails |
| `handled`, `earlier`, `cut` | history: the pages inserted by this run and by earlier ones; the jobs whose directory a kill caught in a fragile moment |

A file is a sequence of raw records.  A download tries at most `Attempts`
times, each time from the start of the same file, and may succeed with an error
page.  A damaged response is read as one or more records that give an error.
All jobs run at once; one job is sequential.  `Index::commit` is three actions
(dictionary, inverted index, regions), and `Index::merge` one for each store
and three for the inverted index, since a crash between them is what matters.
A write to RocksDB, the region counts, the renaming of `new_dictionary` and the
final `merge_into_segments` are atomic.

What is *not* atomic shows when a process is killed.  `Index::open` makes a
directory in several steps and takes one that exists for complete
(`inverted_index.rs:96-111`; `dictionary.rs:161-164` creates an empty file first);
`fs::write` empties `meta.json` before it writes it (348); the segment files of the
other index are moved one by one (330-339) and its directory is removed file by
file (344, `indexer.rs:232-238`).  `Fragile` are the jobs whose directory is at such
a step, and `RunAgain` lets any of them be left as something that cannot be opened
(`Torn`), or as it was before the step.  A directory that is half gone and can still
be opened is not told from one before or after.

With images on, `download_pending_images` blocks on a runtime inside the one of
`process_job`: `DownloadImages` is the panic that tokio answers with.  Steps that
other jobs still take after a panic are those of a run in which the panic came
last.

A segment is a bag of pages.  `merge` and `merge_into_segments` say which
segments come where, and which goes into which, without a loop: `LargestFirst`
puts a segment where the number of those that come before it says, and the turns
in which segments are dealt out are the one choice in which each goes to the
first of the smallest (`GoesToSmallest`); a sum is the number of points under a
function (`Total`).  So the definitions can be reasoned about for any number of
segments.  `RunAgain` is a process that died anywhere,
or ended, and is started again on what is on disk.

### JustText, PageText (`webpage/just_text.rs`, `webpage/mod.rs`)

A document is given edge by edge: an element starts, a text node stands there,
the innermost element ends (`StartElement`, `TextNode`, `EndElement` in
`PageText`).  `JustText` has the scan of each edge (`Preprocessor`,
`paragraphs`) and the classification.  Both traversals of the code, for the
text and for the links, see the same edges and keep their own stacks.  A text
node has a kind with a length, a number of words and of stop words, and carries
the place where it stands, so that a lost, doubled or misplaced piece shows.
Densities are compared as fractions.  The HTML parser is external: any tree may
come.  Beside the documents the run starts from every list of up to three
paragraphs of seven kinds, and of four or five of five kinds, to reach the
revision of near-good paragraphs between neighbours.

### Webpages, Queries, Patterns, Signals, Snippets, Spelling, Entities

These are operators on data and follow the files they are named after; each
module's head says how its data stand for the code's.  Words are opaque values
with a sequence of letters where spelling needs it; a text is a sequence of
words; a url is its scheme and its parts.  A query to the index is what it
finds: a set of documents per segment, or a clause with how it must occur.
`PatternQuery` finds the first document with all words wherever they stand,
because the scorer compares nothing there, and `PatternPanics` is the pattern
of one word.  Where the code depends on the order of a hash set (corrections,
ties between entities), an operator gives the set of possible results.

A `UnionQuery` under `MustNot` (a blocked site) or under `Must` (a goggle with a bare
`$discard`) is not its set of documents.  tantivy's `Exclude` and `Intersection` take
the document that a seek returns for one it has arrived at, and `Union::seek`
(`union.rs:97-123`) may return one before.  `UnionSeek` is that function on lists of
numbered documents, `Excluded` and `Intersections` what tantivy does with it, and
`WithGoggles` the possible results of a search: which side of an intersection leads
depends on sizes that are estimated, so both may.  Several clauses under `MustNot`
are united by tantivy's own `Union`, which is exact while a segment has no more than
4 096 documents.

### PageSearch (`index.rs`, `inverted_index.rs`, `spell/dictionary.rs`, `searcher/local.rs`, `search_prettifier.rs`, `entrypoint/entity.rs`)

| Model | Code |
|---|---|
| `files[j]` | the pages each job has still to insert, by file |
| `index[j]` | its index: writer, segments, dictionary with its cache, region counts |
| `handled` | history: what each job inserted |
| `dump`, `entities` | the events of the encyclopedia still to read; what is indexed of it, with the state of the reading loop |
| `brokeOff` | history: the dump could not be read to its end |
| `answer` | the answer to the last search |

`Insert` is the whole of `Index::insert` but for the images: words, region and
score counted, the document added if it has a title and a text.  `FinishFile` is
the commit.  `Merge` is `Index::merge` for neighbours.  Both keep only the `TopN`
most frequent words of a dictionary (`StoreUnion`: 100 000 in the code), the last in
the alphabet of equally frequent ones going first.  `Search` is `search` of the
one index that is left, with the bangs, the goggles and site rankings, the
correction, the entity and the snippet of each page.  The steps
*inside* a commit or a merge and their crashes are in `Indexing`, and the
ranking of what is found is in `BucketCollector`.

Images and icons have no place here.  A job that is to download them panics at its
first file (`Indexing`); one that is not drops with its index what `insert` has
scheduled.  Either way the two stores stay empty.

## 3. What is checked

| Run | Bounds | States | Shows |
|---|---|---|---|
| `CachedTree.cfg` | 3 keys, 2 values, capacity 1, 2 or 3 | 3 159 | inserts lose nothing; the tree implements `ForgetfulMap`, and `KeyValueMap` with room |
| `GraphStore.cfg` | 3 nodes, blocks of 2 ids, caches of 1 or 3 entries, 2 inserts, flushes cut anywhere with caches of 3 | 28 065 | ids are a bijection (with room); the graph implements `EdgeMultigraph` (with room), shows no edge that was not inserted (always), and the centralities that a reader with any caches computes are those of the graph on disk (if it was written with room) |
| `GraphStoreEviction.cfg` | the same with caches of 1, no cut flush | violated | an inserted edge is not read back |
| `Webgraph.cfg` | 2 segments, 3 pages on 2 hosts, blocks of 2 ids, 3 edges, both cache sizes | 395 622 | segments hold what was put as long as a graph has one block and room; no edge is invented; no append panics |
| `WebgraphBlocks.cfg` | full graph only, room in the caches | violated | a merge loses the edges of the second block |
| `MapReduce.cfg` | 2 workers, 3 jobs in 2 chunks, any crashes and timeouts | 16 986 | the pool, no early panic, re-runs, `ReduceOnce`, no sleep before a failure; the run ends, or a future sleeps for ever that keeps the others from going on |
| `BucketCollector.cfg` | 4 documents in 2 segments out of 5 pages, ties and a score of zero among them, top 1-2, offset 0-1, maximum 2 or 9, both modes | 330 484 | a greedy ranking; segments do not show; the loop ends |
| `DistributedSearch.cfg` | 2 shards (2 and 1 replicas), 8 documents, 2 per page, 2 attempts, all kinds of queries, 2 pages | 24 512 | losses are reported; order is kept, and a page is as full as what the shards send allows; bangs win; every search ends |
| `DocSets.cfg` | 3 documents; all unions and intersections of 2 or 3 lists; 7 patterns over all texts of 3 tokens out of 2 | 33 793 | the debug assertions, a sorted cursor, every call returns |
| `Indexing.cfg` | 2 jobs with up to 2 files, or 2 jobs run twice, with images or without, or 3 jobs; files of 2 or 3 captures, one damaged; 2 attempts, 2 words kept, 2 final segments | 18 888 | no page lost, doubled or under another url, counters and dictionary that never exceed the pages, panics only for images or after a kill at a fragile moment, the run ends |
| `PageText.cfg` | all documents of up to 5 edges over 7 elements and 2 kinds of text; paragraph lists as above | 1 011 858 | paragraphs are blocks and count their links; links have their text; what is kept does not depend on the order of revision |
| `PageSearch.cfg` | five plans: 1 to 3 jobs over 7 pages, 5 words kept, queries with each kind of term, goggles with each kind of option, site rankings, regions, a dump of 4 articles to be taken, of which 3 are | 1 983 | exact answers but for what a union lets pass, snippets, scores, corrections, entities and their links |

Why the bounds are enough for the cases that matter:

* Three keys with capacities 1 to 3 give every relation of a key to the cache
  (cached, evicted, stored, absent) and caches that are full, not full, and
  never full.
* Blocks of two ids with three nodes put a node in a second block, and make an
  insert touch a full, a shared and a new block.  Two edges name up to four
  ends, hence all three nodes.  A cut flush is explored with the caches that
  hold everything, where all that is not on disk is still cached: that is where
  it has most to tear apart.
* Two workers and three jobs give a chunk where both workers are used and a
  second chunk that starts with whatever the first left in the pool.
* The five pages have a shared site, a shared url, a title whose hash is
  another's site, three scores that tie or nearly do and one of zero, which no
  adjustment changes; four documents exceed `top_n + 1` for the small requests, so
  that pruning happens.
* `Webgraph` is checked up to a permutation of the two pages of a host and of
  the two segments.  The code tells neither apart, and no liveness property is
  checked there, so this loses nothing.
* `Attempts` is 5 in the code and 2 here: the model tells a first attempt, a
  retry, and the last one apart.
* Three documents and three lists let each list be ahead of, at, and behind the
  candidate, and end before the others; every pair of calls that differ in the
  restarts of the loops is among them.
* Three jobs give both bracketings of a merge; two words in a dictionary that
  keeps two make pruning depend on the order of commits; the three segments of
  the last index have to share two places.  A pruned word and one with its full
  count, a page without a title, one that is not wanted, an unknown region and
  an unknown subdomain are among the captures.

* Five edges open, fill and close an element inside another with text before or
  after, or put a line break or a removed element between two texts of one
  block; three plain neighbours on either side of a paragraph are more than the
  revision looks at.
* The seven pages of `PageSearch` have two homepages of one domain, one of which
  cannot be indexed, and a page on the site that is named as the domain is.  Two
  plans put them into segments where a page of a blocked domain stands behind two
  others of it and does slip through, and where under a bare `$discard` a page that
  is not wanted does lead its segment.  Without either exception TLC finds `AnswersAreExact` violated.  The pages
  of some plans have more words than the five that are kept, those of others fewer.
  States are few because steps are large: each answer is computed and compared in
  full.

The type invariants document the state; those of `MapReduce`, `CachedTree` and
`DocSets` are proved, and the configurations list what is less evident.

Each passing run has a slip for each of its properties.

### Fairness

* `MapReduce`: weak fairness on each future, on the manager's own steps and on
  each worker.  tokio polls a task that is ready, `buffer_unordered` polls the
  futures that were woken, and a future that awaits an answer has a 30 second
  timeout (`sonic.rs:165`); a worker process that does not die goes on.  While one
  future sleeps no other is enabled, and it may sleep again and again: then the
  others are not enabled all the time, and weak fairness promises them nothing.
  That is why the property is `RunEndsOrStarves` and not that the run ends, which
  TLC finds violated.  Crashes are never forced.
* `BucketCollector`: weak fairness on `Next`: one thread runs the collectors.
* `DistributedSearch`: weak fairness on the searcher and on each
  `RemoteSearcher`: all are futures of one task and every attempt has a
  connection timeout and a request timeout.
* `DocSets`: weak fairness on `Work`, the steps inside a call: the thread that
  called goes on.  Nothing forces another call.
* `Indexing`: weak fairness on `Work`: the threads of rayon run and a download
  has a timeout (`warc.rs:148`).  Interruptions are never forced and bounded by
  the runs of the plan.
* The graph modules, `PageText` and `PageSearch` state no liveness, and have no
  fairness.

Deadlock is checked where the system never stops (`CachedTree`, `GraphStore`,
`Webgraph`: even a panicked or finished sequence of merges must have been
reached by name; `PageSearch`: there is always another request).  `MapReduce`,
`BucketCollector`, `DistributedSearch`, `DocSets` (a cursor at its end),
`Indexing` and `PageText` end, and their configurations say so.

### Disagreements found

Two have a run of their own that shows them:

1. `graph_store.rs:110`: `update_cache` loads into a full cache with
   `LruCache::put`, which drops the least recently used entry unwritten.
   Inserted edges and ids are lost once a graph has more nodes or blocks than
   its caches hold.  `GraphStoreEviction.cfg` shows a shortest history.
2. `webgraph/mod.rs:148`: the edge iterator never loads a second block, so a
   merge keeps the edges of the first 1 024 source ids only.
   `WebgraphBlocks.cfg`.

Three more are named by a property, which holds because it makes an exception for
exactly this; without the exception TLC finds it violated:

3. `mapreduce/manager.rs:207`: a future without a worker blocks the task of all
   futures of its chunk, the one included whose worker it waits for, and may do so
   for ever (`Starves` in `RunEndsOrStarves`).  The comment at 212-213 says that a
   job whose machine failed is allocated to another machine.
4. `image_downloader.rs:116`: downloading images panics in `block_on`, called from
   the block_on of `process_job` (`entrypoint/indexer.rs:172, 191`).  This ends every
   run of `run_locally` with `download_images` on, which it is unless the
   configuration says otherwise (357; `../configs/indexer/local.toml` does).  And
   `entrypoint/indexer.rs:85`: `open().unwrap()` panics in every run after a kill
   that left a directory half made (`inverted_index.rs:108`, `dictionary.rs:162`),
   half rewritten or half taken apart.  Both causes are in `PanicsAreAccountedFor`.
5. `query/union.rs:112`: a seek of a union stops short of its target, and a page of
   a blocked domain is shown behind two others of the domain (`SlipsThrough`); with a
   bare `$discard` the first page of a segment may be a wrong one
   (`LeadsItsSegment`).  The test at `ranking/site_rankings.rs:161-180` expects that
   a blocked site is not shown, and has one page on it.

The others were met while the code was translated; the models do as the code
does, and the properties promise no more than is left:

* `searcher/distributed.rs:390`: the debug assertion on the number of retrieved
  pages does not hold when a shard fails between the two phases.
* `searcher/distributed.rs:343`: for page `p` the shards skip 20 `p` documents
  each and the searcher `p` more, which come on no page.
* `graph_store.rs:272`: after a flush that was cut between `node2id` and `meta`
  the counter is behind the ids on disk, and an insert may give one of them
  away again.
* `webgraph/mod.rs:425`: the norm of the harmonic centrality is the number of
  nodes on disk less one, which underflows for an empty store (a debug build
  panics there, a release build has no node to divide for); and the centrality
  store is not emptied before a second run.
* `spell/dictionary.rs:195-206`: where pages have more than 100 000 words, a word
  that was pruned is unknown, and a search for it is corrected into another.
* `ranking/goggles/pattern_query.rs:256`: a pattern scorer stands on the first
  document that has all terms without looking at their places, and the loop
  (291) skips the first part and never compares the words of one part; the
  goggle of `../testcases/goggles/quickstart.goggle:27-28` finds more than it
  says.  A pattern of one token panics in `Intersection::new`
  (`query/intersection.rs:45`).
* `ranking/goggles/mod.rs`: an empty `$discard` makes the explicit discards of
  the same goggle ineffective (`quickstart.goggle:92`); an instruction with a
  pattern and `$site=` (56-61) asks for positions in a field that has none.
* `ranking/signal.rs:249`: the first value of the update-time cache is
  `1 / log2(1)`, infinite; `signal.rs:296`: the score computed at insertion uses
  the region counts of the last commit.
* `webpage/just_text.rs:271`: the paragraph that a start of a heading ends, the
  text before it, is marked as the heading; the heading's own text, which its
  end pushes, is not.
  `webpage/mod.rs`: a link to `//host` is taken for one relative to the page.
* `entity_index/entity.rs:58`: `Span::merge` moves links by a length in bytes,
  while spans count characters; `search_prettifier.rs:298` compares the two,
  and 317 may underflow.  `entrypoint/entity.rs:288`: the last section of an
  article is dropped.
* `SPELL_SUBFOLDER_NAME` and `PRIMARY_IMAGE_STORE_SUBFOLDER_NAME` name the same
  directory of an index.

## 4. What is proved

`tlapm` checks these for all values of the constants that satisfy the named
assumption of the module.

**MapReduceProofs** (`MapReduceAssumption`: at least one worker, any number of
jobs).  `TypeCorrect`, `CounterCorrect`, `NoWorkerLeaks`, `GivesUpLast`,
`SleepsLate`, `RerunsAreBounded`, `ReducesOnce`.  The argument for the first five is
one inductive invariant, `IInv`.  `WorkersAreAccountedFor` is not inductive as it
stands, because it says nothing of the future between its push
and the drop of its guard.  `IInv` adds:

* `GuardsAreHeld`: a future holds a guard exactly in the states connect to drop;
* `OthersAreIdle`: futures outside the current chunk hold none;
* `EachIsSomewhere` and `NoneIsTwice`: `WorkersAreAccountedFor`, split into
  covering and disjointness, in the form that each step changes in one place;
* `RunningCountsGuards`, a cardinality: a step adds or removes one element of
  the set of held guards;
* `PanicsOnlyWithoutWorkers`: the counter being zero means that no guard is
  held; with an empty list nothing is left for a worker to be but lost.

`RerunsAreBounded` counts.  The mappings done are a set, `Mappings`, of jobs with
numbers; those that a connection may still lead to are another, `Pending`.
`MappingsArePaidFor` says that both together are no more than the futures that
have sent their job and still count on it (`Sent`) and the workers whose perform
has failed (`Spent`): a send adds to `Pending` and to `Sent`, a failure moves
the future out of `Sent` and its worker into `Spent`, and a worker that maps moves
one from `Pending` to `Mappings`.

`ReducesOnce`: `MapReduce` implements `ReduceOnce`.  `RInv` adds to the invariant
that collected results are there once each and not yet reduced
(`ResultsAreNew`), and what is complete at each stage of the manager
(`StagesAreComplete`), chunks being consecutive intervals of the jobs.

**CachedTreeProofs** (`CachedTreeAssumption`: a finite set of keys, positive
capacities, no value that stands for absence).  `TypeCorrect`,
`CacheConsistent`, and the action properties `InsertIsSafe`,
`CleanReadsAreSafe`, `RoomyTreeIsReliable`.  The inductive invariant is
`WellFormed(tree)`: the type, and the recency list being an injective
enumeration of the cached keys no longer than the capacity.  The lemmas say
what each LRU operation does to it; `RoomyTreeIsReliable` needs in addition
that a key outside the cache leaves room in it, which follows from the
cardinalities.  `TreeIsForgetful` is the refinement of `ForgetfulMap`: a step is
one of the abstract map's, by what each operation does to the values that can
be read and to those that can be read after a restart.

**LruTreeProofs** has what both proofs about trees use: that `MoveToFront`
permutes a recency list, what each operation does to a tree that is not full, in
terms of `Content` (what it reads as) and `Stored` (what it reads as after a
restart), and what it may do to any tree, full or not: every value that is in
the cache or the store afterwards was in one of them before or is the one
written.

**GraphStoreProofs** (`GraphAssumption`, `GraphStoreAssumption`: finitely many
nodes, any positive block size and capacities; `WebgraphAssumption`: pages and hosts
are nodes, each page has a host).  `IdsArePairs`: with room in the caches and no cut
flush, `node2id` and `id2node` are inverse to each other and hold the ids below
`next_id`.  The property speaks of the present only, and a restart would break
it if the stores did not agree as well.  `IInv` says `Agree` of what the three
trees read as *and* of what their stores hold, and that the trees are sound.
That nothing is evicted is part of the argument: there are no more blocks than
nodes, as each block has an id of a node of its own (`FewBlocks`), so a new
block finds room; and the counter does, since a second node is known when it is
overwritten.  The latter matters because `insert` makes room even for a key
that is cached.

`GraphsAreMultigraphs` is the refinement of `EdgeMultigraph`, under the same
condition.  The abstract state is a count per pair of nodes, the concrete one
two trees of blocks of lists of ids.  `EdgeInv` adds to `IInv` that both adjacency
trees, as they read and as they are stored, list given ids only and have no
block that `id2node` has not (`Linked`), so they have room as well.  An insert
then appends one id to one list in each direction, and a count of the entries of
a list that are equal to an id grows by one where it should.

`NothingReadIsInvented` needs neither room nor whole flushes, so nothing above
helps: entries of different ages stand beside each other in five trees.
`NameInv` says that there is one naming of the ids such that *every* version of
every entry, cached or stored, tells the truth by it (`Tells`): `node2id` and
`id2node` give an id its name, and a list of an adjacency tree has no id more
often than its name was inserted.  The naming takes a quantifier, since with
small caches all entries that tell the name of an id may be lost.  Where an
insert may still give out ids, those from `next_id` on have no name yet
(`Fresh`), so that the naming can be extended.

`NoEdgeComesFromNowhere`: `Webgraph` keeps `NoEdgeIsInvented`, for any pages,
segments, blocks and caches, between merges and in the middle of one.  `NameInv`
is not enough for two graphs.  It speaks of the edges inserted into one, by name;
but what an append inserts are entries that the iterator reads by id, and a node
whose entry was lost comes under several ids.  Each such id may have a list of
its own, so that the lists of all ids together could show an edge more often than
any one of them.  What `MergeInv` counts is therefore the *places* of lists in
all versions of all blocks: pairs of an id and an index, with what stands there
(`Places`).  An insert adds one place at most, whatever it pushes out
(`InsertTakesAPlace`), and flushes, reads, restarts and the transfer add none
(`BringsNothing`).  For each edge, a graph has no more places that name it than it
was put (`ShowsAtMost`).  While a graph is appended, the places it has and those of
the other that are still to come (`Left`: the rest of the block, the blocks not
loaded) are together no more than both were put (`Transfer`), and an edge appended
moves from the one side to the other.

That `expect("node not found")` never panics needs a second argument, as entries of
`id2node` may be lost as well.  They are not, because ids are given out in order
(`NamesAllIds`): the entry to be written is in the block that was written last, or
in the next one, which is in no store yet.  So the block being filled is in the
cache and no load pushes anything out for it, unless the cache is empty after a
restart, when all is stored.  An insertion writes back what it pushes out; only loads
lose entries.  This holds as long as a graph is only inserted into, flushed and
thawed; once a merge reads from it, it has been flushed (`Settled`) and is not
inserted into any more.

**IndexingProofs**.  `PanicsHaveTwoCauses`: `PanicsAreAccountedFor`, for any files,
jobs, bracketing and kills.  `PInv` says that each job has its record and its
directory (`Shape`), that no two merges take in the same index (`MergesAreApart`),
and that a directory that cannot be opened, if no kill has left it so, is one that
a merge at work is about to clear (`BrokenAreCleared`).  What a kill leaves broken is
in `cut` (`WhatAKillLeaves`): the step that empties a directory of its segment files
is fragile, and so is every later one until it is gone.

`NoPageIsLost`: `EveryPageIsThere`.  `Has(j, page)` is how often a page is in
what belongs to job `j`: in the segments its metadata lists, in the memory of
its writer, and, between the removal of the other's directory and the writing of
its own metadata, among the segments it carries.  `Held(page)` is the sum over
the jobs.  The invariant `KInv` is that a page with a title is held at least as
often as it was handled, no page is held more often than it was handled in this
and in earlier runs (`PagesStay`), and that each job's segments are where its
program counter says (`Structure`): the other's are carried and still listed in
`"clear"`, and gone from the other's metadata from `"meta"` on; a merged job has
none; a job is done only when all others are merged.  A commit moves a page from
memory to a segment, the removal of a directory from one job to another, and only
a restart drops pages, those of the run it ends.  The lemmas under it say that a
sum may be taken by groups (`TotalOfGroups`) and in any order
(`TotalPermuted`), that putting segments in order (`LargestFirstFacts`), joining
them (`SegmentsJoined`) and dealing them out (`MergeIntoSegmentsFacts`) keeps the
number of copies of each page, and that the turns exist at all (`TurnsExist`).

`CountersAreRight`: `CountersTellThePages`, which is `SubdomainsAreKnown`,
`RegionsTellThePages` and `WordsTellThePages`.  The invariant `CInv` speaks of the counters of all jobs at once.  The subdomain of
each handled page is with one of the jobs (`HostsAgree`), and a job is not removed
before another has its subdomains.  The regions of all jobs add up to the pages
that were handled (`RegionsAgree`), where a job that is inserting counts with what
it has in memory (`RegionsOf`), as that began with what is on the disk.  Of each
word the jobs have together no more than the pages, and exactly as many while
there are no more words in all than one dictionary keeps (`WordsAgree`); between
the merge of two dictionaries and the removal of the other's directory its words
are on the disk twice, and count once (`Spent`).  A dictionary never has a word
that no page has (`WordsOccur`), so that with few words none is ever pruned
(`PrunedFacts`).  `Counters` says where each counter is empty or the same as
another.  The assumptions are that a page's words are a finite bag of numbers,
the order of which breaks ties when a dictionary is pruned.

`UrlsAreKept`: `PagesKeepTheirUrls`.  What the attempts of a download leave one
after the other is always what the file begins with (`PartialFacts`, over the
recursive function of `Partial`), so that a download that succeeds leaves the file
or something that cannot be read at all (`DownloadFacts`).  The records of a file
are three members in a row, one of each type (`FilesHoldPages`); those of an intact
file are of one capture, which is the assumption on the content of files
(`IsFile`): what Common Crawl writes, and what `RecordIterator` relies on.  The
invariant `UrlInv` is that what the jobs have yet to insert and all that was ever
handled is apt; since no page is held more often than it was handled (`KInv`), so
is what is in an index.  `Selected` is a recursive function where one would expect
`SelectSeq`, whose argument is an operator the provers cannot be told about.

**DistributedSearchProofs**.  `BangsAreNotLost`: `BangWins` for any shards,
replicas and failures; inductive with the fact that a search that has met a bang
asks for no pages (`BangsStopTheSearch`).  `LostPagesAreTold` and
`PagesKeepTheOrder`: while the shards are asked one after the other, `DInv` says
of the places (`Filling`) that each is free or holds a page of the shard that was
ranked there, the pages of a shard in the order of the ranking, and exactly the
ranked page if none is unreadable; and of the pages (`Told`) that each one of a
shard that was asked is in some place, could not be read, or lies in a shard with
a replica that gave up.  A document that a server leaves out shifts those after
it to earlier places of the same shard; that this keeps the order follows from
the places of a shard being an increasing sequence (`IndexesOf`), and so are the
numbers of the documents that come.  What is left when the free places are
dropped is a subsequence.

**BucketCollectorProofs** (`BucketCollectorAssumption`: finitely many documents
and segments, any scores, hashes and requests).  `TheRankingIsGreedy` and
`SegmentsAreInvisible`.  While segments collect and fruits are merged, each heap
holds the `top_n + 1` best of what went through it, unadjusted (`BestHeap`); the
best of the best of parts are the best of the whole.  While the ranking is taken
from the heap, the divisors in it are stale.  The invariant says that none is
larger than the one that `adjust_score` would give now, because counts only grow.
So the document at which `update_best_doc` stops, whose divisor is up to date,
exceeds what all others would be adjusted to, and it is the one that a selection
would choose that adjusts every document first.  The counts are a recursive
function of the documents shown (`CountsAfter`).

**DocSetsProofs** (`DocSetsAssumption`: documents are an initial segment of the
naturals, an intersection has two lists or more; any number of lists of any
length).  `TypeCorrect`; `AssertionsHold`: what the loops assert of their
posting lists; `Implementation`: every DocSet is a `Cursor`, provided that the
positions of each pattern say what the pattern means (`MeaningIsRight`, which
the inputs of `DocSets.cfg` satisfy).  The
assertions are not inductive: they speak of the list whose turn it is, and hold
because of where the others stand.  `IInv` adds:

* `HeadsAreDocs`: a list stands on one of its documents or at the end;
* `Aligned`: which lists stand on the candidate, and that none is ahead of it,
  for each place in the loops;
* `AimReached`: the candidate has reached the aim of the call;
* `NothingPassed`: neither the candidate nor a list is beyond a document that
  all lists share and no test has turned down;
* `UnionHeads`: what a union has passed lies before the greatest aim so far.

A step within a call is a stutter of the cursor, and so is the return of
`Intersection::new`, as the abstract cursor stands on the first shared document
from the start.  A return answers: `HeadsAreDocs` and `Aligned` give a document
of the cursor's list, `AimReached` the lower bound, `NothingPassed` and
`UnionHeads` that none is skipped.

Induction.  The induction theorems of the library take the statement to be shown
as a parameter, which the provers cannot instantiate.  Where a proof has to
reason about all values of a recursive function (`Without`, `CountsAfter`,
counts of list entries, sums over a finite set), it takes the set of numbers for which the statement is
false; a nonempty set of numbers has a least element, which the library states
for sets, and at the least counterexample the recursion gives a contradiction.

Only model-checked:

* every liveness property (`RunEndsOrStarves`, `RunEnds`, `RankingEnds`,
  `SearchEnds`, `CallsReturn`): the prover does not reason about fairness or `ENABLED`;
* `CentralitiesAreHarmonic`, which compares two recursive operators, and
  `SmallSegmentsHoldWhatWasPut`: that nothing is lost while a merge fits the caches
  and one block;
* all properties of `PageText` and `PageSearch`: they compare what recursive
  operators compute, and what `Patterns` computes for a text.

## 5. What is not modelled

* Indexing behind a master: there `process_job` itself calls `block_on` of a new
  runtime inside a task of another, which tokio refuses with a panic; the model of
  `Indexing` is of `run_locally`.
* The stores of images and icons, their downloads and merges: no run of the program
  puts anything into them (see the fourth disagreement).
* Freezing and sending an index, the fast field cache, `num_docs`.
* Disk use: `remove_file` (`entrypoint/indexer.rs:178`) is given the path in the
  crawl and never removes a download.
* bm25 and every other number that depends on the statistics of terms, the
  probability tables of the spelling error model, the resizing and encoding of
  images, formatting of dates and numbers, the text syntax of goggles, the
  splitting of text into tokens: floating point, bytes and wording.
* The parsers for HTML, for the wiki markup and for XML: external, and modelled
  by the trees and events they may give.
* `ttl_cache.rs`: no other module uses it.  HTTP, rendering, autosuggestion:
  thin wrappers without state that changes.
* Durations: a timeout may fire at any moment the call is pending.
* Torn writes inside RocksDB: each of its writes is atomic and lasts.

## 6. What is left

Everything that was planned is done but for this, in the order of its worth:

1. Inserts into a store that a cut flush has left: there `NothingIsInvented`
   does not hold, and what does would have to be said.
2. The frozen index on its way through map-reduce, once the code can run it.
3. Proofs: that a merge of segments with room and one block loses no edge, by
   `IInv` and `EdgeInv` of `GraphStoreProofs` for two graphs at once.
