------------------------------ MODULE Indexing -----------------------------
(***************************************************************************)
(* Indexer::run_locally (entrypoint/indexer.rs): each job downloads its    *)
(* WARC files and indexes them in a directory of its own, all jobs at once;*)
(* neighbouring indexes are merged until one is left, whose segments are   *)
(* merged.  The process may die anywhere and be started again: it then     *)
(* finds the directories as they are.                                      *)
(***************************************************************************)
EXTENDS IndexData, Warc

CONSTANTS Plans,       \* for each job the names of its files; the runs; and
                       \* whether images are to be downloaded
          Content,     \* the content of each file
          Wanted,      \* captures that are not left out (pdf, centrality)
          Titled,      \* captures that have a title
          RegionOf,    \* the region of each capture, or Unknown
          HostOf,      \* the domain and subdomain of each capture, or Unknown
          WordsOf,     \* the words in each capture that has any, as bags
          Unknown

ASSUME IndexingAssumption ==
  /\ Plans \subseteq [jobs : Seq(SUBSET DOMAIN Content), runs : Nat, images : BOOLEAN]
  /\ \A f \in DOMAIN Content : IsFile(Content[f])
  /\ \A c \in DOMAIN WordsOf :
       /\ IsFiniteSet(DOMAIN WordsOf[c])
       /\ \A w \in DOMAIN WordsOf[c] : w \in Int /\ WordsOf[c][w] \in Nat \ {0}

VARIABLES plan,
          disk,        \* the directory of each job
          job,         \* what the process knows of each job
          runs,        \* started so far
          handled,     \* history: the pages that were inserted in this run
          earlier,     \* history: the pages of earlier runs
          cut          \* history: the directories that were cut at a bad moment

vars == <<plan, disk, job, runs, handled, earlier, cut>>
history == <<runs, handled, earlier, cut>>

Jobs == DOMAIN plan.jobs

\* A job before it starts: its files, the pages of the file it is at, what its
\* index has in memory; and in a merge, the other job and its segments.
Waiting(j) == [pc |-> "new", files |-> plan.jobs[j], todo |-> <<>>,
               added |-> EmptyBag, words |-> EmptyBag, regions |-> EmptyBag,
               with |-> j, carried |-> <<>>]

Init == /\ plan \in Plans
        /\ job = [j \in Jobs |-> Waiting(j)]
        /\ disk = [j \in Jobs |-> NewIndex]
        /\ runs = 1
        /\ handled = EmptyBag
        /\ earlier = EmptyBag
        /\ cut = {}

pc(j) == job[j].pc

Go(j, from, to) == pc(j) = from /\ job' = [job EXCEPT ![j].pc = to]
-----------------------------------------------------------------------------
(* async_process_job *)

\* Index::open creates what is not there.  It fails on a directory that lacks
\* some of its files; the job panics, and panic_fuse ends the whole run.
StartJob(j) ==
  /\ pc(j) = "new"
  /\ job' = [job EXCEPT ![j].pc = IF disk[j].broken THEN "panicked" ELSE "files",
                        ![j].regions = disk[j].regions]
  /\ disk' = [disk EXCEPT ![j].made = ~disk[j].broken]
  /\ UNCHANGED <<plan, history>>

\* The stream of downloads leaves out those that failed ...
DownloadFails(j) ==
  /\ pc(j) = "files"
  /\ \E f \in job[j].files : job' = [job EXCEPT ![j].files = @ \ {f}]
  /\ UNCHANGED <<plan, disk, history>>

WantedPages(buf) ==
  LET pages == Records(buf)
  IN  Selected(pages, {page \in ToSet(pages) : page.body \in Wanted})

\* ... and gives the others in any order.
NextFile(j) ==
  /\ pc(j) = "files"
  /\ \E f \in job[j].files : \E buf \in Downloads(Content[f]) :
       job' = [job EXCEPT ![j].pc = "pages",
                          ![j].files = @ \ {f},
                          ![j].todo = WantedPages(buf)]
  /\ UNCHANGED <<plan, disk, history>>

Known(S) == SetToBag(S \ {Unknown})
WordsOn(page) == IF page.body \in DOMAIN WordsOf THEN WordsOf[page.body] ELSE EmptyBag

\* Index::insert: the counters first; a page without a title then fails.
InsertPage(j) ==
  /\ pc(j) = "pages"
  /\ job[j].todo /= <<>>
  /\ LET page == Head(job[j].todo)
         new == IF page.body \in Titled THEN SetToBag({page}) ELSE EmptyBag
     IN  /\ job' = [job EXCEPT ![j].todo = Tail(@),
                               ![j].words = @ (+) WordsOn(page),
                               ![j].regions = @ (+) Known({RegionOf[page.body]}),
                               ![j].added = @ (+) new]
         /\ disk' = [disk EXCEPT ![j].hosts = @ \cup ({HostOf[page.url]} \ {Unknown})]
         /\ handled' = handled (+) SetToBag({page})
  /\ UNCHANGED <<plan, runs, earlier, cut>>

\* With images on, the downloader blocks on a runtime of its own inside that of
\* process_job: tokio panics, whether there is an image to download or not.
DownloadImages(j) ==
  /\ plan.images
  /\ job[j].todo = <<>>
  /\ Go(j, "pages", "panicked")
  /\ UNCHANGED <<plan, disk, history>>

\* Index::commit: dictionary, inverted index, counters.
CommitWords(j) ==
  /\ ~plan.images
  /\ pc(j) = "pages"
  /\ job[j].todo = <<>>
  /\ job' = [job EXCEPT ![j].pc = "words committed", ![j].words = EmptyBag]
  /\ disk' = [disk EXCEPT ![j].words = Pruned(@ (+) job[j].words)]
  /\ UNCHANGED <<plan, history>>

CommitPages(j) ==
  /\ pc(j) = "words committed"
  /\ job' = [job EXCEPT ![j].pc = "pages committed", ![j].added = EmptyBag]
  /\ disk' = [disk EXCEPT ![j].segments = AddSegment(@, job[j].added)]
  /\ UNCHANGED <<plan, history>>

CommitRegions(j) ==
  /\ Go(j, "pages committed", "files")
  /\ disk' = [disk EXCEPT ![j].regions = job[j].regions]
  /\ UNCHANGED <<plan, history>>

FinishJob(j) ==
  /\ job[j].files = {}
  /\ Go(j, "files", "ready")
  /\ UNCHANGED <<plan, disk, history>>
-----------------------------------------------------------------------------
(* IndexPointer::reduce, Index::merge *)

Neighbours_Next(j, k) == k = j + 1

\* rayon reduces neighbours, in any order.
Neighbours(j, k) == j < k /\ \A l \in j + 1 .. k - 1 : pc(l) = "merged"

StartMerge(j, k) ==
  /\ Neighbours(j, k)
  /\ pc(j) = "ready" /\ pc(k) = "ready"
  /\ job' = [job EXCEPT ![j].pc = "rename", ![j].with = k, ![k].pc = "merging"]
  /\ UNCHANGED <<plan, disk, history>>

Other(j) == disk[job[j].with]

\* InvertedIndex::merge moves the files of the other's segments ...
RenameFiles(j) ==
  /\ pc(j) = "rename"
  /\ job' = [job EXCEPT ![j].pc = "clear", ![j].carried = Other(j).segments]
  /\ disk' = [disk EXCEPT ![job[j].with].broken = Other(j).segments /= <<>>]
  /\ UNCHANGED <<plan, history>>

\* ... removes the other's directory ...
ClearOther_Later(j) ==
  /\ Go(j, "clear", "meta")
  /\ UNCHANGED <<plan, disk, history>>

ClearOther(j) ==
  /\ Go(j, "clear", "meta")
  /\ disk' = [disk EXCEPT ![job[j].with].broken = FALSE,
                          ![job[j].with].made = FALSE,
                          ![job[j].with].segments = <<>>]
  /\ UNCHANGED <<plan, history>>

\* ... and only then writes its own metadata.
WriteMeta_Own(j) ==
  /\ Go(j, "meta", "dictionary")
  /\ UNCHANGED <<plan, disk, history>>

WriteMeta(j) ==
  /\ pc(j) = "meta"
  /\ job' = [job EXCEPT ![j].pc = "dictionary", ![j].carried = <<>>]
  /\ disk' = [disk EXCEPT ![j].segments = MergedSegments(@, job[j].carried)]
  /\ UNCHANGED <<plan, history>>

MergeWords(j) ==
  /\ Go(j, "dictionary", "regions")
  /\ disk' = [disk EXCEPT ![j].words = Pruned(@ (+) Other(j).words)]
  /\ UNCHANGED <<plan, history>>

\* RegionCount::merge removes the other's file and writes its own.
MergeRegions(j) ==
  /\ Go(j, "regions", "hosts")
  /\ disk' = [disk EXCEPT ![j].regions = @ (+) Other(j).regions,
                          ![job[j].with].regions = EmptyBag]
  /\ UNCHANGED <<plan, history>>

MergeHosts_Replaces(j) ==
  /\ Go(j, "hosts", "remove")
  /\ disk' = [disk EXCEPT ![j].hosts = Other(j).hosts]
  /\ UNCHANGED <<plan, history>>

MergeHosts(j) ==
  /\ Go(j, "hosts", "remove")
  /\ disk' = [disk EXCEPT ![j].hosts = @ \cup Other(j).hosts]
  /\ UNCHANGED <<plan, history>>

RemoveOther(j) ==
  /\ pc(j) = "remove"
  /\ job' = [job EXCEPT ![j].pc = "ready", ![j].with = j,
                        ![job[j].with].pc = "merged"]
  /\ disk' = [disk EXCEPT ![job[j].with] = NewIndex]
  /\ UNCHANGED <<plan, history>>
-----------------------------------------------------------------------------
OnlyOneLeft(j) == \A k \in Jobs \ {j} : pc(k) = "merged"

FinishRun(j) ==
  /\ OnlyOneLeft(j)
  /\ Go(j, "ready", "done")
  /\ disk' = [disk EXCEPT ![j].segments = MergeIntoSegments(@)]
  /\ UNCHANGED <<plan, history>>

\* In these steps a directory has some of its files and not the others: while
\* Index::open creates them ...
BeingCreated(j) == pc(j) = "new" /\ ~disk[j].made

\* ... while meta.json, which fs::write empties first, is written anew ...
BeingRewritten(j) == pc(j) = "meta"

\* ... and while those of another index are moved or removed.
BeingTakenApart(k) ==
  \E j \in Jobs : /\ job[j].with = k
                  /\ \/ pc(j) \in {"clear", "remove"}
                     \/ pc(j) = "rename" /\ disk[k].segments /= <<>>

Fragile == {j \in Jobs : BeingCreated(j) \/ BeingRewritten(j) \/ BeingTakenApart(j)}

\* What cannot be opened any more when a step is cut that is at these.
Torn(torn) ==
  [j \in Jobs |-> IF j \in torn THEN [disk[j] EXCEPT !.broken = TRUE] ELSE disk[j]]

\* The process dies, in the middle of a step or between two, or has ended, and
\* is started once more.
RunAgain ==
  /\ runs < plan.runs
  /\ job' = [j \in Jobs |-> Waiting(j)]
  /\ runs' = runs + 1
  /\ \E torn \in SUBSET Fragile : disk' = Torn(torn)
  /\ cut' = cut \cup Fragile
  /\ earlier' = earlier (+) handled
  /\ handled' = EmptyBag
  /\ UNCHANGED plan

JobStep(j) == \/ StartJob(j) \/ DownloadFails(j) \/ NextFile(j) \/ InsertPage(j)
              \/ DownloadImages(j) \/ CommitWords(j) \/ CommitPages(j)
              \/ CommitRegions(j) \/ FinishJob(j)

MergeStep(j) == \/ \E k \in Jobs : StartMerge(j, k)
                \/ RenameFiles(j) \/ ClearOther(j) \/ WriteMeta(j) \/ MergeWords(j)
                \/ MergeRegions(j) \/ MergeHosts(j) \/ RemoveOther(j)

Panicked == \E j \in Jobs : pc(j) = "panicked"

Work == ~Panicked /\ \E j \in Jobs : JobStep(j) \/ MergeStep(j) \/ FinishRun(j)

Next == Work \/ RunAgain

Spec == Init /\ [][Next]_vars /\ WF_vars(Work)
-----------------------------------------------------------------------------
TypeOK ==
  /\ plan \in Plans
  /\ runs \in 1 .. plan.runs
  /\ cut \subseteq Jobs
  /\ \A j \in Jobs :
       /\ job[j].files \subseteq plan.jobs[j]
       /\ job[j].with \in Jobs
       /\ IsABag(disk[j].words) /\ Cardinality(DOMAIN disk[j].words) <= TopN
       /\ IsABag(disk[j].regions) /\ IsABag(job[j].regions)
       /\ IsABag(job[j].added) /\ IsABag(job[j].words)
       /\ \A k \in DOMAIN disk[j].segments :
            IsABag(disk[j].segments[k]) /\ disk[j].segments[k] /= EmptyBag

Done(j) == pc(j) = "done"

Indexed(j) == PagesIn(disk[j].segments)

(* Only the pages that have a title come into the inverted index.            *)
Searchable(pages) == [page \in {p \in DOMAIN pages : p.body \in Titled} |-> pages[page]]

(* However the indexes are merged, each page of this run is in the finished  *)
(* index once for each time it was handled; a page that is there more often  *)
(* is left over from earlier runs.                                           *)
EveryPageIsThere ==
  \A j \in Jobs : Done(j) =>
    /\ Searchable(handled) \sqsubseteq Indexed(j)
    /\ Indexed(j) \sqsubseteq Searchable(handled (+) earlier)

(* Whatever is downloaded over the rest of an earlier attempt, no page of an *)
(* intact file is stored under the url of another.  (In a damaged file the   *)
(* records behind the damage may be grouped wrongly: next takes any three in *)
(* a row that are a request, a response and metadata.)                       *)
PagesKeepTheirUrls ==
  \A j \in Jobs : \A page \in DOMAIN Indexed(j) :
    page.url /= page.body =>
      \E f \in DOMAIN Content :
        Damaged(Content[f]) /\ Member("response", page.body) \in ToSet(Content[f])

(* In the finished index every page's subdomain is known, also after a       *)
(* restart.                                                                  *)
SubdomainsAreKnown ==
  \A j \in Jobs : Done(j) =>
    {HostOf[page.url] : page \in DOMAIN Indexed(j)} \subseteq disk[j].hosts \cup {Unknown}

\* How many pages have the region v.
PagesWith(v, pages) == Total([page \in {p \in DOMAIN pages : RegionOf[p.body] = v} |-> pages[page]])

(* When nothing was interrupted, the regions are counted page by page, those *)
(* of the pages without a title too.                                         *)
RegionsTellThePages ==
  LET regions == {RegionOf[p.body] : p \in DOMAIN handled} \ {Unknown} IN
  runs = 1 => \A j \in Jobs : Done(j) =>
    disk[j].regions = [v \in regions |-> PagesWith(v, handled)]

\* How often the word is in the pages.
Occurrences(word, pages) ==
  Total([page \in DOMAIN pages |-> pages[page] * Copies(word, WordsOn(page))])

(* When nothing was interrupted, the dictionary, however often it was pruned,*)
(* counts no word too often; while there are no more words than it keeps, it *)
(* has each with its exact count.                                            *)
WordsTellThePages ==
  LET all == UNION {DOMAIN WordsOn(page) : page \in DOMAIN handled} IN
  runs = 1 => \A j \in Jobs : Done(j) =>
    /\ \A w \in DOMAIN disk[j].words : disk[j].words[w] <= Occurrences(w, handled)
    /\ Cardinality(all) <= TopN =>
         disk[j].words = [w \in all |-> Occurrences(w, handled)]

(* What the finished index counts tells the pages that were handled: their   *)
(* subdomains, their regions and their words, however the indexes of the     *)
(* jobs were merged.                                                         *)
CountersTellThePages == SubdomainsAreKnown /\ RegionsTellThePages /\ WordsTellThePages

(* A job panics for two reasons only.  Images are to be downloaded; or an    *)
(* earlier run was cut while its directory had some of its files and not the *)
(* others: while they were created, rewritten, moved or removed.             *)
PanicsAreAccountedFor ==
  \A j \in Jobs : pc(j) = "panicked" => plan.images \/ j \in cut

(* The run comes to an end unless it is interrupted.                         *)
RunEnds == <>[](Panicked \/ \E j \in Jobs : Done(j))
=============================================================================
