--------------------------- MODULE IndexingProofs --------------------------
(***************************************************************************)
(* For any number of jobs, files, interruptions and restarts:              *)
(*   - a job panics only where images are to be downloaded, or over a      *)
(*     directory that an earlier run left when it was cut while some of    *)
(*     its files were there and others not;                                *)
(*   - each page of a run with a title is in the finished index once for   *)
(*     each time it was handled, and what is there more often is of earlier*)
(*     runs;                                                               *)
(*   - the finished index knows the subdomain of each of its pages, and    *)
(*     after one run its regions and its words are counted page by page;   *)
(*   - a page is under its own url, unless a damaged file holds its body.  *)
(* The second is by counting: how often a page is in what each job has on  *)
(* the disk, in memory or between two directories, and in all of it.  The  *)
(* lemmas before it are about sums, segments and what a merge does to them.*)
(* The third is by the same sums, of the counters of all jobs; the last    *)
(* follows the records from the downloads, as what is held was handled.    *)
(***************************************************************************)
EXTENDS Indexing, FiniteSetTheorems, SequenceTheorems, TLAPS

----------------------------------------------------------------------------
\* Each job has its record and its directory, and merges with another job.
Shape ==
  /\ DOMAIN job = Jobs /\ DOMAIN disk = Jobs
  /\ \A j \in Jobs : /\ {"pc", "with"} \subseteq DOMAIN job[j]
                     /\ "broken" \in DOMAIN disk[j] /\ disk[j].broken \in BOOLEAN
                     /\ job[j].with \in Jobs

\* A job that takes another into its own has that one for itself.
Merging(j) == pc(j) \in {"rename", "clear", "meta", "dictionary", "regions", "hosts", "remove"}
MergesAreApart ==
  /\ \A j \in Jobs : Merging(j) => pc(job[j].with) = "merging"
  /\ \A i, j \in Jobs : Merging(i) /\ Merging(j) /\ job[i].with = job[j].with => i = j

\* A directory without its files that no kill has left belongs to a job that is
\* being merged into another, which is about to clear it.
BeingCleared(k) ==
  pc(k) = "merging" /\ \E j \in Jobs : pc(j) = "clear" /\ job[j].with = k
BrokenAreCleared ==
  \A k \in Jobs : disk[k].broken /= FALSE => k \in cut \/ BeingCleared(k)

PInv == Shape /\ MergesAreApart /\ BrokenAreCleared /\ PanicsAreAccountedFor

----------------------------------------------------------------------------
LEMMA PanicInit == Init => PInv
<1> SUFFICES ASSUME Init PROVE PInv
  OBVIOUS
<1>1. ASSUME NEW j \in Jobs
      PROVE  /\ {"pc", "with"} \subseteq DOMAIN job[j] /\ "broken" \in DOMAIN disk[j]
             /\ job[j].pc = "new" /\ job[j].with = j /\ disk[j].broken = FALSE
  BY <1>1 DEF Init, Waiting, NewIndex
<1>2. DOMAIN job = Jobs /\ DOMAIN disk = Jobs
  BY DEF Init
<1>3. QED
  BY <1>1, <1>2 DEF PInv, Shape, MergesAreApart, Merging, BrokenAreCleared,
     PanicsAreAccountedFor, pc

\* The steps of job j that do not hand files from one directory to another.
Quiet(j) ==
  /\ pc(j) \notin {"merging", "clear"} /\ pc(j)' /= "panicked"
  /\ Merging(j)' => Merging(j)
  /\ UNCHANGED <<plan, cut>>
  /\ \A k \in Jobs : /\ k /= j => pc(k)' = pc(k)
                     /\ job'[k].with = job[k].with
                     /\ disk'[k].broken = disk[k].broken

LEMMA QuietKeeps ==
  ASSUME PInv, Shape', NEW j \in Jobs, Quiet(j)
  PROVE  PInv'
<1> USE DEF Quiet, PInv
<1>1. Jobs' = Jobs
  BY DEF Jobs
<1>2. BrokenAreCleared'
  <2> SUFFICES ASSUME NEW k \in Jobs, disk'[k].broken /= FALSE, k \notin cut
               PROVE  BeingCleared(k)'
    BY <1>1 DEF BrokenAreCleared
  <2>1. BeingCleared(k)
    BY DEF BrokenAreCleared
  <2>2. PICK i \in Jobs : pc(i) = "clear" /\ job[i].with = k
    BY <2>1 DEF BeingCleared
  <2>3. i /= j /\ k /= j
    BY <2>1, <2>2 DEF BeingCleared
  <2>4. pc(i)' = "clear" /\ job'[i].with = k /\ pc(k)' = "merging"
    BY <2>1, <2>2, <2>3 DEF BeingCleared
  <2>5. QED
    BY <1>1, <2>4 DEF BeingCleared
<1>3. PanicsAreAccountedFor'
  BY <1>1 DEF PanicsAreAccountedFor
<1>4. MergesAreApart'
  <2>1. \A i \in Jobs : Merging(i)' => Merging(i) /\ job'[i].with = job[i].with
    BY DEF Merging
  <2>2. \A i \in Jobs : Merging(i) => job[i].with \in Jobs \ {j}
    BY DEF MergesAreApart, Shape
  <2>3. QED
    BY <1>1, <2>1, <2>2 DEF MergesAreApart
<1>5. QED
  BY <1>2, <1>3, <1>4

LEMMA JobStepKeeps ==
  ASSUME PInv, NEW j \in Jobs, JobStep(j)
  PROVE  PInv'
<1> USE DEF PInv, Shape, Jobs, pc
<1>1. CASE (StartJob(j) /\ disk[j].broken) \/ DownloadImages(j)
  <2>1. /\ pc(j) \in {"new", "pages"} /\ cut' = cut /\ plan' = plan
        /\ DOMAIN job' = Jobs /\ DOMAIN disk' = Jobs
        /\ \A k \in Jobs : /\ {"pc", "with"} \subseteq DOMAIN job'[k]
                           /\ job'[k].with = job[k].with
                           /\ "broken" \in DOMAIN disk'[k]
                           /\ disk'[k].broken = disk[k].broken
    BY <1>1 DEF StartJob, DownloadImages, Go, history
  <2>2. ~BeingCleared(j)
    BY <2>1 DEF BeingCleared
  <2>3. plan.images \/ j \in cut
    BY <1>1, <2>2 DEF BrokenAreCleared, DownloadImages
  <2>4. Shape'
    BY <2>1
  <2>5. QED
    <3>1. \A i \in Jobs : job'[i].pc = IF i = j THEN "panicked" ELSE job[i].pc
      BY <1>1 DEF StartJob, DownloadImages, Go
    <3>2. MergesAreApart'
      <4>1. \A i \in Jobs : Merging(i)' => Merging(i) /\ job'[i].with = job[i].with
        BY <2>1, <3>1 DEF Merging
      <4>2. \A i \in Jobs : Merging(i) => job[i].with \in Jobs \ {j}
        BY <2>1 DEF MergesAreApart
      <4>3. \A i \in Jobs : Merging(i)' => job'[job'[i].with].pc = "merging"
        BY <2>1, <3>1, <4>1, <4>2 DEF MergesAreApart
      <4>4. \A i, l \in Jobs : Merging(i)' /\ Merging(l)' /\ job'[i].with = job'[l].with => i = l
        BY <2>1, <4>1 DEF MergesAreApart
      <4>5. QED
        BY <2>1, <4>3, <4>4 DEF MergesAreApart
    <3>3. BrokenAreCleared'
      <4>1. ASSUME NEW k \in Jobs, BeingCleared(k) PROVE BeingCleared(k)'
        BY <2>1, <3>1, <4>1 DEF BeingCleared
      <4>2. QED
        BY <2>1, <4>1 DEF BrokenAreCleared
    <3>4. PanicsAreAccountedFor'
      BY <2>1, <2>3, <3>1 DEF PanicsAreAccountedFor
    <3>5. QED
      BY <2>4, <3>2, <3>3, <3>4
<1>2. CASE StartJob(j) /\ ~disk[j].broken
  BY <1>2, QuietKeeps DEF StartJob, history, Quiet, Merging
<1>3. CASE DownloadFails(j)
  BY <1>3, QuietKeeps DEF DownloadFails, history, Quiet, Merging
<1>4. CASE NextFile(j)
  <2>1. PICK f \in job[j].files : \E buf \in Downloads(Content[f]) :
          job' = [job EXCEPT ![j].pc = "pages", ![j].files = @ \ {f},
                             ![j].todo = WantedPages(buf)]
    BY <1>4 DEF NextFile
  <2>2. PICK buf \in Downloads(Content[f]) :
          job' = [job EXCEPT ![j].pc = "pages", ![j].files = @ \ {f},
                             ![j].todo = WantedPages(buf)]
    BY <2>1
  <2>3. pc(j) = "files" /\ UNCHANGED <<plan, disk, cut>>
    BY <1>4, SMTT(30) DEF NextFile, history
  <2>4. QED
    BY <2>2, <2>3, QuietKeeps DEF Quiet, Merging
<1>5. CASE InsertPage(j)
  <2> DEFINE page == Head(job[j].todo)
             new == IF page.body \in Titled THEN SetToBag({page}) ELSE EmptyBag
             words == job[j].words (+) WordsOn(page)
             regions == job[j].regions (+) Known({RegionOf[page.body]})
             added == job[j].added (+) new
             hosts == disk[j].hosts \cup ({HostOf[page.url]} \ {Unknown})
  <2>1. /\ pc(j) = "pages" /\ UNCHANGED <<plan, cut>>
        /\ job' = [job EXCEPT ![j].todo = Tail(@), ![j].words = words,
                              ![j].regions = regions, ![j].added = added]
        /\ disk' = [disk EXCEPT ![j].hosts = hosts]
    BY <1>5 DEF InsertPage
  <2> HIDE DEF words, regions, added, hosts
  <2>2. QED
    BY <2>1, QuietKeeps DEF Quiet, Merging
<1>6. CASE CommitWords(j)
  BY <1>6, QuietKeeps DEF CommitWords, history, Quiet, Merging
<1>7. CASE CommitPages(j)
  BY <1>7, QuietKeeps DEF CommitPages, history, Quiet, Merging
<1>8. CASE CommitRegions(j)
  BY <1>8, QuietKeeps DEF CommitRegions, Go, history, Quiet, Merging
<1>9. CASE FinishJob(j)
  BY <1>9, QuietKeeps DEF FinishJob, Go, history, Quiet, Merging
<1>10. QED
  BY <1>1, <1>2, <1>3, <1>4, <1>5, <1>6, <1>7, <1>8, <1>9 DEF JobStep

LEMMA MergeStepKeeps ==
  ASSUME PInv, NEW j \in Jobs, MergeStep(j)
  PROVE  PInv'
<1> USE DEF PInv, Shape, Jobs, pc
<1> DEFINE k == job[j].with
<1>0. k \in Jobs
  OBVIOUS
<1>1. ASSUME NEW i \in Jobs, StartMerge(j, i) PROVE PInv'
  <2>1. /\ pc(j) = "ready" /\ pc(i) = "ready" /\ UNCHANGED <<plan, disk, cut>>
        /\ job' = [job EXCEPT ![j].pc = "rename", ![j].with = i, ![i].pc = "merging"]
    BY <1>1 DEF StartMerge, history
  <2>2. Shape'
    BY <2>1
  <2>3. BrokenAreCleared'
    BY <2>1 DEF BrokenAreCleared, BeingCleared
  <2>4. PanicsAreAccountedFor'
    BY <2>1 DEF PanicsAreAccountedFor
  <2>5. MergesAreApart'
    <3>1. \A l \in Jobs : /\ l /= j => job'[l].with = job[l].with /\ (Merging(l)' => Merging(l))
                          /\ job[l].pc = "merging" => job'[l].pc = "merging"
      BY <2>1 DEF Merging
    <3>2. \A l \in Jobs : Merging(l) => job[l].with \in Jobs \ {i, j}
      BY <2>1 DEF MergesAreApart
    <3>3. Merging(j)' => job'[j].with = i /\ job'[i].pc = "merging"
      BY <2>1 DEF Merging
    <3>4. QED
      <4>1. \A l \in Jobs : Merging(l)' => job'[job'[l].with].pc = "merging"
        BY <3>1, <3>2, <3>3 DEF MergesAreApart
      <4>2. \A l, m \in Jobs : Merging(l)' /\ Merging(m)' /\ job'[l].with = job'[m].with => l = m
        BY <3>1, <3>2, <3>3 DEF MergesAreApart
      <4>3. plan' = plan
        BY <2>1
      <4>4. QED
        BY <4>1, <4>2, <4>3 DEF MergesAreApart
  <2>6. QED
    BY <2>2, <2>3, <2>4, <2>5
<1>2. CASE RenameFiles(j)
  <2>1. PICK b \in BOOLEAN :
          /\ pc(j) = "rename" /\ UNCHANGED <<plan, cut>>
          /\ job' = [job EXCEPT ![j].pc = "clear", ![j].carried = Other(j).segments]
          /\ disk' = [disk EXCEPT ![k].broken = b]
    BY <1>2 DEF RenameFiles, history
  <2>2. Shape'
    BY <1>0, <2>1
  <2>3. pc(k) = "merging"
    BY <2>1 DEF MergesAreApart, Merging
  <2>4. BrokenAreCleared'
    BY <1>0, <2>1, <2>3 DEF BrokenAreCleared, BeingCleared
  <2>5. PanicsAreAccountedFor'
    BY <2>1 DEF PanicsAreAccountedFor
  <2>6. MergesAreApart'
    <3>1. \A l \in Jobs : /\ job'[l].with = job[l].with /\ (Merging(l)' => Merging(l))
                          /\ job[l].pc = "merging" => job'[l].pc = "merging"
      BY <2>1 DEF Merging
    <3>2. QED
      <4>1. \A l \in Jobs : Merging(l)' => job'[job'[l].with].pc = "merging"
        BY <3>1 DEF MergesAreApart
      <4>2. \A l, m \in Jobs : Merging(l)' /\ Merging(m)' /\ job'[l].with = job'[m].with => l = m
        BY <3>1 DEF MergesAreApart
      <4>3. plan' = plan
        BY <2>1
      <4>4. QED
        BY <4>1, <4>2, <4>3 DEF MergesAreApart
  <2>7. QED
    BY <2>2, <2>4, <2>5, <2>6
<1>3. CASE ClearOther(j)
  <2>1. /\ pc(j) = "clear" /\ UNCHANGED <<plan, cut>>
        /\ job' = [job EXCEPT ![j].pc = "meta"]
        /\ disk' = [disk EXCEPT ![k].broken = FALSE, ![k].made = FALSE, ![k].segments = <<>>]
    BY <1>3 DEF ClearOther, Go, history
  <2>2. Shape'
    BY <1>0, <2>1
  <2>3. BrokenAreCleared'
    <3>1. /\ disk'[k].broken = FALSE
          /\ \A l \in Jobs \ {k} : disk'[l].broken = disk[l].broken
          /\ \A l \in Jobs : job'[l].with = job[l].with
          /\ \A l \in Jobs \ {j} : job'[l].pc = job[l].pc
      BY <1>0, <2>1
    <3>2. ASSUME NEW l \in Jobs \ {k}, BeingCleared(l) PROVE BeingCleared(l)'
      <4>1. PICK m \in Jobs : job[m].pc = "clear" /\ job[m].with = l
        BY <3>2 DEF BeingCleared
      <4>2. m /= j /\ l /= j
        BY <1>0, <2>1, <3>2, <4>1 DEF BeingCleared
      <4>3. QED
        BY <2>1, <3>1, <3>2, <4>1, <4>2 DEF BeingCleared
    <3>3. QED
      BY <2>1, <3>1, <3>2 DEF BrokenAreCleared
  <2>4. PanicsAreAccountedFor'
    BY <2>1 DEF PanicsAreAccountedFor
  <2>5. MergesAreApart'
    BY <1>0, <2>1 DEF MergesAreApart, Merging
  <2>6. QED
    BY <2>2, <2>3, <2>4, <2>5
<1>4. CASE WriteMeta(j)
  BY <1>4, QuietKeeps DEF WriteMeta, history, Quiet, Merging
<1>5. CASE MergeWords(j)
  BY <1>5, QuietKeeps DEF MergeWords, Go, history, Quiet, Merging
<1>6. CASE MergeRegions(j)
  BY <1>0, <1>6, QuietKeeps DEF MergeRegions, Go, history, Quiet, Merging
<1>7. CASE MergeHosts(j)
  BY <1>7, QuietKeeps DEF MergeHosts, Go, history, Quiet, Merging
<1>8. CASE RemoveOther(j)
  <2>1. /\ pc(j) = "remove" /\ UNCHANGED <<plan, cut>>
        /\ job' = [job EXCEPT ![j].pc = "ready", ![j].with = j, ![k].pc = "merged"]
        /\ disk' = [disk EXCEPT ![k] = NewIndex]
    BY <1>8 DEF RemoveOther, history
  <2>2. Shape'
    BY <1>0, <2>1 DEF NewIndex
  <2>3. BrokenAreCleared'
    BY <1>0, <2>1 DEF BrokenAreCleared, BeingCleared, NewIndex
  <2>4. PanicsAreAccountedFor'
    BY <1>0, <2>1 DEF PanicsAreAccountedFor
  <2>5. MergesAreApart'
    <3>1. /\ \A i \in Jobs \ {j, k} : job'[i] = job[i]
          /\ job'[j].pc = "ready" /\ (k /= j => job'[k].pc = "merged")
      BY <1>0, <2>1
    <3>2. \A i \in Jobs : Merging(i)' => i \notin {j, k} /\ Merging(i) /\ job'[i] = job[i]
      BY <1>0, <2>1, <3>1 DEF Merging
    <3>3. \A i \in Jobs : Merging(i)' => job[i].with \notin {j, k}
      <4>1. Merging(j) /\ pc(j) /= "merging"
        BY <2>1 DEF Merging
      <4>2. MergesAreApart /\ j \in Jobs
        OBVIOUS
      <4>3. ASSUME NEW i \in Jobs, Merging(i), i /= j PROVE job[i].with /= j /\ job[i].with /= k
        <5> HIDE DEF Shape, pc, PInv, Jobs, Merging
        <5>1. pc(job[i].with) = "merging"
          BY <4>2, <4>3, Zenon DEF MergesAreApart
        <5>2. job[i].with /= k
          BY <4>1, <4>2, <4>3 DEF MergesAreApart
        <5>3. QED
          BY <4>1, <5>1, <5>2, Zenon
      <4>4. QED
        BY <3>2, <4>3
    <3>4. MergesAreApart /\ Jobs' = Jobs
      BY <2>1
    <3>5. ASSUME NEW i \in Jobs, Merging(i)' PROVE pc(job[i].with)' = "merging"
      <4>1. Merging(i) /\ job'[i].with = job[i].with
        BY <3>2, <3>5
      <4>2. job[i].with \in Jobs \ {j, k}
        BY <3>3, <3>5
      <4>3. pc(job[i].with) = "merging"
        BY <3>4, <4>1 DEF MergesAreApart
      <4>4. QED
        BY <3>1, <4>1, <4>2, <4>3
    <3>6. ASSUME NEW i \in Jobs, NEW l \in Jobs, Merging(i)', Merging(l)',
                 job'[i].with = job'[l].with
          PROVE  i = l
      <4>1. Merging(i) /\ Merging(l) /\ job[i].with = job[l].with
        BY <3>2, <3>6
      <4>2. QED
        BY <3>4, <4>1 DEF MergesAreApart
    <3>7. QED
      BY <3>4, <3>5, <3>6 DEF MergesAreApart
  <2>6. QED
    BY <2>2, <2>3, <2>4, <2>5
<1>9. QED
  BY <1>1, <1>2, <1>3, <1>4, <1>5, <1>6, <1>7, <1>8 DEF MergeStep

\* A kill leaves of each directory all but whether it can be opened.
Intact(j) ==
  DOMAIN disk'[j] = DOMAIN disk[j] /\ \A part \in DOMAIN disk[j] \ {"broken"} :
                                        disk'[j][part] = disk[j][part]

LEMMA WhatAKillLeaves ==
  ASSUME RunAgain, DOMAIN disk = Jobs
  PROVE  /\ plan' = plan /\ Jobs' = Jobs /\ DOMAIN disk' = Jobs
         /\ \A j \in Jobs : /\ Intact(j)
                            /\ "broken" \in DOMAIN disk[j] /\ disk[j].broken \in BOOLEAN
                                 => disk'[j].broken \in BOOLEAN
                            /\ j \notin Fragile => disk'[j] = disk[j]
<1>1. PICK torn \in SUBSET Fragile : disk' = Torn(torn)
  BY DEF RunAgain
<1>2. plan' = plan
  BY DEF RunAgain
<1>3. DOMAIN disk' = Jobs
  BY <1>1 DEF Torn
<1>4. ASSUME NEW j \in Jobs
      PROVE  disk'[j] = disk[j] \/ (j \in Fragile /\ disk'[j] = [disk[j] EXCEPT !.broken = TRUE])
  BY <1>1 DEF Torn
<1>5. ASSUME NEW j \in Jobs PROVE Intact(j)
  BY <1>4 DEF Intact
<1>6. ASSUME NEW j \in Jobs, "broken" \in DOMAIN disk[j], disk[j].broken \in BOOLEAN
      PROVE  disk'[j].broken \in BOOLEAN
  BY <1>4, <1>6
<1>7. QED
  BY <1>2, <1>3, <1>4, <1>5, <1>6 DEF Jobs

\* What is cut short while a directory lacks some of its files is remembered.
LEMMA RunAgainKeeps ==
  ASSUME PInv, RunAgain
  PROVE  PInv'
<1> USE DEF PInv, Shape, Jobs, pc
<1>0. /\ DOMAIN disk' = Jobs
      /\ \A j \in Jobs : /\ Intact(j)
                         /\ disk'[j].broken \in BOOLEAN
                         /\ j \notin Fragile => disk'[j] = disk[j]
  BY WhatAKillLeaves
<1>1. /\ plan' = plan /\ job' = [j \in Jobs |-> Waiting(j)]
      /\ cut' = cut \cup Fragile
      /\ DOMAIN disk' = Jobs
      /\ \A j \in Jobs : /\ "broken" \in DOMAIN disk'[j]
                         /\ disk'[j].broken \in BOOLEAN
                         /\ j \notin Fragile => disk'[j].broken = disk[j].broken
  BY <1>0 DEF RunAgain, Intact
<1>2. \A j \in Jobs : job'[j].pc = "new"
  BY <1>1 DEF Waiting
<1>3. Shape'
  BY <1>1 DEF Waiting
<1>4. PanicsAreAccountedFor'
  BY <1>1, <1>2 DEF PanicsAreAccountedFor
<1>5. BrokenAreCleared'
  <2>1. \A k \in Jobs : BeingCleared(k) => k \in Fragile
    BY DEF BeingCleared, Fragile, BeingTakenApart
  <2>2. ASSUME NEW k \in Jobs, disk'[k].broken /= FALSE PROVE k \in cut'
    BY <1>1, <2>1, <2>2 DEF BrokenAreCleared
  <2>3. QED
    BY <1>1, <2>2 DEF BrokenAreCleared
<1>6. MergesAreApart'
  <2>1. Jobs' = Jobs /\ \A j \in Jobs : ~Merging(j)'
    BY <1>1, <1>2 DEF Merging
  <2>2. QED
    BY <2>1 DEF MergesAreApart
<1>7. QED
  BY <1>3, <1>4, <1>5, <1>6

LEMMA PanicStep ==
  ASSUME PInv, [Next]_vars
  PROVE  PInv'
<1>1. ASSUME NEW j \in Jobs, FinishRun(j) PROVE PInv'
  BY <1>1, QuietKeeps DEF PInv, Shape, MergesAreApart, Jobs, pc, FinishRun, Go, history, Quiet, Merging
<1>2. CASE UNCHANGED vars
  <2>1. UNCHANGED <<plan, disk, job, cut>>
    BY <1>2 DEF vars, history
  <2>2. Shape'
    BY <2>1 DEF PInv, Shape, Jobs
  <2>3. MergesAreApart'
    BY <2>1 DEF PInv, MergesAreApart, Merging, Jobs, pc
  <2>4. BrokenAreCleared'
    BY <2>1, ZenonT(40) DEF PInv, BrokenAreCleared, BeingCleared, Jobs, pc
  <2>5. PanicsAreAccountedFor'
    BY <2>1 DEF PInv, PanicsAreAccountedFor, Jobs, pc
  <2>6. QED
    BY <2>2, <2>3, <2>4, <2>5 DEF PInv
<1>3. QED
  BY <1>1, <1>2, JobStepKeeps, MergeStepKeeps, RunAgainKeeps DEF Next, Work

\* A job of the indexer panics only where images are to be downloaded, or over
\* the directory that a run left which was cut in the middle of creating,
\* rewriting, moving or removing its files.
THEOREM PanicsHaveTwoCauses == Spec => []PanicsAreAccountedFor
<1>1. PInv => PanicsAreAccountedFor
  BY DEF PInv
<1>2. QED
  BY <1>1, PanicInit, PanicStep, PTL DEF Spec

\* Induction over the numbers, by way of a smallest finite set.
Minimal(A, T) == A \in T /\ \A B \in T : B \subseteq A => B = A
AllFinite(T) == \A A \in T : IsFiniteSet(A)

\* A nonempty set of finite sets has one that contains no other of them.
LEMMA MinimalSet ==
  ASSUME NEW T, AllFinite(T), T /= {}
  PROVE  \E A : Minimal(A, T)
<1> DEFINE X == UNION T
<1>1. IsWellFoundedOn(StrictSubsetOrdering(X), FiniteSubsetsOf(X))
  BY FS_StrictSubsetOrderingWellFounded
<1>2. T \subseteq FiniteSubsetsOf(X)
  BY DEF FiniteSubsetsOf, AllFinite
<1>3. PICK A \in T : \A B \in T : ~ (<<B, A>> \in StrictSubsetOrdering(X))
  BY <1>1, <1>2, WFMin
<1>4. \A B \in T : B \subseteq A => B = A
  BY <1>3 DEF StrictSubsetOrdering
<1>5. QED
  BY <1>4 DEF Minimal

\* A nonempty set of numbers has a least.
LEMMA LeastNumber ==
  ASSUME NEW W, W \subseteq Nat, W /= {}
  PROVE  \E n \in W : \A k \in W : n <= k
<1>1. PICK T : T = {0 .. n : n \in W}
  OBVIOUS
<1>2. T /= {}
  BY <1>1
<1>3. AllFinite(T)
  <2>1. \A n \in W : IsFiniteSet(0 .. n)
    BY FS_Interval
  <2>2. QED
    BY <1>1, <2>1, Zenon DEF AllFinite
<1>4. PICK A : Minimal(A, T)
  BY <1>2, <1>3, MinimalSet
<1>5. PICK n \in W : A = 0 .. n
  BY <1>1, <1>4 DEF Minimal
<1>6. ASSUME NEW k \in W, k < n PROVE FALSE
  <2>1. (0 .. k) \in T /\ (0 .. k) \subseteq (0 .. n)
    BY <1>1, <1>6
  <2>2. 0 .. k = 0 .. n
    BY <1>4, <1>5, <2>1 DEF Minimal
  <2>3. QED
    BY <1>6, <2>2
<1>7. QED
  BY <1>6

\* Induction, of a set of numbers.
LEMMA SetInduction ==
  ASSUME NEW S, 0 \in S, \A n \in Nat : n \in S => n + 1 \in S
  PROVE  \A n \in Nat : n \in S
<1> SUFFICES ASSUME NEW m \in Nat, m \notin S PROVE FALSE
  OBVIOUS
<1>1. PICK n \in Nat \ S : \A k \in Nat \ S : n <= k
  BY LeastNumber
<1>2. n /= 0 /\ n - 1 \in Nat \ S
  OBVIOUS
<1>3. QED
  BY <1>1, <1>2

----------------------------------------------------------------------------
\* Sums, as numbers of points.
IsCount(c) == IsFiniteSet(DOMAIN c) /\ \A i \in DOMAIN c : c[i] \in Nat
Column(i, m) == {<<i, n>> : n \in 1 .. m}

\* A column has as many points as it is high.
LEMMA ColumnFacts ==
  ASSUME NEW i, NEW m \in Nat
  PROVE  IsFiniteSet(Column(i, m)) /\ Cardinality(Column(i, m)) = m
<1>1. PICK f : f = [n \in 1 .. m |-> <<i, n>>]
  OBVIOUS
<1>2. f \in Bijection(1 .. m, Column(i, m))
  BY <1>1 DEF Bijection, Injection, Surjection, Column, IsInjective
<1>3. IsFiniteSet(1 .. m) /\ Cardinality(1 .. m) = m
  BY FS_Interval
<1>4. ExistsBijection(1 .. m, Column(i, m))
  BY <1>2 DEF ExistsBijection
<1>5. QED
  BY <1>3, <1>4, FS_Bijection

LEMMA PointsAre ==
  ASSUME NEW c
  PROVE  /\ \A x : x \in Points(c) <=> \E i \in DOMAIN c : x \in Column(i, c[i])
         /\ \A i, n : <<i, n>> \in Points(c) <=> i \in DOMAIN c /\ n \in 1 .. c[i]
  BY DEF Points, Column

LEMMA PointsAreFinite ==
  ASSUME NEW c, IsCount(c)
  PROVE  IsFiniteSet(Points(c)) /\ Total(c) \in Nat
<1>1. PICK f : f = [i \in DOMAIN c |-> Column(i, c[i])]
  OBVIOUS
<1>2. PICK T : T = {f[i] : i \in DOMAIN c}
  OBVIOUS
<1>3. f \in Surjection(DOMAIN c, T)
  BY <1>1, <1>2 DEF Surjection
<1>4. IsFiniteSet(T)
  BY <1>3, FS_Surjection DEF IsCount
<1>5. \A C \in T : IsFiniteSet(C)
  <2>1. \A i \in DOMAIN c : IsFiniteSet(Column(i, c[i]))
    BY ColumnFacts DEF IsCount
  <2>2. QED
    BY <1>1, <1>2, <2>1
<1>6. Points(c) = UNION T
  <2>1. \A x : x \in UNION T <=> \E i \in DOMAIN c : x \in Column(i, c[i])
    BY <1>1, <1>2
  <2>2. QED
    BY <2>1, PointsAre
<1>7. IsFiniteSet(Points(c))
  BY <1>4, <1>5, <1>6, FS_UNION
<1>8. QED
  BY <1>7, FS_CardinalityType DEF Total

\* A sum is that of all but one and the one.
But(c, i) == [k \in DOMAIN c \ {i} |-> c[k]]

LEMMA TotalSplits ==
  ASSUME NEW c, IsCount(c), NEW i \in DOMAIN c
  PROVE  /\ IsCount(But(c, i)) /\ Total(But(c, i)) \in Nat
         /\ Total(c) = Total(But(c, i)) + c[i]
<1>1. IsCount(But(c, i))
  <2>1. IsFiniteSet(DOMAIN c \ {i})
    BY FS_RemoveElement DEF IsCount
  <2>2. QED
    BY <2>1 DEF IsCount, But
<1>2. IsFiniteSet(Points(But(c, i))) /\ Total(But(c, i)) \in Nat
  BY <1>1, PointsAreFinite
<1>3. /\ IsFiniteSet(Column(i, c[i])) /\ Cardinality(Column(i, c[i])) = c[i] /\ c[i] \in Nat
  BY ColumnFacts DEF IsCount
<1>4. Points(c) = Points(But(c, i)) \cup Column(i, c[i])
  <2>1. DOMAIN But(c, i) = DOMAIN c \ {i} /\ \A k \in DOMAIN c \ {i} : But(c, i)[k] = c[k]
    BY DEF But
  <2>2. \A x : x \in Points(But(c, i)) <=> \E k \in DOMAIN c \ {i} : x \in Column(k, c[k])
    <3>1. \A x : x \in Points(But(c, i)) <=>
                   \E k \in DOMAIN But(c, i) : x \in Column(k, But(c, i)[k])
      BY PointsAre
    <3>2. QED
      BY <2>1, <3>1
  <2>3. QED
    BY <2>2, PointsAre
<1>5. Points(But(c, i)) \cap Column(i, c[i]) = {}
  <2>1. \A n : <<i, n>> \notin Points(But(c, i))
    BY PointsAre DEF But
  <2>2. QED
    BY <2>1 DEF Column
<1>6. Cardinality(Points(c)) = Cardinality(Points(But(c, i))) + c[i]
  <2>1. PICK A, B : A = Points(But(c, i)) /\ B = Column(i, c[i])
    OBVIOUS
  <2>2. /\ IsFiniteSet(A) /\ IsFiniteSet(B) /\ A \cap B = {} /\ Points(c) = A \cup B
        /\ Cardinality(B) = c[i] /\ c[i] \in Nat
    BY <1>2, <1>3, <1>4, <1>5, <2>1
  <2>3. Cardinality(A \cup B) = Cardinality(A) + Cardinality(B) - Cardinality(A \cap B)
    BY <2>2, FS_Union
  <2>4. Cardinality(A \cap B) = 0 /\ Cardinality(A) \in Nat
    BY <2>2, FS_EmptySet, FS_CardinalityType
  <2>5. Cardinality(A \cup B) = Cardinality(A) + c[i]
    BY <2>2, <2>3, <2>4
  <2>6. QED
    BY <2>1, <2>2, <2>5
<1>7. QED
  BY <1>1, <1>2, <1>6 DEF Total

\* Sums of functions that differ in one place.
Beside(c, d, i) == DOMAIN d = DOMAIN c /\ \A k \in DOMAIN c \ {i} : d[k] = c[k]

LEMMA TotalChanges ==
  ASSUME NEW c, NEW d, IsCount(c), NEW i, i \in DOMAIN c, Beside(c, d, i), d[i] \in Nat
  PROVE  IsCount(d) /\ Total(d) \in Nat /\ Total(c) \in Nat /\ Total(d) + c[i] = Total(c) + d[i]
<1>1. IsCount(d) /\ c[i] \in Nat
  BY DEF IsCount, Beside
<1>2. But(c, i) = But(d, i)
  BY DEF But, Beside
<1>3. Total(c) = Total(But(c, i)) + c[i] /\ Total(But(c, i)) \in Nat
  BY TotalSplits
<1>4. Total(d) = Total(But(d, i)) + d[i]
  BY <1>1, TotalSplits DEF Beside
<1>5. PICK t \in Nat : t = Total(But(c, i)) /\ t = Total(But(d, i))
  BY <1>2, <1>3
<1>6. QED
  BY <1>1, <1>3, <1>4, <1>5

LEMMA TotalSame ==
  ASSUME NEW c, NEW d, DOMAIN d = DOMAIN c, \A k \in DOMAIN c : d[k] = c[k]
  PROVE  Total(d) = Total(c)
<1>1. Points(d) = Points(c)
  BY DEF Points
<1>2. QED
  BY <1>1 DEF Total

LEMMA TotalOfNone ==
  ASSUME NEW c, \A k \in DOMAIN c : c[k] = 0
  PROVE  Total(c) = 0
<1>1. Points(c) = {}
  <2>1. \A k \in DOMAIN c : Column(k, c[k]) = {}
    BY DEF Column
  <2>2. QED
    BY <2>1, PointsAre
<1>2. QED
  BY <1>1, FS_EmptySet DEF Total

\* Zeros do not count.
LEMMA TotalWithoutZeros ==
  ASSUME NEW c, NEW d, DOMAIN d \subseteq DOMAIN c, \A k \in DOMAIN d : d[k] = c[k],
         \A k \in DOMAIN c \ DOMAIN d : c[k] = 0
  PROVE  Total(d) = Total(c)
<1>1. \A k \in DOMAIN c \ DOMAIN d : Column(k, c[k]) = {}
  BY DEF Column
<1>2. \A k \in DOMAIN d : Column(k, c[k]) = Column(k, d[k])
  OBVIOUS
<1>3. Points(d) = Points(c)
  BY <1>1, <1>2, PointsAre
<1>4. QED
  BY <1>3 DEF Total

\* Nor does the order.
LEMMA TotalPermuted ==
  ASSUME NEW c, NEW d, IsCount(c), NEW p \in Bijection(DOMAIN d, DOMAIN c),
         \A k \in DOMAIN d : d[k] = c[p[k]]
  PROVE  Total(d) = Total(c)
<1>1. /\ p \in [DOMAIN d -> DOMAIN c]
      /\ \A k, l \in DOMAIN d : p[k] = p[l] => k = l
      /\ \A i \in DOMAIN c : \E k \in DOMAIN d : p[k] = i
  BY DEF Bijection, Injection, Surjection, IsInjective
<1>2. PICK f : f = [x \in Points(d) |-> <<p[x[1]], x[2]>>]
  OBVIOUS
<1>3. \A k, n : <<k, n>> \in Points(d) => f[<<k, n>>] = <<p[k], n>>
  BY <1>2
<1>4. \A x \in Points(d) : \E k, n : k \in DOMAIN d /\ n \in 1 .. d[k] /\ x = <<k, n>>
  BY PointsAre DEF Column
<1>5. \A x \in Points(c) : \E i, n : i \in DOMAIN c /\ n \in 1 .. c[i] /\ x = <<i, n>>
  BY PointsAre DEF Column
<1>6. \A x \in Points(d) : f[x] \in Points(c)
  <2> SUFFICES ASSUME NEW x \in Points(d) PROVE f[x] \in Points(c)
    OBVIOUS
  <2>1. PICK k, n : k \in DOMAIN d /\ n \in 1 .. d[k] /\ x = <<k, n>>
    BY <1>4
  <2>2. f[x] = <<p[k], n>> /\ p[k] \in DOMAIN c /\ n \in 1 .. c[p[k]]
    BY <1>1, <1>3, <2>1
  <2>3. QED
    BY <2>2, PointsAre
<1>7. \A x, y \in Points(d) : f[x] = f[y] => x = y
  <2> SUFFICES ASSUME NEW x \in Points(d), NEW y \in Points(d), f[x] = f[y] PROVE x = y
    OBVIOUS
  <2>1. PICK k, n : k \in DOMAIN d /\ n \in 1 .. d[k] /\ x = <<k, n>>
    BY <1>4
  <2>2. PICK l, m : l \in DOMAIN d /\ m \in 1 .. d[l] /\ y = <<l, m>>
    BY <1>4
  <2>3. <<p[k], n>> = <<p[l], m>>
    BY <1>3, <2>1, <2>2
  <2>4. QED
    BY <1>1, <2>1, <2>2, <2>3
<1>8. \A x \in Points(c) : \E y \in Points(d) : f[y] = x
  <2> SUFFICES ASSUME NEW x \in Points(c) PROVE \E y \in Points(d) : f[y] = x
    OBVIOUS
  <2>1. PICK i, n : i \in DOMAIN c /\ n \in 1 .. c[i] /\ x = <<i, n>>
    BY <1>5
  <2>2. PICK k \in DOMAIN d : p[k] = i
    BY <1>1, <2>1
  <2>3. k \in DOMAIN d /\ n \in 1 .. d[k]
    BY <2>1, <2>2
  <2>4. <<k, n>> \in Points(d)
    BY <2>3, PointsAre
  <2>5. QED
    BY <1>3, <2>1, <2>2, <2>4
<1>9. f \in Bijection(Points(d), Points(c))
  BY <1>2, <1>6, <1>7, <1>8 DEF Bijection, Injection, Surjection, IsInjective
<1>10. IsFiniteSet(Points(c))
  BY PointsAreFinite
<1>11. f \in Injection(Points(d), Points(c)) /\ f \in Surjection(Points(d), Points(c))
  BY <1>9 DEF Bijection
<1>12. Cardinality(Points(d)) = Cardinality(Points(c))
  BY <1>10, <1>11, FS_Injection
<1>13. QED
  BY <1>12 DEF Total

\* A sum may be taken by groups.
Group(c, t, k) == [i \in {j \in DOMAIN c : t[j] = k} |-> c[i]]
Grouped(c, t, K) == [k \in K |-> Total(Group(c, t, k))]
GroupsAdd(c, t, K) == IsCount(Grouped(c, t, K)) /\ Total(Grouped(c, t, K)) = Total(c)
GroupsIn(c, t, K) == \A i \in DOMAIN c : t[i] \in K

LEMMA GroupsAreCounts ==
  ASSUME NEW c, IsCount(c), NEW t, NEW k
  PROVE  IsCount(Group(c, t, k)) /\ Total(Group(c, t, k)) \in Nat
<1>1. IsFiniteSet({j \in DOMAIN c : t[j] = k})
  BY FS_Subset DEF IsCount
<1>2. IsCount(Group(c, t, k))
  BY <1>1 DEF IsCount, Group
<1>3. QED
  BY <1>2, PointsAreFinite

LEMMA OneMoreInGroups ==
  ASSUME NEW c, IsCount(c), NEW t, NEW K, IsFiniteSet(K), GroupsIn(c, t, K),
         NEW i \in DOMAIN c, GroupsAdd(But(c, i), t, K)
  PROVE  GroupsAdd(c, t, K)
<1>1. PICK d : d = But(c, i)
  OBVIOUS
<1>2. IsCount(d) /\ Total(d) \in Nat /\ Total(c) = Total(d) + c[i] /\ c[i] \in Nat
  BY <1>1, TotalSplits DEF IsCount
<1>3. DOMAIN d = DOMAIN c \ {i} /\ \A j \in DOMAIN d : d[j] = c[j]
  BY <1>1 DEF But
<1>4. t[i] \in K
  BY DEF GroupsIn
<1>5. \A k \in K \ {t[i]} : Group(c, t, k) = Group(d, t, k)
  <2> SUFFICES ASSUME NEW k \in K \ {t[i]} PROVE Group(c, t, k) = Group(d, t, k)
    OBVIOUS
  <2>1. {j \in DOMAIN c : t[j] = k} = {j \in DOMAIN d : t[j] = k}
    BY <1>3
  <2>2. QED
    BY <1>3, <2>1 DEF Group
<1>6. But(Group(c, t, t[i]), i) = Group(d, t, t[i])
  <2>1. {j \in DOMAIN c : t[j] = t[i]} \ {i} = {j \in DOMAIN d : t[j] = t[i]}
    BY <1>3
  <2>2. QED
    BY <1>3, <2>1 DEF Group, But
<1>7. Total(Group(c, t, t[i])) = Total(Group(d, t, t[i])) + c[i]
  <2>1. i \in DOMAIN Group(c, t, t[i]) /\ Group(c, t, t[i])[i] = c[i]
    BY DEF Group
  <2>2. QED
    BY <1>6, <2>1, GroupsAreCounts, TotalSplits
<1>8. PICK f, g : f = Grouped(d, t, K) /\ g = Grouped(c, t, K)
  OBVIOUS
<1>9. IsCount(f) /\ Total(f) = Total(d)
  BY <1>1, <1>8 DEF GroupsAdd
<1>10. Beside(f, g, t[i])
  BY <1>5, <1>8 DEF Beside, Grouped
<1>11. t[i] \in DOMAIN f /\ g[t[i]] = f[t[i]] + c[i] /\ f[t[i]] \in Nat
  BY <1>2, <1>4, <1>7, <1>8, GroupsAreCounts DEF Grouped
<1>12. g[t[i]] \in Nat
  BY <1>2, <1>11
<1>13. IsCount(g) /\ Total(g) \in Nat /\ Total(f) \in Nat /\ Total(g) + f[t[i]] = Total(f) + g[t[i]]
  BY <1>9, <1>10, <1>11, <1>12, TotalChanges
<1>14. Total(g) = Total(f) + c[i]
  <2>1. PICK a \in Nat, b \in Nat, x \in Nat, y \in Nat :
          a = Total(g) /\ b = Total(f) /\ x = f[t[i]] /\ y = c[i]
    BY <1>2, <1>11, <1>13
  <2>2. a + x = b + (x + y)
    BY <1>11, <1>13, <2>1
  <2>3. a = b + y
    BY <2>2
  <2>4. QED
    BY <2>1, <2>3
<1>15. QED
  BY <1>2, <1>8, <1>9, <1>13, <1>14 DEF GroupsAdd

LEMMA TotalOfGroups ==
  ASSUME NEW c, IsCount(c), NEW t, NEW K, IsFiniteSet(K), GroupsIn(c, t, K)
  PROVE  GroupsAdd(c, t, K)
<1> DEFINE S == {n \in Nat : \A d : IsCount(d) /\ GroupsIn(d, t, K) /\ Cardinality(DOMAIN d) = n
                                    => GroupsAdd(d, t, K)}
<1>1. 0 \in S
  <2> SUFFICES ASSUME NEW d, IsCount(d), Cardinality(DOMAIN d) = 0 PROVE GroupsAdd(d, t, K)
    OBVIOUS
  <2>1. DOMAIN d = {}
    BY FS_EmptySet DEF IsCount
  <2>2. Total(d) = 0
    BY <2>1, TotalOfNone
  <2>3. \A k \in K : Total(Group(d, t, k)) = 0
    <3>1. \A k \in K : DOMAIN Group(d, t, k) = {}
      BY <2>1 DEF Group
    <3>2. QED
      BY <3>1, TotalOfNone
  <2>4. DOMAIN Grouped(d, t, K) = K /\ \A k \in K : Grouped(d, t, K)[k] = 0
    BY <2>3 DEF Grouped
  <2>5. IsCount(Grouped(d, t, K)) /\ Total(Grouped(d, t, K)) = 0
    BY <2>4, TotalOfNone DEF IsCount
  <2>6. QED
    BY <2>2, <2>5 DEF GroupsAdd
<1>2. ASSUME NEW n \in Nat, n \in S PROVE n + 1 \in S
  <2> SUFFICES ASSUME NEW d, IsCount(d), GroupsIn(d, t, K), Cardinality(DOMAIN d) = n + 1
               PROVE  GroupsAdd(d, t, K)
    OBVIOUS
  <2>1. PICK i : i \in DOMAIN d
    <3>1. DOMAIN d /= {}
      BY FS_EmptySet
    <3>2. QED
      BY <3>1
  <2>2. PICK e : e = But(d, i)
    OBVIOUS
  <2>3. IsCount(e)
    BY <2>1, <2>2, TotalSplits
  <2>4. DOMAIN e = DOMAIN d \ {i}
    BY <2>2 DEF But
  <2>5. Cardinality(DOMAIN e) = n
    <3>1. PICK D : D = DOMAIN d
      OBVIOUS
    <3>2. Cardinality(D \ {i}) = Cardinality(D) - 1
      BY <2>1, <3>1, FS_RemoveElement DEF IsCount
    <3>3. QED
      BY <2>4, <3>1, <3>2
  <2>6. GroupsIn(e, t, K)
    BY <2>4 DEF GroupsIn
  <2>7. GroupsAdd(e, t, K)
    BY <1>2, <2>3, <2>5, <2>6
  <2>8. QED
    BY <2>1, <2>2, <2>7, OneMoreInGroups
<1>3. Cardinality(DOMAIN c) \in Nat
  BY FS_CardinalityType DEF IsCount
<1> HIDE DEF S
<1>4. Cardinality(DOMAIN c) \in S
  BY <1>1, <1>2, <1>3, SetInduction
<1>5. QED
  BY <1>4 DEF S

----------------------------------------------------------------------------
\* Putting segments in order.
IsOrder(upTo) ==
  /\ IsFiniteSet(DOMAIN upTo)
  /\ \A k \in DOMAIN upTo : k \in upTo[k] /\ upTo[k] \subseteq DOMAIN upTo
  /\ \A k, l \in DOMAIN upTo :
       k /= l => \/ upTo[k] \subseteq upTo[l] /\ l \notin upTo[k]
                 \/ upTo[l] \subseteq upTo[k] /\ k \notin upTo[l]

\* Each segment has a place of its own, and no place is free.
Orders(q, upTo) ==
  /\ q \in Bijection(1 .. Cardinality(DOMAIN upTo), DOMAIN upTo)
  /\ Cardinality(DOMAIN upTo) \in Nat
  /\ \A r \in 1 .. Cardinality(DOMAIN upTo) :
       q[r] = CHOOSE k \in DOMAIN upTo : Cardinality(upTo[k]) = r

LEMMA PlacesExist ==
  ASSUME NEW upTo, IsOrder(upTo)
  PROVE  \E q : Orders(q, upTo)
<1>1. PICK P, n : P = DOMAIN upTo /\ n = Cardinality(P)
  OBVIOUS
<1>2. IsFiniteSet(P) /\ n \in Nat
  BY <1>1, FS_CardinalityType DEF IsOrder
<1>3. PICK p : p = [k \in P |-> Cardinality(upTo[k])]
  OBVIOUS
<1>4. \A k \in P : IsFiniteSet(upTo[k]) /\ Cardinality(upTo[k]) \in 1 .. n
  <2> SUFFICES ASSUME NEW k \in P PROVE IsFiniteSet(upTo[k]) /\ Cardinality(upTo[k]) \in 1 .. n
    OBVIOUS
  <2>1. k \in upTo[k] /\ upTo[k] \in SUBSET P
    BY <1>1 DEF IsOrder
  <2>2. IsFiniteSet(upTo[k]) /\ Cardinality(upTo[k]) <= n
    BY <1>1, <1>2, <2>1, FS_Subset
  <2>3. Cardinality(upTo[k]) \in Nat /\ Cardinality(upTo[k]) /= 0
    BY <2>1, <2>2, FS_CardinalityType, FS_EmptySet
  <2>4. QED
    BY <1>2, <2>2, <2>3
<1>5. \A k, l \in P : k /= l => Cardinality(upTo[k]) /= Cardinality(upTo[l])
  <2>1. ASSUME NEW k \in P, NEW l \in P, upTo[k] \subseteq upTo[l], l \notin upTo[k]
        PROVE  Cardinality(upTo[k]) /= Cardinality(upTo[l])
    <3>1. upTo[k] /= upTo[l]
      BY <1>1, <2>1 DEF IsOrder
    <3>2. upTo[k] \in SUBSET upTo[l] /\ IsFiniteSet(upTo[l])
      BY <1>4, <2>1
    <3>3. QED
      BY <3>1, <3>2, FS_Subset
  <2>2. QED
    BY <1>1, <2>1 DEF IsOrder
<1>6. p \in Injection(P, 1 .. n)
  BY <1>3, <1>4, <1>5 DEF Injection, IsInjective
<1>7. IsFiniteSet(1 .. n) /\ Cardinality(1 .. n) = n
  BY <1>2, FS_Interval
<1>8. p \in Surjection(P, 1 .. n)
  BY <1>1, <1>6, <1>7, FS_Injection
<1>9. PICK q : q = [r \in 1 .. n |-> CHOOSE k \in P : Cardinality(upTo[k]) = r]
  OBVIOUS
<1>10. \A r \in 1 .. n : q[r] \in P /\ Cardinality(upTo[q[r]]) = r
  <2> SUFFICES ASSUME NEW r \in 1 .. n PROVE q[r] \in P /\ Cardinality(upTo[q[r]]) = r
    OBVIOUS
  <2>1. \E k \in P : Cardinality(upTo[k]) = r
    BY <1>3, <1>8 DEF Surjection
  <2>2. q[r] = CHOOSE k \in P : Cardinality(upTo[k]) = r
    BY <1>9
  <2>3. QED
    BY <2>1, <2>2
<1>11. \A k \in P : \E r \in 1 .. n : q[r] = k
  <2> SUFFICES ASSUME NEW k \in P PROVE \E r \in 1 .. n : q[r] = k
    OBVIOUS
  <2>1. PICK r \in 1 .. n : r = Cardinality(upTo[k])
    BY <1>4
  <2>2. q[r] = k
    BY <1>5, <1>10, <2>1
  <2>3. QED
    BY <2>2
<1>12. q \in Bijection(1 .. n, P)
  <2>1. \A r, s \in 1 .. n : q[r] = q[s] => r = s
    BY <1>10
  <2>2. q \in [1 .. n -> P]
    BY <1>9, <1>10
  <2>3. QED
    BY <1>11, <2>1, <2>2 DEF Bijection, Injection, Surjection, IsInjective
<1>13. QED
  BY <1>1, <1>2, <1>9, <1>12 DEF Orders

\* Segments in order are the same segments.
LEMMA ListedFacts ==
  ASSUME NEW segments, NEW upTo, IsOrder(upTo), NEW S, \A k \in DOMAIN upTo : segments[k] \in S
  PROVE  /\ Listed(segments, upTo) \in Seq(S)
         /\ Len(Listed(segments, upTo)) = Cardinality(DOMAIN upTo)
         /\ \E q : Orders(q, upTo) /\ \A r \in DOMAIN Listed(segments, upTo) :
                     Listed(segments, upTo)[r] = segments[q[r]]
<1>1. PICK q : Orders(q, upTo)
  BY PlacesExist
<1>2. PICK n \in Nat : n = Cardinality(DOMAIN upTo)
  BY <1>1 DEF Orders
<1>3. /\ Listed(segments, upTo) = [r \in 1 .. n |-> segments[q[r]]]
      /\ \A r \in 1 .. n : q[r] \in DOMAIN upTo
  <2>1. q \in [1 .. n -> DOMAIN upTo]
    BY <1>1, <1>2 DEF Orders, Bijection, Injection
  <2>2. \A r \in 1 .. n : q[r] = CHOOSE k \in DOMAIN upTo : Cardinality(upTo[k]) = r
    BY <1>1, <1>2 DEF Orders
  <2>3. \A r \in 1 .. n :
          segments[q[r]] = segments[CHOOSE k \in DOMAIN upTo : Cardinality(upTo[k]) = r]
    BY <2>2
  <2>4. Listed(segments, upTo) = [r \in 1 .. n |-> segments[q[r]]]
    BY <1>2, <2>3, Zenon DEF Listed
  <2>5. QED
    BY <2>1, <2>4
<1>4. Listed(segments, upTo) \in Seq(S)
  BY <1>2, <1>3
<1>5. Len(Listed(segments, upTo)) = n /\ DOMAIN Listed(segments, upTo) = 1 .. n
  BY <1>2, <1>3, <1>4
<1>6. QED
  BY <1>1, <1>2, <1>3, <1>4, <1>5

----------------------------------------------------------------------------
\* Segments and the pages in them.  Only pages with a title get there.
IsSegment(s) ==
  IsFiniteSet(DOMAIN s) /\ \A p \in DOMAIN s : s[p] \in Nat \ {0} /\ p.body \in Titled
SegmentsOn(f) == IsFiniteSet(DOMAIN f) /\ \A k \in DOMAIN f : IsSegment(f[k])
AreSegments(segments) == \E S : segments \in Seq(S) /\ \A s \in S : IsSegment(s)
CountsOf(page, f) == [k \in DOMAIN f |-> Copies(page, f[k])]

LEMMA CopiesAreCounted ==
  ASSUME NEW page
  PROVE  /\ \A s : IsSegment(s) => Copies(page, s) \in Nat /\ IsCount(s) /\ NumDocs(s) \in Nat
         /\ \A f : SegmentsOn(f) => IsCount(CountsOf(page, f)) /\ CopiesAmong(page, f) \in Nat
         /\ \A f : CopiesAmong(page, f) = Total(CountsOf(page, f))
<1>1. ASSUME NEW s, IsSegment(s) PROVE Copies(page, s) \in Nat /\ IsCount(s)
  BY <1>1 DEF Copies, IsSegment, IsCount
<1>2. ASSUME NEW f, SegmentsOn(f) PROVE IsCount(CountsOf(page, f))
  BY <1>1, <1>2 DEF SegmentsOn, CountsOf, IsCount
<1>3. ASSUME NEW f PROVE CopiesAmong(page, f) = Total(CountsOf(page, f))
  BY DEF CopiesAmong, CountsOf
<1>4. QED
  BY <1>1, <1>2, <1>3, PointsAreFinite DEF NumDocs

LEMMA SegmentsAre ==
  ASSUME NEW segments, AreSegments(segments)
  PROVE  /\ Len(segments) \in Nat /\ DOMAIN segments = 1 .. Len(segments)
         /\ SegmentsOn(segments)
<1>1. PICK S : segments \in Seq(S) /\ \A s \in S : IsSegment(s)
  BY DEF AreSegments
<1>2. Len(segments) \in Nat /\ DOMAIN segments = 1 .. Len(segments)
  BY <1>1
<1>3. \A k \in DOMAIN segments : IsSegment(segments[k])
  BY <1>1, <1>2, ElementOfSeq
<1>4. QED
  BY <1>2, <1>3, FS_Interval DEF SegmentsOn

LEMMA NoSegments ==
  /\ AreSegments(<<>>)
  /\ \A page : CopiesAmong(page, <<>>) = 0
<1>1. <<>> \in Seq({})
  OBVIOUS
<1>2. AreSegments(<<>>)
  <2>1. PICK S : S = {}
    OBVIOUS
  <2>2. <<>> \in Seq(S) /\ \A s \in S : IsSegment(s)
    BY <1>1, <2>1
  <2>3. QED
    BY <2>2, Zenon DEF AreSegments
<1>3. ASSUME NEW page PROVE CopiesAmong(page, <<>>) = 0
  <2>1. DOMAIN CountsOf(page, <<>>) = {}
    BY DEF CountsOf
  <2>2. QED
    BY <2>1, TotalOfNone, CopiesAreCounted
<1>4. QED
  BY <1>2, <1>3

\* All pages of some segments.
LEMMA PagesInFacts ==
  ASSUME NEW f, SegmentsOn(f)
  PROVE  /\ IsSegment(PagesIn(f))
         /\ \A page : Copies(page, PagesIn(f)) = CopiesAmong(page, f)
         /\ DOMAIN PagesIn(f) = UNION {DOMAIN f[k] : k \in DOMAIN f}
<1>1. PICK D : D = UNION {DOMAIN f[k] : k \in DOMAIN f}
  OBVIOUS
<1>2. IsFiniteSet(D)
  <2>1. PICK g : g = [k \in DOMAIN f |-> DOMAIN f[k]]
    OBVIOUS
  <2>2. PICK T : T = {DOMAIN f[k] : k \in DOMAIN f}
    OBVIOUS
  <2>3. g \in Surjection(DOMAIN f, T)
    BY <2>1, <2>2 DEF Surjection
  <2>4. IsFiniteSet(T)
    BY <2>3, FS_Surjection DEF SegmentsOn
  <2>5. \A C \in T : IsFiniteSet(C)
    BY <2>2 DEF SegmentsOn, IsSegment
  <2>6. QED
    BY <1>1, <2>2, <2>4, <2>5, FS_UNION
<1>3. /\ DOMAIN PagesIn(f) = D
      /\ \A page \in D : PagesIn(f)[page] = CopiesAmong(page, f)
  BY <1>1 DEF PagesIn
<1>4. ASSUME NEW page \in D
      PROVE  CopiesAmong(page, f) \in Nat \ {0} /\ page.body \in Titled
  <2>1. PICK k \in DOMAIN f : page \in DOMAIN f[k]
    BY <1>1
  <2>2. IsCount(CountsOf(page, f)) /\ CopiesAmong(page, f) = Total(CountsOf(page, f))
    BY CopiesAreCounted
  <2>3. k \in DOMAIN CountsOf(page, f) /\ CountsOf(page, f)[k] \in Nat \ {0}
    BY <2>1 DEF CountsOf, SegmentsOn, IsSegment, Copies
  <2>4. PICK a \in Nat, b \in Nat \ {0} : Total(CountsOf(page, f)) = a + b
    BY <2>2, <2>3, TotalSplits
  <2>5. QED
    BY <2>1, <2>2, <2>4 DEF SegmentsOn, IsSegment
<1>5. ASSUME NEW page, page \notin D PROVE CopiesAmong(page, f) = 0
  <2>1. \A k \in DOMAIN f : Copies(page, f[k]) = 0
    BY <1>1, <1>5 DEF Copies
  <2>2. \A k \in DOMAIN CountsOf(page, f) : CountsOf(page, f)[k] = 0
    BY <2>1 DEF CountsOf
  <2>3. QED
    BY <2>2, TotalOfNone, CopiesAreCounted
<1>6. \A page : Copies(page, PagesIn(f)) = CopiesAmong(page, f)
  BY <1>3, <1>5 DEF Copies
<1>7. IsSegment(PagesIn(f))
  BY <1>2, <1>3, <1>4 DEF IsSegment
<1>8. QED
  BY <1>1, <1>3, <1>6, <1>7

\* A bag more.
LEMMA BagsAdd ==
  ASSUME NEW a, NEW b, IsSegment(a), IsSegment(b)
  PROVE  /\ IsSegment(a (+) b)
         /\ \A page : Copies(page, a (+) b) = Copies(page, a) + Copies(page, b)
<1>1. DOMAIN (a (+) b) = DOMAIN a \cup DOMAIN b
  BY DEF (+)
<1>2. \A p \in DOMAIN a \cup DOMAIN b : (a (+) b)[p] = Copies(p, a) + Copies(p, b)
  BY DEF (+), Copies
<1>3. \A p : Copies(p, a) \in Nat /\ Copies(p, b) \in Nat
  BY CopiesAreCounted
<1>4. ASSUME NEW p \in DOMAIN a \cup DOMAIN b PROVE (a (+) b)[p] \in Nat \ {0} /\ p.body \in Titled
  <2>1. Copies(p, a) /= 0 \/ Copies(p, b) /= 0
    BY DEF Copies, IsSegment
  <2>2. QED
    BY <1>2, <1>3, <2>1 DEF IsSegment
<1>5. IsFiniteSet(DOMAIN a \cup DOMAIN b)
  BY FS_Union DEF IsSegment
<1>6. ASSUME NEW p PROVE Copies(p, a (+) b) = Copies(p, a) + Copies(p, b)
  <2>1. CASE p \in DOMAIN a \cup DOMAIN b
    BY <1>1, <1>2, <2>1 DEF Copies
  <2>2. CASE p \notin DOMAIN a \cup DOMAIN b
    BY <1>1, <2>2 DEF Copies
  <2>3. QED
    BY <2>1, <2>2
<1>7. QED
  BY <1>1, <1>4, <1>5, <1>6 DEF IsSegment

LEMMA SmallBags ==
  /\ IsSegment(EmptyBag)
  /\ \A page : Copies(page, EmptyBag) = 0
  /\ \A page : page.body \in Titled => IsSegment(SetToBag({page}))
  /\ \A page, p : Copies(p, SetToBag({page})) = IF p = page THEN 1 ELSE 0
<1>1. DOMAIN EmptyBag = {}
  BY DEF EmptyBag, SetToBag
<1>2. \A page : DOMAIN SetToBag({page}) = {page} /\ SetToBag({page})[page] = 1
  BY DEF SetToBag
<1>3. IsSegment(EmptyBag) /\ \A page : Copies(page, EmptyBag) = 0
  BY <1>1, FS_EmptySet DEF IsSegment, Copies
<1>4. ASSUME NEW page, page.body \in Titled PROVE IsSegment(SetToBag({page}))
  <2>1. PICK b : b = SetToBag({page})
    OBVIOUS
  <2>2. DOMAIN b = {page} /\ b[page] = 1 /\ IsFiniteSet(DOMAIN b)
    BY <1>2, <2>1, FS_Singleton
  <2>3. QED
    BY <1>4, <2>1, <2>2 DEF IsSegment
<1>5. \A page, p : Copies(p, SetToBag({page})) = IF p = page THEN 1 ELSE 0
  BY <1>2, ZenonT(40) DEF Copies
<1>6. QED
  BY <1>3, <1>4, <1>5

\* A segment more, in all and per page.
LEMMA SegmentAdded ==
  ASSUME NEW segments, AreSegments(segments), NEW s, IsSegment(s)
  PROVE  /\ AreSegments(AddSegment(segments, s))
         /\ \A page : CopiesAmong(page, AddSegment(segments, s))
                        = CopiesAmong(page, segments) + Copies(page, s)
<1>1. CASE s = EmptyBag
  <2>1. \A page : CopiesAmong(page, segments) \in Nat
    BY CopiesAreCounted, SegmentsAre
  <2>2. QED
    BY <1>1, <2>1, SmallBags DEF AddSegment
<1>2. CASE s /= EmptyBag
  <2>1. PICK S : segments \in Seq(S) /\ \A x \in S : IsSegment(x)
    BY DEF AreSegments
  <2>2. PICK more, T : more = Append(segments, s) /\ T = S \cup {s}
    OBVIOUS
  <2>3. AddSegment(segments, s) = more
    BY <1>2, <2>2 DEF AddSegment
  <2>4. PICK n \in Nat : n = Len(segments)
    BY <2>1
  <2>5. /\ more \in Seq(T) /\ DOMAIN segments = 1 .. n
        /\ DOMAIN more = 1 .. n + 1 /\ more[n + 1] = s
        /\ \A k \in 1 .. n : more[k] = segments[k]
    <3>1. segments \in Seq(T) /\ s \in T
      BY <2>1, <2>2
    <3>2. more \in Seq(T) /\ Len(more) = n + 1 /\ more[n + 1] = s
          /\ \A k \in 1 .. n : more[k] = segments[k]
      BY <2>2, <2>4, <3>1, AppendProperties
    <3>3. QED
      BY <2>1, <2>4, <3>2
  <2>6. AreSegments(more)
    BY <2>1, <2>2, <2>5 DEF AreSegments
  <2>7. ASSUME NEW page
        PROVE  CopiesAmong(page, more) = CopiesAmong(page, segments) + Copies(page, s)
    <3>1. IsCount(CountsOf(page, more)) /\ n + 1 \in DOMAIN CountsOf(page, more)
      <4>1. IsCount(CountsOf(page, more))
        BY <2>6, CopiesAreCounted, SegmentsAre
      <4>2. DOMAIN CountsOf(page, more) = DOMAIN more
        BY DEF CountsOf
      <4>3. QED
        BY <2>5, <4>1, <4>2
    <3>2. CountsOf(page, more)[n + 1] = Copies(page, s)
      BY <2>5 DEF CountsOf
    <3>3. But(CountsOf(page, more), n + 1) = CountsOf(page, segments)
      <4>1. (1 .. n + 1) \ {n + 1} = 1 .. n
        OBVIOUS
      <4>2. QED
        BY <2>5, <4>1 DEF But, CountsOf
    <3>4. Total(CountsOf(page, more)) = Total(CountsOf(page, segments)) + Copies(page, s)
      BY <3>1, <3>2, <3>3, TotalSplits
    <3>5. QED
      BY <3>4, CopiesAreCounted
  <2>8. QED
    BY <2>3, <2>6, <2>7
<1>3. QED
  BY <1>1, <1>2

----------------------------------------------------------------------------
\* Segments in another order have the same pages.
LEMMA ListedSegments ==
  ASSUME NEW f, SegmentsOn(f), NEW upTo, IsOrder(upTo), DOMAIN upTo = DOMAIN f
  PROVE  /\ AreSegments(Listed(f, upTo))
         /\ \A page : CopiesAmong(page, Listed(f, upTo)) = CopiesAmong(page, f)
<1>1. PICK S : S = {f[k] : k \in DOMAIN f}
  OBVIOUS
<1>2. \A k \in DOMAIN f : f[k] \in S
  BY <1>1
<1>3. \A s \in S : IsSegment(s)
  BY <1>1 DEF SegmentsOn
<1>4. PICK seq : seq = Listed(f, upTo)
  OBVIOUS
<1>5. /\ seq \in Seq(S) /\ Len(seq) = Cardinality(DOMAIN f)
      /\ \E q : Orders(q, upTo) /\ \A r \in DOMAIN seq : seq[r] = f[q[r]]
  BY <1>2, <1>4, ListedFacts
<1>6. AreSegments(seq)
  BY <1>3, <1>5 DEF AreSegments
<1>7. ASSUME NEW page PROVE CopiesAmong(page, seq) = CopiesAmong(page, f)
  <2>1. PICK q : Orders(q, upTo) /\ \A r \in DOMAIN seq : seq[r] = f[q[r]]
    BY <1>5
  <2>2. DOMAIN seq = 1 .. Cardinality(DOMAIN f)
    BY <1>5
  <2>3. q \in Bijection(DOMAIN seq, DOMAIN f)
    BY <2>1, <2>2 DEF Orders
  <2>4. \A r \in DOMAIN seq : q[r] \in DOMAIN f
    BY <2>3 DEF Bijection, Injection
  <2>5. PICK c, d : c = CountsOf(page, f) /\ d = CountsOf(page, seq)
    OBVIOUS
  <2>6. DOMAIN c = DOMAIN f /\ DOMAIN d = DOMAIN seq /\ \A r \in DOMAIN d : d[r] = c[q[r]]
    BY <2>1, <2>4, <2>5 DEF CountsOf
  <2>7. IsCount(c)
    BY <2>5, CopiesAreCounted
  <2>8. q \in Bijection(DOMAIN d, DOMAIN c)
    BY <2>3, <2>6
  <2>9. Total(d) = Total(c)
    BY <2>6, <2>7, <2>8, TotalPermuted
  <2>10. QED
    BY <2>5, <2>9, CopiesAreCounted
<1>8. QED
  BY <1>4, <1>6, <1>7

SizeOrder(segments) ==
  [k \in DOMAIN segments |->
     {l \in DOMAIN segments :
        \/ NumDocs(segments[l]) > NumDocs(segments[k])
        \/ NumDocs(segments[l]) = NumDocs(segments[k]) /\ l <= k}]

LEMMA SizeIsOrder ==
  ASSUME NEW segments, AreSegments(segments)
  PROVE  IsOrder(SizeOrder(segments))
<1>1. PICK n \in Nat : n = Len(segments) /\ DOMAIN segments = 1 .. n
  BY SegmentsAre
<1>2. PICK d : d = [k \in 1 .. n |-> NumDocs(segments[k])]
  OBVIOUS
<1>3. \A k \in 1 .. n : d[k] \in Nat
  BY <1>1, <1>2, SegmentsAre, CopiesAreCounted DEF SegmentsOn
<1>4. PICK u : u = SizeOrder(segments)
  OBVIOUS
<1>5. u = [k \in 1 .. n |-> {l \in 1 .. n : d[l] > d[k] \/ (d[l] = d[k] /\ l <= k)}]
  <2>1. \A k, l \in 1 .. n : d[k] = NumDocs(segments[k]) /\ d[l] = NumDocs(segments[l])
    BY <1>2
  <2>2. \A k \in 1 .. n : {l \in 1 .. n : d[l] > d[k] \/ (d[l] = d[k] /\ l <= k)}
          = {l \in 1 .. n : \/ NumDocs(segments[l]) > NumDocs(segments[k])
                            \/ NumDocs(segments[l]) = NumDocs(segments[k]) /\ l <= k}
    BY <2>1
  <2>3. QED
    BY <1>1, <1>4, <2>2 DEF SizeOrder
<1>6. DOMAIN u = 1 .. n /\ IsFiniteSet(DOMAIN u)
  BY <1>5, FS_Interval
<1>7. \A k \in 1 .. n : k \in u[k] /\ u[k] \subseteq 1 .. n
  BY <1>3, <1>5
<1>8. ASSUME NEW k \in 1 .. n, NEW l \in 1 .. n, d[k] > d[l] \/ (d[k] = d[l] /\ k < l)
      PROVE  u[k] \subseteq u[l] /\ l \notin u[k]
  BY <1>3, <1>5, <1>8
<1>9. \A k, l \in 1 .. n :
        k /= l => \/ u[k] \subseteq u[l] /\ l \notin u[k]
                  \/ u[l] \subseteq u[k] /\ k \notin u[l]
  BY <1>3, <1>8
<1>10. QED
  BY <1>4, <1>6, <1>7, <1>9 DEF IsOrder

LEMMA LargestFirstFacts ==
  ASSUME NEW segments, AreSegments(segments)
  PROVE  /\ AreSegments(LargestFirst(segments))
         /\ \A page : CopiesAmong(page, LargestFirst(segments)) = CopiesAmong(page, segments)
<1>1. LargestFirst(segments) = Listed(segments, SizeOrder(segments))
  BY DEF LargestFirst, SizeOrder
<1>2. DOMAIN SizeOrder(segments) = DOMAIN segments
  BY DEF SizeOrder
<1>3. QED
  BY <1>1, <1>2, SizeIsOrder, SegmentsAre, ListedSegments

\* What two directories have together.
LEMMA SegmentsJoined ==
  ASSUME NEW a, NEW b, AreSegments(a), AreSegments(b)
  PROVE  /\ AreSegments(a \o b)
         /\ \A page : CopiesAmong(page, a \o b) = CopiesAmong(page, a) + CopiesAmong(page, b)
<1>1. PICK A, B : /\ a \in Seq(A) /\ \A s \in A : IsSegment(s)
                  /\ b \in Seq(B) /\ \A s \in B : IsSegment(s)
  BY DEF AreSegments
<1>2. PICK S, ab : S = A \cup B /\ ab = a \o b
  OBVIOUS
<1>3. PICK m \in Nat, n \in Nat : m = Len(a) /\ n = Len(b)
  BY <1>1
<1>4. /\ ab \in Seq(S) /\ DOMAIN a = 1 .. m /\ DOMAIN b = 1 .. n /\ DOMAIN ab = 1 .. m + n
      /\ \A k \in 1 .. m : ab[k] = a[k]
      /\ \A k \in 1 .. n : ab[m + k] = b[k]
  <2>1. a \in Seq(S) /\ b \in Seq(S)
    BY <1>1, <1>2
  <2>2. ab \in Seq(S) /\ Len(ab) = m + n
        /\ \A k \in 1 .. m + n : ab[k] = IF k <= m THEN a[k] ELSE b[k - m]
    BY <1>2, <1>3, <2>1, ConcatProperties
  <2>3. \A k \in 1 .. n : m + k \in 1 .. m + n /\ ~(m + k <= m) /\ (m + k) - m = k
    OBVIOUS
  <2>4. \A k \in 1 .. m : k \in 1 .. m + n
    OBVIOUS
  <2>5. DOMAIN a = 1 .. m /\ DOMAIN b = 1 .. n /\ DOMAIN ab = 1 .. m + n
    BY <1>3, <2>1, <2>2
  <2>6. \A k \in 1 .. m : ab[k] = a[k]
    BY <2>2, <2>4
  <2>7. \A k \in 1 .. n : ab[m + k] = b[k]
    <3> SUFFICES ASSUME NEW k \in 1 .. n PROVE ab[m + k] = b[k]
      OBVIOUS
    <3>1. ab[m + k] = b[(m + k) - m]
      BY <2>2, <2>3
    <3>2. QED
      BY <2>3, <3>1
  <2>8. QED
    BY <2>2, <2>5, <2>6, <2>7
<1>5. AreSegments(ab)
  BY <1>1, <1>2, <1>4 DEF AreSegments
<1>6. ASSUME NEW page
      PROVE  CopiesAmong(page, ab) = CopiesAmong(page, a) + CopiesAmong(page, b)
  <2>1. PICK c, x, y : c = CountsOf(page, ab) /\ x = CountsOf(page, a) /\ y = CountsOf(page, b)
    OBVIOUS
  <2>2. IsCount(c) /\ IsCount(x) /\ IsCount(y)
    BY <1>5, <2>1, CopiesAreCounted, SegmentsAre
  <2>3. /\ DOMAIN c = 1 .. m + n /\ DOMAIN x = 1 .. m /\ DOMAIN y = 1 .. n
        /\ \A k \in 1 .. m : c[k] = x[k]
        /\ \A k \in 1 .. n : c[m + k] = y[k]
    <3>1. \A k \in 1 .. m : k \in 1 .. m + n
      OBVIOUS
    <3>2. \A k \in 1 .. n : m + k \in 1 .. m + n
      OBVIOUS
    <3>3. QED
      BY <1>4, <2>1, <3>1, <3>2 DEF CountsOf
  <2>4. PICK t : t = [i \in 1 .. m + n |-> IF i <= m THEN 1 ELSE 2]
    OBVIOUS
  <2>5. PICK g : g = Grouped(c, t, {1, 2})
    OBVIOUS
  <2>6. IsCount(g) /\ Total(g) = Total(c)
    <3>1. GroupsIn(c, t, {1, 2})
      BY <2>3, <2>4 DEF GroupsIn
    <3>2. IsFiniteSet({1, 2})
      <4>1. IsFiniteSet({1}) /\ IsFiniteSet({1} \cup {2})
        BY FS_Singleton, FS_AddElement
      <4>2. {1, 2} = {1} \cup {2}
        OBVIOUS
      <4>3. QED
        BY <4>1, <4>2
    <3>3. GroupsAdd(c, t, {1, 2})
      BY <2>2, <3>1, <3>2, TotalOfGroups
    <3>4. QED
      BY <2>5, <3>3 DEF GroupsAdd
  <2>7. Total(Group(c, t, 1)) = Total(x)
    <3>1. {j \in DOMAIN c : t[j] = 1} = 1 .. m
      BY <2>3, <2>4
    <3>2. DOMAIN Group(c, t, 1) = 1 .. m /\ \A k \in 1 .. m : Group(c, t, 1)[k] = x[k]
      BY <2>3, <3>1 DEF Group
    <3>3. QED
      BY <2>3, <3>2, TotalSame
  <2>8. Total(Group(c, t, 2)) = Total(y)
    <3>1. PICK h : h = Group(c, t, 2)
      OBVIOUS
    <3>2. {j \in DOMAIN c : t[j] = 2} = {j \in 1 .. m + n : j > m}
      BY <2>3, <2>4
    <3>3. DOMAIN h = {j \in 1 .. m + n : j > m} /\ \A j \in DOMAIN h : h[j] = c[j]
      BY <3>1, <3>2 DEF Group
    <3>4. PICK p : p = [k \in 1 .. n |-> m + k]
      OBVIOUS
    <3>5. p \in Bijection(DOMAIN y, DOMAIN h)
      <4>1. p \in [1 .. n -> DOMAIN h] /\ \A k, l \in 1 .. n : p[k] = p[l] => k = l
        BY <3>3, <3>4
      <4>2. ASSUME NEW j \in DOMAIN h PROVE \E k \in 1 .. n : p[k] = j
        <5>1. j - m \in 1 .. n /\ m + (j - m) = j
          BY <3>3
        <5>2. QED
          BY <3>4, <5>1
      <4>3. QED
        BY <2>3, <4>1, <4>2 DEF Bijection, Injection, Surjection, IsInjective
    <3>6. \A k \in DOMAIN y : y[k] = h[p[k]]
      <4> SUFFICES ASSUME NEW k \in DOMAIN y PROVE y[k] = h[p[k]]
        OBVIOUS
      <4>1. k \in 1 .. n /\ p[k] = m + k /\ m + k \in DOMAIN h
        BY <2>3, <3>3, <3>4
      <4>2. QED
        BY <2>3, <3>3, <4>1
    <3>7. IsCount(h)
      BY <2>2, <3>1, GroupsAreCounts
    <3>8. Total(y) = Total(h)
      BY <3>5, <3>6, <3>7, TotalPermuted
    <3>9. QED
      BY <3>1, <3>8
  <2>9. Total(g) = Total(x) + Total(y)
    <3>1. DOMAIN g = {1, 2} /\ g[1] = Total(x) /\ g[2] = Total(y)
      BY <2>5, <2>7, <2>8 DEF Grouped
    <3>2. PICK e : e = But(g, 1)
      OBVIOUS
    <3>3. IsCount(e) /\ Total(g) = Total(e) + g[1]
      BY <2>6, <3>1, <3>2, TotalSplits
    <3>4. DOMAIN e = {2} /\ e[2] = g[2]
      BY <3>1, <3>2 DEF But
    <3>5. Total(e) = Total(But(e, 2)) + e[2]
      BY <3>3, <3>4, TotalSplits
    <3>6. DOMAIN But(e, 2) = {}
      BY <3>4 DEF But
    <3>7. Total(But(e, 2)) = 0
      BY <3>6, TotalOfNone
    <3>8. Total(x) \in Nat /\ Total(y) \in Nat
      BY <2>2, PointsAreFinite
    <3>9. QED
      BY <3>1, <3>3, <3>4, <3>5, <3>7, <3>8
  <2>10. QED
    BY <2>1, <2>6, <2>9, CopiesAreCounted
<1>7. QED
  BY <1>2, <1>5, <1>6

LEMMA MergedSegmentsFacts ==
  ASSUME NEW a, NEW b, AreSegments(a), AreSegments(b)
  PROVE  /\ AreSegments(MergedSegments(a, b))
         /\ \A page : CopiesAmong(page, MergedSegments(a, b))
                        = CopiesAmong(page, a) + CopiesAmong(page, b)
<1>1. PICK ab : ab = a \o b
  OBVIOUS
<1>2. /\ AreSegments(ab)
      /\ \A page : CopiesAmong(page, ab) = CopiesAmong(page, a) + CopiesAmong(page, b)
  BY <1>1, SegmentsJoined
<1>3. /\ AreSegments(LargestFirst(ab))
      /\ \A page : CopiesAmong(page, LargestFirst(ab)) = CopiesAmong(page, ab)
  BY <1>2, LargestFirstFacts
<1>4. QED
  BY <1>1, <1>2, <1>3 DEF MergedSegments

----------------------------------------------------------------------------
\* Each segment can be given to the first of the smallest merges.
FairUpTo(segments, t, n) ==
  \A i \in 1 .. n : \A k \in 1 .. FinalSegments :
    \/ Given(segments, t, i, t[i]) < Given(segments, t, i, k)
    \/ Given(segments, t, i, t[i]) = Given(segments, t, i, k) /\ t[i] <= k
Turns(n) == [1 .. n -> 1 .. FinalSegments]

LEMMA GivenIsANumber ==
  ASSUME NEW segments, AreSegments(segments), NEW t, NEW i \in Nat, i <= Len(segments) + 1, NEW k
  PROVE  Given(segments, t, i, k) \in Nat
<1>1. PICK n \in Nat : n = Len(segments) /\ DOMAIN segments = 1 .. n
  BY SegmentsAre
<1>2. PICK T : T = {m \in 1 .. i - 1 : t[m] = k}
  OBVIOUS
<1>3. T \subseteq 1 .. n /\ IsFiniteSet(T)
  <2>1. T \in SUBSET (1 .. n)
    BY <1>1, <1>2
  <2>2. IsFiniteSet(1 .. n)
    BY FS_Interval
  <2>3. QED
    BY <2>1, <2>2, FS_Subset
<1>4. PICK c : c = [l \in T |-> NumDocs(segments[l])]
  OBVIOUS
<1>5. IsCount(c)
  <2>1. \A l \in 1 .. n : NumDocs(segments[l]) \in Nat
    BY <1>1, SegmentsAre, CopiesAreCounted DEF SegmentsOn
  <2>2. QED
    BY <1>3, <1>4, <2>1 DEF IsCount
<1>6. Given(segments, t, i, k) = Total(c)
  BY <1>2, <1>4 DEF Given
<1>7. QED
  BY <1>5, <1>6, PointsAreFinite

\* What was given depends on the turns before only.
LEMMA GivenBefore ==
  ASSUME NEW segments, NEW t, NEW u, NEW i \in Nat, NEW k, \A m \in 1 .. i - 1 : u[m] = t[m]
  PROVE  Given(segments, u, i, k) = Given(segments, t, i, k)
<1>1. {m \in 1 .. i - 1 : u[m] = k} = {m \in 1 .. i - 1 : t[m] = k}
  OBVIOUS
<1>2. QED
  BY <1>1 DEF Given

\* One of some numbers is the first of the smallest.
LEMMA FirstSmallest ==
  ASSUME NEW N \in Nat \ {0}, NEW g, \A k \in 1 .. N : g[k] \in Nat
  PROVE  \E k \in 1 .. N : \A l \in 1 .. N : g[k] < g[l] \/ (g[k] = g[l] /\ k <= l)
<1>1. PICK V : V = {g[k] : k \in 1 .. N}
  OBVIOUS
<1>2. V \subseteq Nat /\ V /= {}
  <2>1. 1 \in 1 .. N
    OBVIOUS
  <2>2. QED
    BY <1>1, <2>1
<1>3. PICK v \in V : \A w \in V : v <= w
  BY <1>2, LeastNumber
<1>4. PICK W : W = {k \in 1 .. N : g[k] = v}
  OBVIOUS
<1>5. W \subseteq Nat /\ W /= {}
  BY <1>1, <1>3, <1>4
<1>6. PICK k \in W : \A l \in W : k <= l
  BY <1>5, LeastNumber
<1>7. k \in 1 .. N /\ g[k] = v
  BY <1>4, <1>6
<1>8. ASSUME NEW l \in 1 .. N PROVE g[k] < g[l] \/ (g[k] = g[l] /\ k <= l)
  <2>1. v <= g[l] /\ g[l] \in Nat /\ v \in Nat
    BY <1>1, <1>2, <1>3
  <2>2. g[l] = v => k <= l
    BY <1>4, <1>6
  <2>3. QED
    BY <1>7, <2>1, <2>2
<1>9. QED
  BY <1>7, <1>8

LEMMA TurnsExist ==
  ASSUME NEW segments, AreSegments(segments)
  PROVE  \E t \in [DOMAIN segments -> 1 .. FinalSegments] : GoesToSmallest(segments, t)
<1>1. PICK n \in Nat : n = Len(segments) /\ DOMAIN segments = 1 .. n
  BY SegmentsAre
<1> DEFINE S == {m \in Nat : m <= n => \E t \in Turns(m) : FairUpTo(segments, t, m)}
<1>2. 0 \in S
  <2>1. PICK t : t = [i \in 1 .. 0 |-> 1]
    OBVIOUS
  <2>2. 1 .. 0 = {}
    OBVIOUS
  <2>3. t \in Turns(0) /\ FairUpTo(segments, t, 0)
    BY <2>1, <2>2 DEF Turns, FairUpTo
  <2>4. QED
    BY <2>3
<1>3. ASSUME NEW m \in Nat, m \in S PROVE m + 1 \in S
  <2> SUFFICES ASSUME m + 1 <= n
               PROVE  \E u \in Turns(m + 1) : FairUpTo(segments, u, m + 1)
    OBVIOUS
  <2>1. PICK t \in Turns(m) : FairUpTo(segments, t, m)
    BY <1>3
  <2>2. PICK g : g = [k \in 1 .. FinalSegments |-> Given(segments, t, m + 1, k)]
    OBVIOUS
  <2>3. \A k \in 1 .. FinalSegments : g[k] \in Nat
    BY <1>1, <2>2, GivenIsANumber
  <2>4. PICK k \in 1 .. FinalSegments :
          \A l \in 1 .. FinalSegments : g[k] < g[l] \/ (g[k] = g[l] /\ k <= l)
    BY <2>3, FirstSmallest, IndexDataAssumption
  <2>5. PICK u : u = [i \in 1 .. m + 1 |-> IF i = m + 1 THEN k ELSE t[i]]
    OBVIOUS
  <2>6. /\ u \in Turns(m + 1) /\ u[m + 1] = k
        /\ \A i \in 1 .. m : u[i] = t[i]
    <3>1. \A i \in 1 .. m + 1 : i = m + 1 \/ i \in 1 .. m
      OBVIOUS
    <3>2. \A i \in 1 .. m : t[i] \in 1 .. FinalSegments /\ i \in 1 .. m + 1 /\ i /= m + 1
      BY DEF Turns
    <3>3. m + 1 \in 1 .. m + 1
      OBVIOUS
    <3>4. QED
      BY <2>5, <3>1, <3>2, <3>3 DEF Turns
  <2>7. \A i \in 1 .. m + 1 : \A l : Given(segments, u, i, l) = Given(segments, t, i, l)
    <3> SUFFICES ASSUME NEW i \in 1 .. m + 1, NEW l
                 PROVE  Given(segments, u, i, l) = Given(segments, t, i, l)
      OBVIOUS
    <3>1. \A j \in 1 .. i - 1 : u[j] = t[j]
      BY <2>6
    <3>2. QED
      BY <3>1, GivenBefore
  <2>8. FairUpTo(segments, u, m + 1)
    <3> SUFFICES ASSUME NEW i \in 1 .. m + 1, NEW l \in 1 .. FinalSegments
                 PROVE  \/ Given(segments, u, i, u[i]) < Given(segments, u, i, l)
                        \/ Given(segments, u, i, u[i]) = Given(segments, u, i, l) /\ u[i] <= l
      BY DEF FairUpTo
    <3>1. CASE i = m + 1
      <4>1. Given(segments, u, i, u[i]) = g[k] /\ Given(segments, u, i, l) = g[l] /\ u[i] = k
        BY <2>2, <2>6, <2>7, <3>1
      <4>2. QED
        BY <2>4, <4>1
    <3>2. CASE i \in 1 .. m
      BY <2>1, <2>6, <2>7, <3>2 DEF FairUpTo
    <3>3. QED
      BY <3>1, <3>2
  <2>9. QED
    BY <2>6, <2>8
<1> HIDE DEF S
<1>4. n \in S
  BY <1>2, <1>3, SetInduction
<1>5. PICK t \in Turns(n) : FairUpTo(segments, t, n)
  BY <1>4 DEF S
<1>6. QED
  BY <1>1, <1>5 DEF Turns, FairUpTo, GoesToSmallest

\* The merge of all segments into a few.
FairTurn(sorted) ==
  CHOOSE t \in [DOMAIN sorted -> 1 .. FinalSegments] : GoesToSmallest(sorted, t)
Part(sorted, turn, k) == [i \in {j \in DOMAIN sorted : turn[j] = k} |-> sorted[i]]
UsedTurns(sorted, turn) == {k \in 1 .. FinalSegments : {j \in DOMAIN sorted : turn[j] = k} /= {}}
Parts(sorted, turn) == [k \in UsedTurns(sorted, turn) |-> PagesIn(Part(sorted, turn, k))]
NumberOrder(P) == [k \in P |-> {l \in P : l <= k}]

LEMMA NumbersAreOrder ==
  ASSUME NEW P, IsFiniteSet(P), P \subseteq Nat
  PROVE  IsOrder(NumberOrder(P)) /\ DOMAIN NumberOrder(P) = P
<1>1. PICK u : u = NumberOrder(P)
  OBVIOUS
<1>2. u = [k \in P |-> {l \in P : l <= k}]
  BY <1>1 DEF NumberOrder
<1>3. \A k \in P : k \in u[k] /\ u[k] \subseteq P
  BY <1>2
<1>4. ASSUME NEW k \in P, NEW l \in P, k < l PROVE u[k] \subseteq u[l] /\ l \notin u[k]
  <2>1. k \in Nat /\ l \in Nat /\ ~(l <= k)
    BY <1>4
  <2>2. \A i \in P : i <= k => i <= l
    BY <1>4, <2>1
  <2>3. QED
    BY <1>2, <2>1, <2>2
<1>5. \A k, l \in P : k /= l => k < l \/ l < k
  OBVIOUS
<1>6. QED
  BY <1>1, <1>2, <1>3, <1>4, <1>5 DEF IsOrder

LEMMA PartsKeepPages ==
  ASSUME NEW sorted, AreSegments(sorted), NEW turn \in [DOMAIN sorted -> 1 .. FinalSegments]
  PROVE  /\ SegmentsOn(Parts(sorted, turn))
         /\ \A page : CopiesAmong(page, Parts(sorted, turn)) = CopiesAmong(page, sorted)
<1>1. SegmentsOn(sorted)
  BY SegmentsAre
<1>2. PICK K : K = 1 .. FinalSegments
  OBVIOUS
<1>3. IsFiniteSet(K)
  BY <1>2, FS_Interval, IndexDataAssumption
<1>4. PICK used : used = UsedTurns(sorted, turn)
  OBVIOUS
<1>5. used \subseteq K /\ IsFiniteSet(used)
  <2>1. used \in SUBSET K
    BY <1>2, <1>4 DEF UsedTurns
  <2>2. QED
    BY <1>3, <2>1, FS_Subset
<1>6. \A k : SegmentsOn(Part(sorted, turn, k))
  <2> SUFFICES ASSUME NEW k PROVE SegmentsOn(Part(sorted, turn, k))
    OBVIOUS
  <2>1. {j \in DOMAIN sorted : turn[j] = k} \in SUBSET DOMAIN sorted
    OBVIOUS
  <2>2. IsFiniteSet({j \in DOMAIN sorted : turn[j] = k})
    BY <1>1, <2>1, FS_Subset DEF SegmentsOn
  <2>3. QED
    BY <1>1, <2>2 DEF Part, SegmentsOn
<1>7. PICK merged : merged = Parts(sorted, turn)
  OBVIOUS
<1>8. DOMAIN merged = used /\ \A k \in used : merged[k] = PagesIn(Part(sorted, turn, k))
  BY <1>4, <1>7 DEF Parts
<1>9. SegmentsOn(merged)
  BY <1>5, <1>6, <1>8, PagesInFacts DEF SegmentsOn
<1>10. ASSUME NEW page PROVE CopiesAmong(page, merged) = CopiesAmong(page, sorted)
  <2>1. PICK c, d, g : /\ c = CountsOf(page, sorted) /\ d = CountsOf(page, merged)
                       /\ g = Grouped(c, turn, K)
    OBVIOUS
  <2>2. IsCount(c) /\ DOMAIN c = DOMAIN sorted
    <3>1. IsCount(c)
      BY <1>1, <2>1, CopiesAreCounted
    <3>2. QED
      BY <2>1, <3>1 DEF CountsOf
  <2>3. Total(g) = Total(c)
    <3>1. GroupsIn(c, turn, K)
      BY <1>2, <2>2 DEF GroupsIn
    <3>2. GroupsAdd(c, turn, K)
      BY <1>3, <2>2, <3>1, TotalOfGroups
    <3>3. QED
      BY <2>1, <3>2 DEF GroupsAdd
  <2>4. \A k : Group(c, turn, k) = CountsOf(page, Part(sorted, turn, k))
    <3> SUFFICES ASSUME NEW k PROVE Group(c, turn, k) = CountsOf(page, Part(sorted, turn, k))
      OBVIOUS
    <3>1. PICK T : T = {j \in DOMAIN sorted : turn[j] = k}
      OBVIOUS
    <3>2. Part(sorted, turn, k) = [i \in T |-> sorted[i]]
      BY <3>1 DEF Part
    <3>3. CountsOf(page, Part(sorted, turn, k)) = [i \in T |-> Copies(page, sorted[i])]
      BY <3>2 DEF CountsOf
    <3>4. \A i \in T : c[i] = Copies(page, sorted[i])
      BY <2>1, <3>1 DEF CountsOf
    <3>5. Group(c, turn, k) = [i \in T |-> c[i]]
      BY <2>2, <3>1 DEF Group
    <3>6. QED
      BY <3>3, <3>4, <3>5
  <2>5. DOMAIN g = K /\ \A k \in K : g[k] = CopiesAmong(page, Part(sorted, turn, k))
    BY <2>1, <2>4, CopiesAreCounted DEF Grouped
  <2>6. DOMAIN d = used /\ \A k \in used : d[k] = CopiesAmong(page, Part(sorted, turn, k))
    <3>1. DOMAIN d = used /\ \A k \in used : d[k] = Copies(page, merged[k])
      BY <1>8, <2>1 DEF CountsOf
    <3>2. QED
      BY <1>6, <1>8, <3>1, PagesInFacts
  <2>7. \A k \in K \ used : g[k] = 0
    <3> SUFFICES ASSUME NEW k \in K \ used PROVE g[k] = 0
      OBVIOUS
    <3>1. {j \in DOMAIN sorted : turn[j] = k} = {}
      BY <1>2, <1>4 DEF UsedTurns
    <3>2. DOMAIN Group(c, turn, k) = {}
      BY <2>2, <3>1 DEF Group
    <3>3. Total(Group(c, turn, k)) = 0
      BY <3>2, TotalOfNone
    <3>4. QED
      BY <2>1, <3>3 DEF Grouped
  <2>8. Total(d) = Total(g)
    BY <1>5, <2>5, <2>6, <2>7, TotalWithoutZeros
  <2>9. QED
    BY <2>1, <2>3, <2>8, CopiesAreCounted
<1>11. QED
  BY <1>7, <1>9, <1>10

LEMMA MergeIntoSegmentsFacts ==
  ASSUME NEW segments, AreSegments(segments)
  PROVE  /\ AreSegments(MergeIntoSegments(segments))
         /\ \A page : CopiesAmong(page, MergeIntoSegments(segments)) = CopiesAmong(page, segments)
<1>1. PICK sorted : sorted = LargestFirst(segments)
  OBVIOUS
<1>2. /\ AreSegments(sorted)
      /\ \A page : CopiesAmong(page, sorted) = CopiesAmong(page, segments)
  BY <1>1, LargestFirstFacts
<1>3. PICK turn : turn = FairTurn(sorted)
  OBVIOUS
<1>4. turn \in [DOMAIN sorted -> 1 .. FinalSegments]
  BY <1>2, <1>3, TurnsExist DEF FairTurn
<1>5. PICK merged : merged = Parts(sorted, turn)
  OBVIOUS
<1>6. /\ SegmentsOn(merged)
      /\ \A page : CopiesAmong(page, merged) = CopiesAmong(page, sorted)
  BY <1>2, <1>4, <1>5, PartsKeepPages
<1>7. PICK used : used = UsedTurns(sorted, turn)
  OBVIOUS
<1>8. DOMAIN merged = used /\ used \subseteq Nat
  <2>1. used \subseteq 1 .. FinalSegments
    BY <1>7 DEF UsedTurns
  <2>2. QED
    BY <1>5, <1>7, <2>1, IndexDataAssumption DEF Parts
<1>9. IsOrder(NumberOrder(used)) /\ DOMAIN NumberOrder(used) = DOMAIN merged
  BY <1>6, <1>8, NumbersAreOrder DEF SegmentsOn
<1>10. PICK listed : listed = Listed(merged, NumberOrder(used))
  OBVIOUS
<1>11. /\ AreSegments(listed)
       /\ \A page : CopiesAmong(page, listed) = CopiesAmong(page, merged)
  BY <1>6, <1>9, <1>10, ListedSegments
<1>12. MergeIntoSegments(segments) = IF Len(segments) > 1 THEN listed ELSE segments
  <2> DEFINE first == LargestFirst(segments)
             fair == FairTurn(first)
  <2>1. MergeIntoSegments(segments)
          = IF Len(segments) > 1
              THEN Listed(Parts(first, fair), NumberOrder(UsedTurns(first, fair)))
              ELSE segments
    BY DEF MergeIntoSegments, Parts, Part, UsedTurns, NumberOrder, FairTurn
  <2>2. QED
    BY <1>1, <1>3, <1>5, <1>7, <1>10, <2>1
<1>13. QED
  BY <1>2, <1>6, <1>11, <1>12

----------------------------------------------------------------------------
\* The pages on the disk and in memory.
Fields ==
  \A j \in Jobs : "segments" \in DOMAIN disk[j] /\ {"added", "carried"} \subseteq DOMAIN job[j]

\* The other's segments are listed there until its directory is removed, then
\* they are carried along until the metadata is written.
Structure(j) ==
  /\ AreSegments(disk[j].segments) /\ IsSegment(job[j].added)
  /\ pc(j) \notin {"pages", "words committed", "panicked"} => job[j].added = EmptyBag
  /\ pc(j) = "clear" => job[j].carried = Other(j).segments
  /\ pc(j) = "meta" => AreSegments(job[j].carried)
  /\ pc(j) \in {"meta", "dictionary", "regions", "hosts", "remove"} => Other(j).segments = <<>>
  /\ pc(j) = "merged" => disk[j].segments = <<>>
  /\ pc(j) = "done" => OnlyOneLeft(j)

\* How often a page is in what belongs to a job, and in all of it.
Has(j, page) ==
  CopiesAmong(page, disk[j].segments) + Copies(page, job[j].added)
    + (IF pc(j) = "meta" THEN CopiesAmong(page, job[j].carried) ELSE 0)
Holdings(page) == [j \in Jobs |-> Has(j, page)]
Held(page) == Total(Holdings(page))

IsHistory(bag) == \A page \in DOMAIN bag : bag[page] \in Nat \ {0}

PagesStay ==
  \A page :
    /\ page.body \in Titled => Copies(page, handled) <= Held(page)
    /\ Held(page) <= Copies(page, handled) + Copies(page, earlier)

Apart == plan \in Plans /\ Fields /\ \A j \in Jobs : Structure(j)

KInv == Apart /\ IsHistory(handled) /\ IsHistory(earlier) /\ PagesStay

LEMMA FiniteJobs ==
  ASSUME plan \in Plans
  PROVE  IsFiniteSet(Jobs)
<1>1. PICK S : plan.jobs \in Seq(S)
  BY IndexingAssumption
<1>2. Jobs = 1 .. Len(plan.jobs) /\ Len(plan.jobs) \in Nat
  BY <1>1 DEF Jobs
<1>3. QED
  BY <1>2, FS_Interval

LEMMA HistoryFacts ==
  ASSUME NEW bag, IsHistory(bag), NEW page
  PROVE  /\ Copies(page, bag) \in Nat
         /\ IsHistory(bag (+) SetToBag({page}))
         /\ \A p : Copies(p, bag (+) SetToBag({page})) = Copies(p, bag) + (IF p = page THEN 1 ELSE 0)
<1>1. PICK one, more : one = SetToBag({page}) /\ more = bag (+) one
  OBVIOUS
<1>2. DOMAIN one = {page} /\ one[page] = 1
  BY <1>1 DEF SetToBag
<1>3. /\ DOMAIN more = DOMAIN bag \cup {page}
      /\ \A p \in DOMAIN more : more[p] = Copies(p, bag) + Copies(p, one)
  BY <1>1, <1>2 DEF (+), Copies
<1>4. \A p : Copies(p, bag) \in Nat /\ Copies(p, one) = IF p = page THEN 1 ELSE 0
  BY <1>2 DEF Copies, IsHistory
<1>5. ASSUME NEW p PROVE Copies(p, more) = Copies(p, bag) + (IF p = page THEN 1 ELSE 0)
  <2>1. CASE p \in DOMAIN more
    BY <1>3, <1>4, <2>1 DEF Copies
  <2>2. CASE p \notin DOMAIN more
    <3>1. p /= page /\ Copies(p, bag) = 0 /\ Copies(p, more) = 0
      BY <1>3, <2>2 DEF Copies
    <3>2. QED
      BY <3>1
  <2>3. QED
    BY <2>1, <2>2
<1>6. IsHistory(more)
  <2> SUFFICES ASSUME NEW p \in DOMAIN more PROVE more[p] \in Nat \ {0}
    BY DEF IsHistory
  <2>1. p \in DOMAIN bag => Copies(p, bag) /= 0
    BY DEF Copies, IsHistory
  <2>2. QED
    BY <1>3, <1>4, <2>1
<1>7. QED
  BY <1>1, <1>4, <1>5, <1>6

LEMMA HistoriesAdd ==
  ASSUME NEW a, NEW b, IsHistory(a), IsHistory(b)
  PROVE  /\ IsHistory(a (+) b)
         /\ \A p : Copies(p, a (+) b) = Copies(p, a) + Copies(p, b)
         /\ DOMAIN (a (+) b) = DOMAIN a \cup DOMAIN b
<1>1. /\ DOMAIN (a (+) b) = DOMAIN a \cup DOMAIN b
      /\ \A p \in DOMAIN a \cup DOMAIN b : (a (+) b)[p] = Copies(p, a) + Copies(p, b)
  BY DEF (+), Copies
<1>2. \A p : Copies(p, a) \in Nat /\ Copies(p, b) \in Nat
  BY DEF Copies, IsHistory
<1>3. ASSUME NEW p PROVE Copies(p, a (+) b) = Copies(p, a) + Copies(p, b)
  <2>1. CASE p \in DOMAIN a \cup DOMAIN b
    BY <1>1, <2>1 DEF Copies
  <2>2. CASE p \notin DOMAIN a \cup DOMAIN b
    BY <1>1, <2>2 DEF Copies
  <2>3. QED
    BY <2>1, <2>2
<1>4. IsHistory(a (+) b)
  <2> SUFFICES ASSUME NEW p \in DOMAIN a \cup DOMAIN b PROVE (a (+) b)[p] \in Nat \ {0}
    BY <1>1 DEF IsHistory
  <2>1. Copies(p, a) /= 0 \/ Copies(p, b) /= 0
    BY DEF Copies, IsHistory
  <2>2. QED
    BY <1>1, <1>2, <2>1
<1>5. QED
  BY <1>1, <1>3, <1>4

LEMMA HoldingsAreCounts ==
  ASSUME Apart, NEW page
  PROVE  /\ \A j \in Jobs : /\ Has(j, page) \in Nat
                            /\ CopiesAmong(page, disk[j].segments) \in Nat
                            /\ Copies(page, job[j].added) \in Nat
                            /\ pc(j) = "meta" => CopiesAmong(page, job[j].carried) \in Nat
         /\ IsCount(Holdings(page)) /\ DOMAIN Holdings(page) = Jobs
         /\ \A j \in Jobs : Holdings(page)[j] = Has(j, page)
         /\ Held(page) \in Nat
<1>1. ASSUME NEW j \in Jobs
      PROVE  /\ CopiesAmong(page, disk[j].segments) \in Nat
             /\ Copies(page, job[j].added) \in Nat
             /\ pc(j) = "meta" => CopiesAmong(page, job[j].carried) \in Nat
  <2>1. AreSegments(disk[j].segments) /\ IsSegment(job[j].added)
        /\ (pc(j) = "meta" => AreSegments(job[j].carried))
    BY DEF Apart, Structure
  <2>2. QED
    BY <2>1, SegmentsAre, CopiesAreCounted
<1>2. \A j \in Jobs : Has(j, page) \in Nat
  BY <1>1 DEF Has
<1>3. DOMAIN Holdings(page) = Jobs /\ \A j \in Jobs : Holdings(page)[j] = Has(j, page)
  BY DEF Holdings
<1>4. IsCount(Holdings(page))
  BY <1>2, <1>3, FiniteJobs DEF IsCount, Apart
<1>5. Held(page) \in Nat
  BY <1>4, PointsAreFinite DEF Held
<1>6. QED
  BY <1>1, <1>2, <1>3, <1>4, <1>5

LEMMA StayInit == Init => KInv
<1> SUFFICES ASSUME Init PROVE KInv
  OBVIOUS
<1>1. plan \in Plans /\ handled = EmptyBag /\ earlier = EmptyBag
  BY DEF Init
<1>2. ASSUME NEW j \in Jobs
      PROVE  /\ "segments" \in DOMAIN disk[j] /\ {"added", "carried"} \subseteq DOMAIN job[j]
             /\ job[j].pc = "new" /\ job[j].added = EmptyBag /\ disk[j].segments = <<>>
  BY <1>2 DEF Init, Waiting, NewIndex
<1>3. Apart
  BY <1>1, <1>2, NoSegments, SmallBags DEF Apart, Fields, Structure, pc
<1>4. DOMAIN EmptyBag = {}
  BY DEF EmptyBag, SetToBag
<1>5. IsHistory(EmptyBag)
  BY <1>4 DEF IsHistory
<1>6. ASSUME NEW page PROVE Held(page) = 0
  <2>1. \A j \in Jobs : Has(j, page) = 0
    BY <1>2, NoSegments, SmallBags DEF Has, pc
  <2>2. QED
    BY <2>1, TotalOfNone DEF Held, Holdings
<1>7. PagesStay
  BY <1>1, <1>6, SmallBags DEF PagesStay
<1>8. QED
  BY <1>1, <1>3, <1>5, <1>7 DEF KInv

----------------------------------------------------------------------------
\* What a step does to the holdings is what it does to all that is held.
LEMMA HeldSame ==
  ASSUME Jobs' = Jobs, NEW page, \A j \in Jobs : Has(j, page)' = Has(j, page)
  PROVE  Held(page)' = Held(page)
<1>1. PICK h, g : h = Holdings(page) /\ g = Holdings(page)'
  OBVIOUS
<1>2. DOMAIN h = Jobs /\ DOMAIN g = Jobs /\ \A j \in Jobs : g[j] = h[j]
  BY <1>1 DEF Holdings
<1>3. Total(g) = Total(h)
  BY <1>2, TotalSame
<1>4. QED
  BY <1>1, <1>3 DEF Held

LEMMA SameStays ==
  ASSUME KInv, Apart', Jobs' = Jobs, UNCHANGED <<handled, earlier>>,
         \A page : \A j \in Jobs : Has(j, page)' = Has(j, page)
  PROVE  KInv'
<1>1. \A page : Held(page)' = Held(page)
  BY HeldSame
<1>2. PagesStay'
  BY <1>1 DEF PagesStay, KInv
<1>3. QED
  BY <1>2 DEF KInv, IsHistory

LEMMA HeldGrows ==
  ASSUME Apart, Jobs' = Jobs, NEW page, NEW i \in Jobs, NEW n \in Nat,
         Has(i, page)' = Has(i, page) + n,
         \A j \in Jobs \ {i} : Has(j, page)' = Has(j, page)
  PROVE  Held(page)' = Held(page) + n
<1>1. PICK h, g : h = Holdings(page) /\ g = Holdings(page)'
  OBVIOUS
<1>2. /\ DOMAIN h = Jobs /\ DOMAIN g = Jobs /\ \A j \in Jobs \ {i} : g[j] = h[j]
      /\ g[i] = h[i] + n
  BY <1>1 DEF Holdings
<1>3. IsCount(h) /\ h[i] \in Nat
  BY <1>1, HoldingsAreCounts
<1>4. Beside(h, g, i)
  BY <1>2 DEF Beside
<1>5. Total(g) \in Nat /\ Total(h) \in Nat /\ Total(g) + h[i] = Total(h) + g[i]
  <2>1. i \in DOMAIN h /\ g[i] \in Nat
    BY <1>2, <1>3
  <2>2. QED
    BY <1>3, <1>4, <2>1, TotalChanges
<1>6. PICK a \in Nat, b \in Nat, x \in Nat : a = Total(g) /\ b = Total(h) /\ x = h[i]
  BY <1>3, <1>5
<1>7. a = b + n
  BY <1>2, <1>5, <1>6
<1>8. QED
  BY <1>1, <1>6, <1>7 DEF Held

LEMMA HeldMoves ==
  ASSUME Apart, Jobs' = Jobs, NEW page, NEW i \in Jobs, NEW k \in Jobs, i /= k, NEW n \in Nat,
         Has(i, page)' = Has(i, page) + n, Has(k, page)' \in Nat,
         Has(k, page) = Has(k, page)' + n,
         \A j \in Jobs \ {i, k} : Has(j, page)' = Has(j, page)
  PROVE  Held(page)' = Held(page)
<1>1. PICK h, g, m : /\ h = Holdings(page) /\ g = Holdings(page)'
                     /\ m = [h EXCEPT ![i] = h[i] + n]
  OBVIOUS
<1>2. IsCount(h) /\ h[i] \in Nat /\ h[k] \in Nat /\ DOMAIN h = Jobs
  BY <1>1, HoldingsAreCounts
<1>3. /\ DOMAIN g = Jobs /\ \A j \in Jobs \ {i, k} : g[j] = h[j]
      /\ g[i] = h[i] + n /\ h[k] = g[k] + n /\ g[k] \in Nat
  BY <1>1 DEF Holdings
<1>4. /\ DOMAIN m = Jobs /\ m[i] = h[i] + n /\ \A j \in Jobs \ {i} : m[j] = h[j]
  BY <1>1, <1>2
<1>5. Beside(h, m, i)
  BY <1>2, <1>4 DEF Beside
<1>6. IsCount(m) /\ Total(m) \in Nat /\ Total(h) \in Nat /\ Total(m) + h[i] = Total(h) + m[i]
  BY <1>2, <1>4, <1>5, TotalChanges
<1>7. Beside(m, g, k)
  BY <1>3, <1>4 DEF Beside
<1>8. Total(g) \in Nat /\ Total(g) + m[k] = Total(m) + g[k]
  BY <1>3, <1>4, <1>6, <1>7, TotalChanges
<1>9. PICK a \in Nat, b \in Nat, c \in Nat, x \in Nat, y \in Nat :
        a = Total(g) /\ b = Total(m) /\ c = Total(h) /\ x = h[i] /\ y = g[k]
  BY <1>2, <1>3, <1>6, <1>8
<1>10. b + x = c + (x + n) /\ a + (y + n) = b + y
  BY <1>3, <1>4, <1>6, <1>8, <1>9
<1>11. a = c
  BY <1>10
<1>12. QED
  BY <1>1, <1>9, <1>11 DEF Held

\* Smaller numbers have a smaller sum.
LEMMA TotalShrinks ==
  ASSUME NEW c, NEW d, IsCount(c), IsCount(d), DOMAIN d = DOMAIN c,
         \A k \in DOMAIN c : d[k] <= c[k]
  PROVE  Total(d) <= Total(c)
<1>1. \A k \in DOMAIN c : Column(k, d[k]) \subseteq Column(k, c[k])
  <2> SUFFICES ASSUME NEW k \in DOMAIN c PROVE Column(k, d[k]) \subseteq Column(k, c[k])
    OBVIOUS
  <2>1. d[k] \in Nat /\ c[k] \in Nat /\ d[k] <= c[k]
    BY DEF IsCount
  <2>2. 1 .. d[k] \subseteq 1 .. c[k]
    BY <2>1
  <2>3. QED
    BY <2>2 DEF Column
<1>2. Points(d) \in SUBSET Points(c)
  BY <1>1, PointsAre
<1>3. Cardinality(Points(d)) <= Cardinality(Points(c))
  BY <1>2, PointsAreFinite, FS_Subset
<1>4. QED
  BY <1>3 DEF Total

\* The steps of job j that leave the pages where they are.
Calm(j) ==
  /\ pc(j) \notin {"meta", "merged", "done"}
  /\ pc(j)' \notin {"clear", "meta", "merged", "done"}
  /\ pc(j)' \in {"dictionary", "regions", "hosts", "remove"} =>
       pc(j) \in {"dictionary", "regions", "hosts", "remove"}
  /\ pc(j) \in {"pages", "words committed", "panicked"} =>
       pc(j)' \in {"pages", "words committed", "panicked"}
  /\ UNCHANGED <<plan, handled, earlier>>
  /\ \A k \in Jobs : /\ disk'[k].segments = disk[k].segments
                     /\ "segments" \in DOMAIN disk'[k]
                     /\ {"added", "carried"} \subseteq DOMAIN job'[k]
                     /\ job'[k].added = job[k].added /\ job'[k].with = job[k].with
                     /\ k /= j => pc(k)' = pc(k) /\ job'[k].carried = job[k].carried

\* Others than j that are done had j merged.
LEMMA NoneIsDone ==
  ASSUME Apart, NEW j \in Jobs, pc(j) /= "merged"
  PROVE  \A k \in Jobs \ {j} : pc(k) /= "done"
BY DEF Apart, Structure, OnlyOneLeft

LEMMA CalmStays ==
  ASSUME PInv, KInv, NEW j \in Jobs, Calm(j)
  PROVE  KInv'
<1>1. Jobs' = Jobs /\ plan' = plan
  BY DEF Jobs, Calm
<1>2. \A k \in Jobs : job[k].with \in Jobs /\ Structure(k)
  BY DEF PInv, Shape, KInv, Apart
<1>3. \A k \in Jobs : Other(k)'.segments = Other(k).segments
  BY <1>2 DEF Other, Calm
<1>4. ASSUME NEW k \in Jobs PROVE Structure(k)'
  <2>1. CASE k = j
    BY <1>2, <1>3, <2>1 DEF Structure, Calm
  <2>2. CASE k /= j
    <3>1. pc(k) /= "done"
      BY <2>2, NoneIsDone DEF KInv, Calm
    <3>2. QED
      BY <1>2, <1>3, <2>2, <3>1 DEF Structure, Calm
  <2>3. QED
    BY <2>1, <2>2
<1>5. Apart'
  BY <1>1, <1>4 DEF Apart, Fields, Calm, KInv
<1>6. ASSUME NEW page, NEW k \in Jobs PROVE Has(k, page)' = Has(k, page)
  BY DEF Has, Calm
<1>7. QED
  BY <1>1, <1>5, <1>6, SameStays DEF Calm

LEMMA JobStepStays ==
  ASSUME PInv, KInv, NEW j \in Jobs, JobStep(j)
  PROVE  KInv'
<1> USE DEF pc
<1>0. /\ DOMAIN job = Jobs /\ DOMAIN disk = Jobs
      /\ \A k \in Jobs : /\ {"pc", "with", "added", "carried"} \subseteq DOMAIN job[k]
                         /\ "segments" \in DOMAIN disk[k] /\ job[k].with \in Jobs
                         /\ Structure(k)
  <2>1. /\ DOMAIN job = Jobs /\ DOMAIN disk = Jobs
        /\ \A k \in Jobs : {"pc", "with"} \subseteq DOMAIN job[k] /\ job[k].with \in Jobs
    BY DEF PInv, Shape
  <2>2. /\ \A k \in Jobs : "segments" \in DOMAIN disk[k] /\ {"added", "carried"} \subseteq DOMAIN job[k]
        /\ \A k \in Jobs : Structure(k)
    BY DEF KInv, Apart, Fields
  <2>3. QED
    BY <2>1, <2>2
<1>1. CASE StartJob(j)
  <2>1. Calm(j)
    BY <1>0, <1>1 DEF StartJob, history, Calm
  <2>2. QED
    BY <2>1, CalmStays
<1>2. CASE DownloadFails(j)
  <2>1. Calm(j)
    BY <1>0, <1>2 DEF DownloadFails, history, Calm
  <2>2. QED
    BY <2>1, CalmStays
<1>3. CASE NextFile(j)
  <2>1. PICK f \in job[j].files : \E buf \in Downloads(Content[f]) :
          job' = [job EXCEPT ![j].pc = "pages", ![j].files = @ \ {f},
                             ![j].todo = WantedPages(buf)]
    BY <1>3 DEF NextFile
  <2>2. PICK buf \in Downloads(Content[f]) :
          job' = [job EXCEPT ![j].pc = "pages", ![j].files = @ \ {f},
                             ![j].todo = WantedPages(buf)]
    BY <2>1
  <2>3. pc(j) = "files" /\ UNCHANGED <<plan, disk, handled, earlier>>
    BY <1>3 DEF NextFile, history
  <2>4. Calm(j)
    BY <1>0, <2>2, <2>3 DEF Calm
  <2>5. QED
    BY <2>4, CalmStays
<1>4. CASE InsertPage(j)
  <2> DEFINE page == Head(job[j].todo)
             new == IF page.body \in Titled THEN SetToBag({page}) ELSE EmptyBag
             words == job[j].words (+) WordsOn(page)
             regions == job[j].regions (+) Known({RegionOf[page.body]})
             added == job[j].added (+) new
             hosts == disk[j].hosts \cup ({HostOf[page.url]} \ {Unknown})
  <2>1. /\ pc(j) = "pages" /\ UNCHANGED <<plan, earlier>>
        /\ job' = [job EXCEPT ![j].todo = Tail(@), ![j].words = words,
                              ![j].regions = regions, ![j].added = added]
        /\ disk' = [disk EXCEPT ![j].hosts = hosts]
        /\ handled' = handled (+) SetToBag({page})
    BY <1>4 DEF InsertPage
  <2>2. /\ IsSegment(added)
        /\ \A p : Copies(p, added) = Copies(p, job[j].added)
                    + (IF p = page /\ page.body \in Titled THEN 1 ELSE 0)
    <3>1. IsSegment(job[j].added)
      BY <1>0 DEF Structure
    <3>2. /\ IsSegment(new)
          /\ \A p : Copies(p, new) = IF p = page /\ page.body \in Titled THEN 1 ELSE 0
      BY SmallBags
    <3>3. PICK b : b = new
      OBVIOUS
    <3>4. IsSegment(job[j].added (+) b)
          /\ \A p : Copies(p, job[j].added (+) b) = Copies(p, job[j].added) + Copies(p, b)
      BY <3>1, <3>2, <3>3, BagsAdd
    <3>5. QED
      BY <3>2, <3>3, <3>4
  <2>3. /\ IsHistory(handled')
        /\ \A p : Copies(p, handled) \in Nat
        /\ \A p : Copies(p, handled') = Copies(p, handled) + (IF p = page THEN 1 ELSE 0)
    BY <2>1, HistoryFacts DEF KInv
  <2>4. PICK P, A, W, R, H :
          P = page /\ A = added /\ W = words /\ R = regions /\ H = hosts
    OBVIOUS
  <2>5. /\ job' = [job EXCEPT ![j].todo = Tail(@), ![j].words = W, ![j].regions = R, ![j].added = A]
        /\ disk' = [disk EXCEPT ![j].hosts = H]
        /\ IsSegment(A)
        /\ \A p : Copies(p, A) = Copies(p, job[j].added)
                    + (IF p = P /\ P.body \in Titled THEN 1 ELSE 0)
        /\ \A p : Copies(p, handled') = Copies(p, handled) + (IF p = P THEN 1 ELSE 0)
    BY <2>1, <2>2, <2>3, <2>4
  <2> HIDE DEF page, new, words, regions, added, hosts
  <2>6. /\ Jobs' = Jobs /\ plan' = plan /\ earlier' = earlier
        /\ job'[j].added = A
        /\ \A k \in Jobs : /\ disk'[k].segments = disk[k].segments
                           /\ "segments" \in DOMAIN disk'[k]
                           /\ {"added", "carried"} \subseteq DOMAIN job'[k]
                           /\ job'[k].pc = job[k].pc /\ job'[k].with = job[k].with
                           /\ job'[k].carried = job[k].carried
                           /\ k /= j => job'[k].added = job[k].added
    <3>1. Jobs' = Jobs /\ plan' = plan /\ earlier' = earlier
      BY <2>1 DEF Jobs
    <3>2. \A k \in Jobs : /\ k /= j => job'[k] = job[k] /\ disk'[k] = disk[k]
                          /\ "segments" \in DOMAIN disk[k]
                          /\ {"added", "carried"} \subseteq DOMAIN job[k]
      BY <1>0, <2>5
    <3>3. /\ job'[j].added = A /\ job'[j].pc = job[j].pc /\ job'[j].with = job[j].with
          /\ job'[j].carried = job[j].carried /\ {"added", "carried"} \subseteq DOMAIN job'[j]
      BY <1>0, <2>5
    <3>4. disk'[j].segments = disk[j].segments /\ "segments" \in DOMAIN disk'[j]
      BY <1>0, <2>5
    <3>5. QED
      BY <3>1, <3>2, <3>3, <3>4
  <2>7. \A k \in Jobs : Other(k)'.segments = Other(k).segments
    BY <1>0, <2>6 DEF Other
  <2>8. ASSUME NEW k \in Jobs PROVE Structure(k)'
    <3>1. Structure(k) /\ Other(k)'.segments = Other(k).segments
      BY <1>0, <2>7, SMTT(30)
    <3>2. CASE k = j
      BY <2>1, <2>5, <2>6, <3>1, <3>2 DEF Structure
    <3>3. CASE k /= j
      <4>1. job[k].pc /= "done"
        BY <2>1, <3>3, NoneIsDone DEF KInv
      <4>2. QED
        BY <2>6, <3>1, <3>3, <4>1 DEF Structure
    <3>4. QED
      BY <3>2, <3>3
  <2>9. Apart'
    BY <2>6, <2>8 DEF Apart, Fields, KInv
  <2>10. ASSUME NEW p
         PROVE  Held(p)' = Held(p) + (IF p = P /\ P.body \in Titled THEN 1 ELSE 0)
    <3>1. PICK n \in Nat : n = IF p = P /\ P.body \in Titled THEN 1 ELSE 0
      OBVIOUS
    <3>2. \A k \in Jobs \ {j} : Has(k, p)' = Has(k, p)
      BY <2>6 DEF Has
    <3>3. Has(j, p)' = Has(j, p) + n
      <4>1. Copies(p, job'[j].added) = Copies(p, job[j].added) + n
        BY <2>5, <2>6, <3>1
      <4>2. /\ CopiesAmong(p, disk[j].segments) \in Nat /\ Copies(p, job[j].added) \in Nat
        BY HoldingsAreCounts DEF KInv
      <4>3. job'[j].pc = "pages" /\ job[j].pc = "pages" /\ disk'[j].segments = disk[j].segments
        BY <2>1, <2>6
      <4>4. QED
        BY <4>1, <4>2, <4>3 DEF Has
    <3>4. Held(p)' = Held(p) + n
      BY <2>6, <3>2, <3>3, HeldGrows DEF KInv
    <3>5. QED
      BY <3>1, <3>4
  <2>11. PagesStay'
    <3> SUFFICES ASSUME NEW p
                 PROVE  /\ p.body \in Titled => Copies(p, handled') <= Held(p)'
                        /\ Held(p)' <= Copies(p, handled') + Copies(p, earlier')
      BY DEF PagesStay
    <3>1. PICK a \in Nat, b \in Nat, c \in Nat :
            a = Copies(p, handled) /\ b = Held(p) /\ c = Copies(p, earlier)
      BY <2>3, HoldingsAreCounts DEF KInv, Copies, IsHistory
    <3>2. (p.body \in Titled => a <= b) /\ b <= a + c
      BY <3>1 DEF KInv, PagesStay
    <3>3. /\ Copies(p, handled') = a + (IF p = P THEN 1 ELSE 0)
          /\ Held(p)' = b + (IF p = P /\ P.body \in Titled THEN 1 ELSE 0)
          /\ Copies(p, earlier') = c
      BY <2>5, <2>6, <2>10, <3>1
    <3>4. CASE p = P /\ P.body \in Titled
      BY <3>2, <3>3, <3>4
    <3>5. CASE ~(p = P /\ P.body \in Titled)
      <4>1. Held(p)' = b
        BY <3>3, <3>5
      <4>2. CASE p = P
        <5>1. Copies(p, handled') = a + 1 /\ p.body \notin Titled
          BY <3>3, <3>5, <4>2
        <5>2. QED
          BY <3>2, <3>3, <4>1, <5>1
      <4>3. CASE p /= P
        <5>1. Copies(p, handled') = a
          BY <3>3, <4>3
        <5>2. QED
          BY <3>2, <3>3, <4>1, <5>1
      <4>4. QED
        BY <4>2, <4>3
    <3>6. QED
      BY <3>4, <3>5
  <2>12. IsHistory(earlier)'
    BY <2>6 DEF KInv
  <2>13. QED
    BY <2>3, <2>9, <2>11, <2>12 DEF KInv
<1>5. CASE CommitWords(j)
  <2>1. Calm(j)
    BY <1>0, <1>5 DEF CommitWords, history, Calm
  <2>2. QED
    BY <2>1, CalmStays
<1>6. CASE CommitPages(j)
  <2>1. PICK more : more = AddSegment(disk[j].segments, job[j].added)
    OBVIOUS
  <2>2. /\ pc(j) = "words committed" /\ UNCHANGED <<plan, handled, earlier>>
        /\ job' = [job EXCEPT ![j].pc = "pages committed", ![j].added = EmptyBag]
        /\ disk' = [disk EXCEPT ![j].segments = more]
    BY <1>6, <2>1 DEF CommitPages, history
  <2>3. /\ AreSegments(more)
        /\ \A p : CopiesAmong(p, more) = CopiesAmong(p, disk[j].segments) + Copies(p, job[j].added)
    <3>1. AreSegments(disk[j].segments) /\ IsSegment(job[j].added)
      BY <1>0 DEF Structure
    <3>2. QED
      BY <2>1, <3>1, SegmentAdded
  <2>4. /\ Jobs' = Jobs
        /\ \A k \in Jobs : /\ "segments" \in DOMAIN disk'[k]
                           /\ {"added", "carried"} \subseteq DOMAIN job'[k]
                           /\ job'[k].with = job[k].with /\ job'[k].carried = job[k].carried
                           /\ k /= j => /\ job'[k].added = job[k].added /\ job'[k].pc = job[k].pc
                                        /\ disk'[k].segments = disk[k].segments
        /\ job'[j].pc = "pages committed" /\ job'[j].added = EmptyBag /\ disk'[j].segments = more
    BY <1>0, <2>2 DEF Jobs
  <2>5. \A k \in Jobs : job[k].pc \in {"clear", "meta", "dictionary", "regions", "hosts", "remove"} =>
          Other(k)'.segments = Other(k).segments
    <3>1. \A k \in Jobs : job[k].pc \in {"clear", "meta", "dictionary", "regions", "hosts", "remove"} =>
            job[k].with /= j
      BY <2>2 DEF PInv, MergesAreApart, Merging
    <3>2. QED
      BY <1>0, <2>4, <3>1, ZenonT(40) DEF Other
  <2>6. ASSUME NEW k \in Jobs PROVE Structure(k)'
    <3>1. CASE k = j
      BY <2>3, <2>4, <3>1, SmallBags DEF Structure
    <3>2. CASE k /= j
      <4>1. job[k].pc /= "done"
        BY <2>2, <3>2, NoneIsDone DEF KInv
      <4>2. Structure(k)
        BY <1>0
      <4>3. /\ job'[k].pc = job[k].pc /\ disk'[k].segments = disk[k].segments
            /\ job'[k].added = job[k].added /\ job'[k].carried = job[k].carried
        BY <2>4, <3>2
      <4>4. QED
        BY <2>5, <4>1, <4>2, <4>3 DEF Structure
    <3>3. QED
      BY <3>1, <3>2
  <2>7. Apart'
    BY <2>2, <2>4, <2>6 DEF Apart, Fields, KInv
  <2>8. ASSUME NEW p, NEW k \in Jobs PROVE Has(k, p)' = Has(k, p)
    <3>1. CASE k = j
      <4>1. CopiesAmong(p, disk[j].segments) \in Nat /\ Copies(p, job[j].added) \in Nat
        BY HoldingsAreCounts DEF KInv
      <4>2. CopiesAmong(p, disk'[j].segments) + Copies(p, job'[j].added)
              = CopiesAmong(p, disk[j].segments) + Copies(p, job[j].added)
        <5>1. Copies(p, job'[j].added) = 0
          BY <2>4, SmallBags
        <5>2. CopiesAmong(p, disk'[j].segments)
                = CopiesAmong(p, disk[j].segments) + Copies(p, job[j].added)
          BY <2>3, <2>4
        <5>3. QED
          BY <4>1, <5>1, <5>2
      <4>3. job[j].pc /= "meta" /\ job'[j].pc /= "meta"
        BY <2>2, <2>4
      <4>4. QED
        BY <3>1, <4>2, <4>3 DEF Has
    <3>2. CASE k /= j
      BY <2>4, <3>2 DEF Has
    <3>3. QED
      BY <3>1, <3>2
  <2>9. QED
    BY <2>2, <2>4, <2>7, <2>8, SameStays
<1>7. CASE CommitRegions(j)
  <2>1. Calm(j)
    BY <1>0, <1>7 DEF CommitRegions, Go, history, Calm
  <2>2. QED
    BY <2>1, CalmStays
<1>8. CASE FinishJob(j) \/ DownloadImages(j)
  <2>1. Calm(j)
    <3>1. CASE FinishJob(j)
      BY <1>0, <3>1 DEF FinishJob, Go, history, Calm
    <3>2. CASE DownloadImages(j)
      BY <1>0, <3>2 DEF DownloadImages, Go, history, Calm
    <3>3. QED
      BY <1>8, <3>1, <3>2
  <2>2. QED
    BY <2>1, CalmStays
<1>9. QED
  BY <1>1, <1>2, <1>3, <1>4, <1>5, <1>6, <1>7, <1>8 DEF JobStep

LEMMA MergeStepStays ==
  ASSUME PInv, KInv, NEW j \in Jobs, MergeStep(j)
  PROVE  KInv'
<1> USE DEF pc
<1> DEFINE with == job[j].with
           AfterRename == {"clear", "meta", "dictionary", "regions", "hosts", "remove"}
<1>0. /\ DOMAIN job = Jobs /\ DOMAIN disk = Jobs
      /\ \A k \in Jobs : /\ {"pc", "with", "added", "carried"} \subseteq DOMAIN job[k]
                         /\ "segments" \in DOMAIN disk[k] /\ job[k].with \in Jobs
                         /\ Structure(k)
  <2>1. /\ DOMAIN job = Jobs /\ DOMAIN disk = Jobs
        /\ \A k \in Jobs : {"pc", "with"} \subseteq DOMAIN job[k] /\ job[k].with \in Jobs
    BY DEF PInv, Shape
  <2>2. /\ \A k \in Jobs : "segments" \in DOMAIN disk[k] /\ {"added", "carried"} \subseteq DOMAIN job[k]
        /\ \A k \in Jobs : Structure(k)
    BY DEF KInv, Apart, Fields
  <2>3. QED
    BY <2>1, <2>2
<1>a. \A k \in Jobs : job[k].pc \in AfterRename => job[job[k].with].pc = "merging"
  BY DEF PInv, MergesAreApart, Merging
<1>b. \A k, l \in Jobs : job[k].pc \in AfterRename /\ job[l].pc \in AfterRename
                          /\ job[k].with = job[l].with => k = l
  BY DEF PInv, MergesAreApart, Merging
<1>1. ASSUME NEW i \in Jobs, StartMerge(j, i) PROVE KInv'
  <2>1. /\ job[j].pc = "ready" /\ job[i].pc = "ready" /\ UNCHANGED <<plan, disk, handled, earlier>>
        /\ job' = [job EXCEPT ![j].pc = "rename", ![j].with = i, ![i].pc = "merging"]
    BY <1>1 DEF StartMerge, history
  <2>2. /\ Jobs' = Jobs
        /\ \A k \in Jobs : /\ {"added", "carried"} \subseteq DOMAIN job'[k]
                           /\ job'[k].added = job[k].added
                           /\ k \notin {i, j} => job'[k] = job[k]
                           /\ k \in {i, j} => job'[k].pc \in {"rename", "merging"} /\ job[k].pc = "ready"
    BY <1>0, <2>1 DEF Jobs
  <2>3. ASSUME NEW k \in Jobs PROVE Structure(k)'
    <3>1. CASE k \in {i, j}
      BY <1>0, <2>1, <2>2, <3>1, ZenonT(40) DEF Structure
    <3>2. CASE k \notin {i, j}
      <4>1. job[k].pc /= "done"
        BY <2>1, <3>2, NoneIsDone DEF KInv
      <4>2. job'[k] = job[k] /\ disk' = disk /\ Structure(k)
        BY <1>0, <2>1, <2>2, <3>2
      <4>3. QED
        BY <4>1, <4>2 DEF Structure, Other
    <3>3. QED
      BY <3>1, <3>2
  <2>4. Apart'
    BY <1>0, <2>1, <2>2, <2>3 DEF Apart, Fields, KInv
  <2>5. ASSUME NEW p, NEW k \in Jobs PROVE Has(k, p)' = Has(k, p)
    <3>1. CASE k \in {i, j}
      <4>1. job[k].pc /= "meta" /\ job'[k].pc /= "meta"
        BY <2>2, <3>1
      <4>2. disk' = disk /\ job'[k].added = job[k].added
        BY <2>1, <2>2
      <4>3. QED
        BY <4>1, <4>2 DEF Has
    <3>2. CASE k \notin {i, j}
      <4>1. job'[k] = job[k] /\ disk' = disk
        BY <2>1, <2>2, <3>2
      <4>2. QED
        BY <4>1 DEF Has
    <3>3. QED
      BY <3>1, <3>2
  <2>6. QED
    BY <2>1, <2>2, <2>4, <2>5, SameStays
<1>2. CASE RenameFiles(j)
  <2>1. PICK b :
          /\ job[j].pc = "rename" /\ UNCHANGED <<plan, handled, earlier>>
          /\ job' = [job EXCEPT ![j].pc = "clear", ![j].carried = Other(j).segments]
          /\ disk' = [disk EXCEPT ![with].broken = b]
    BY <1>2 DEF RenameFiles, history
  <2>2. /\ Jobs' = Jobs
        /\ \A k \in Jobs : /\ {"added", "carried"} \subseteq DOMAIN job'[k]
                           /\ "segments" \in DOMAIN disk'[k] /\ disk'[k].segments = disk[k].segments
                           /\ job'[k].added = job[k].added /\ job'[k].with = job[k].with
                           /\ k /= j => job'[k].pc = job[k].pc /\ job'[k].carried = job[k].carried
        /\ job'[j].pc = "clear" /\ job'[j].carried = Other(j).segments
    BY <1>0, <2>1 DEF Jobs
  <2>3. \A k \in Jobs : Other(k)'.segments = Other(k).segments
    BY <1>0, <2>2 DEF Other
  <2>4. ASSUME NEW k \in Jobs PROVE Structure(k)'
    <3>1. Structure(k) /\ Other(k)'.segments = Other(k).segments
      BY <1>0, <2>3
    <3>2. CASE k = j
      <4>1. /\ job[j].pc = "rename" /\ job'[j].pc = "clear"
            /\ disk'[j].segments = disk[j].segments /\ job'[j].added = job[j].added
        BY <2>1, <2>2
      <4>2. job'[j].carried = Other(j)'.segments
        BY <2>2, <3>1, <3>2
      <4>3. QED
        BY <3>1, <3>2, <4>1, <4>2 DEF Structure
    <3>3. CASE k /= j
      <4>1. job[k].pc /= "done"
        BY <2>1, <3>3, NoneIsDone DEF KInv
      <4>2. QED
        BY <2>2, <3>1, <3>3, <4>1 DEF Structure
    <3>4. QED
      BY <3>2, <3>3
  <2>5. Apart'
    BY <2>1, <2>2, <2>4 DEF Apart, Fields, KInv
  <2>6. ASSUME NEW p, NEW k \in Jobs PROVE Has(k, p)' = Has(k, p)
    <3>1. CASE k = j
      BY <2>1, <2>2, <3>1 DEF Has
    <3>2. CASE k /= j
      BY <2>2, <3>2 DEF Has
    <3>3. QED
      BY <3>1, <3>2
  <2>7. QED
    BY <2>1, <2>2, <2>5, <2>6, SameStays
<1>3. CASE ClearOther(j)
  <2>1. /\ job[j].pc = "clear" /\ UNCHANGED <<plan, handled, earlier>>
        /\ job' = [job EXCEPT ![j].pc = "meta"]
        /\ disk' = [disk EXCEPT ![with].broken = FALSE, ![with].made = FALSE,
                              ![with].segments = <<>>]
    BY <1>3 DEF ClearOther, Go, history
  <2>2. with \in Jobs /\ job[with].pc = "merging" /\ with /= j
    BY <1>0, <1>a, <2>1
  <2>3. /\ Jobs' = Jobs
        /\ \A k \in Jobs : /\ {"added", "carried"} \subseteq DOMAIN job'[k]
                           /\ "segments" \in DOMAIN disk'[k]
                           /\ job'[k].added = job[k].added /\ job'[k].with = job[k].with
                           /\ job'[k].carried = job[k].carried
                           /\ k /= j => job'[k].pc = job[k].pc
                           /\ k /= with => disk'[k].segments = disk[k].segments
        /\ job'[j].pc = "meta" /\ disk'[with].segments = <<>>
    BY <1>0, <2>1, <2>2 DEF Jobs
  <2>4. ASSUME NEW k \in Jobs PROVE Structure(k)'
    <3>1. CASE k = j
      <4>1. job[j].carried = disk[with].segments /\ AreSegments(disk[with].segments)
            /\ AreSegments(disk[j].segments) /\ IsSegment(job[j].added) /\ job[j].added = EmptyBag
        BY <1>0, <2>1, <2>2 DEF Structure, Other
      <4>2. Other(j)'.segments = <<>>
        BY <2>3 DEF Other
      <4>3. QED
        BY <2>2, <2>3, <3>1, <4>1, <4>2 DEF Structure
    <3>2. CASE k = with
      <4>1. IsSegment(job[k].added) /\ job[k].added = EmptyBag
        BY <1>0, <2>2, <3>2 DEF Structure
      <4>2. QED
        BY <2>2, <2>3, <3>2, <4>1, NoSegments DEF Structure
    <3>3. CASE k \notin {j, with}
      <4>1. job[k].pc /= "done"
        BY <2>1, <3>3, NoneIsDone DEF KInv
      <4>2. job[k].pc \in AfterRename => Other(k)'.segments = Other(k).segments
        BY <1>0, <1>b, <2>1, <2>3, <3>3 DEF Other
      <4>3. QED
        BY <1>0, <2>3, <3>3, <4>1, <4>2, ZenonT(40) DEF Structure
    <3>4. QED
      BY <3>1, <3>2, <3>3
  <2>5. Apart'
    BY <2>1, <2>3, <2>4 DEF Apart, Fields, KInv
  <2>6. ASSUME NEW p PROVE Held(p)' = Held(p)
    <3>1. PICK n : n = CopiesAmong(p, disk[with].segments)
      OBVIOUS
    <3>2. /\ n \in Nat /\ CopiesAmong(p, disk[j].segments) \in Nat
          /\ Copies(p, job[j].added) \in Nat /\ Copies(p, job[with].added) \in Nat
      BY <2>2, <3>1, HoldingsAreCounts DEF KInv
    <3>3. Has(j, p)' = Has(j, p) + n
      <4>1. CopiesAmong(p, job[j].carried) = n
        BY <1>0, <2>1, <3>1 DEF Structure, Other
      <4>2. PICK a \in Nat, b \in Nat :
              a = CopiesAmong(p, disk[j].segments) /\ b = Copies(p, job[j].added)
        BY <3>2
      <4>3. Has(j, p) = a + b
        BY <2>1, <4>2 DEF Has
      <4>4. /\ disk'[j].segments = disk[j].segments /\ job'[j].added = job[j].added
            /\ job'[j].carried = job[j].carried /\ job'[j].pc = "meta"
        BY <2>2, <2>3
      <4>5. Has(j, p)' = a + b + n
        BY <4>1, <4>2, <4>4 DEF Has
      <4>6. QED
        BY <3>2, <4>2, <4>3, <4>5
    <3>4. Has(with, p) = Has(with, p)' + n /\ Has(with, p)' \in Nat
      <4>1. CopiesAmong(p, disk'[with].segments) = 0
        BY <2>3, NoSegments
      <4>2. QED
        BY <2>2, <2>3, <3>1, <3>2, <4>1 DEF Has
    <3>5. \A k \in Jobs \ {j, with} : Has(k, p)' = Has(k, p)
      BY <2>3 DEF Has
    <3>6. PICK w \in Jobs : w = with
      BY <2>2
    <3>7. QED
      BY <2>2, <2>3, <3>2, <3>3, <3>4, <3>5, <3>6, HeldMoves DEF KInv
  <2>7. PagesStay'
    BY <2>1, <2>6 DEF PagesStay, KInv
  <2>8. QED
    BY <2>1, <2>5, <2>7 DEF KInv, IsHistory
<1>4. CASE WriteMeta(j)
  <2>1. PICK more : more = MergedSegments(disk[j].segments, job[j].carried)
    OBVIOUS
  <2>2. /\ job[j].pc = "meta" /\ UNCHANGED <<plan, handled, earlier>>
        /\ job' = [job EXCEPT ![j].pc = "dictionary", ![j].carried = <<>>]
        /\ disk' = [disk EXCEPT ![j].segments = more]
    BY <1>4, <2>1 DEF WriteMeta, history
  <2>3. /\ AreSegments(more)
        /\ \A p : CopiesAmong(p, more)
                    = CopiesAmong(p, disk[j].segments) + CopiesAmong(p, job[j].carried)
    <3>1. AreSegments(disk[j].segments) /\ AreSegments(job[j].carried)
      BY <1>0, <2>2 DEF Structure
    <3>2. QED
      BY <2>1, <3>1, MergedSegmentsFacts
  <2>4. /\ Jobs' = Jobs
        /\ \A k \in Jobs : /\ "segments" \in DOMAIN disk'[k]
                           /\ {"added", "carried"} \subseteq DOMAIN job'[k]
                           /\ job'[k].with = job[k].with /\ job'[k].added = job[k].added
                           /\ k /= j => /\ job'[k].carried = job[k].carried /\ job'[k].pc = job[k].pc
                                        /\ disk'[k].segments = disk[k].segments
        /\ job'[j].pc = "dictionary" /\ disk'[j].segments = more
    BY <1>0, <2>2 DEF Jobs
  <2>5. \A k \in Jobs : job[k].pc \in AfterRename => Other(k)'.segments = Other(k).segments
    BY <1>0, <1>a, <2>2, <2>4 DEF Other
  <2>6. ASSUME NEW k \in Jobs PROVE Structure(k)'
    <3>1. CASE k = j
      <4>1. IsSegment(job[j].added) /\ job[j].added = EmptyBag /\ Other(j)'.segments = <<>>
        BY <1>0, <2>2, <2>5 DEF Structure
      <4>2. QED
        BY <2>3, <2>4, <3>1, <4>1 DEF Structure
    <3>2. CASE k /= j
      <4>1. job[k].pc /= "done"
        BY <2>2, <3>2, NoneIsDone DEF KInv
      <4>2. Structure(k)
        BY <1>0
      <4>3. /\ job'[k].pc = job[k].pc /\ disk'[k].segments = disk[k].segments
            /\ job'[k].added = job[k].added /\ job'[k].carried = job[k].carried
        BY <2>4, <3>2
      <4>4. QED
        BY <2>5, <4>1, <4>2, <4>3 DEF Structure
    <3>3. QED
      BY <3>1, <3>2
  <2>7. Apart'
    BY <2>2, <2>4, <2>6 DEF Apart, Fields, KInv
  <2>8. ASSUME NEW p, NEW k \in Jobs PROVE Has(k, p)' = Has(k, p)
    <3>1. CASE k = j
      <4>1. /\ CopiesAmong(p, disk[j].segments) \in Nat /\ Copies(p, job[j].added) \in Nat
            /\ CopiesAmong(p, job[j].carried) \in Nat
        BY <2>2, HoldingsAreCounts DEF KInv
      <4>2. CopiesAmong(p, disk'[j].segments)
              = CopiesAmong(p, disk[j].segments) + CopiesAmong(p, job[j].carried)
        BY <2>3, <2>4
      <4>3. job[j].pc = "meta" /\ job'[j].pc /= "meta" /\ job'[j].added = job[j].added
        BY <2>2, <2>4
      <4>4. QED
        BY <3>1, <4>1, <4>2, <4>3 DEF Has
    <3>2. CASE k /= j
      BY <2>4, <3>2 DEF Has
    <3>3. QED
      BY <3>1, <3>2
  <2>9. QED
    BY <2>2, <2>4, <2>7, <2>8, SameStays
<1>5. CASE MergeWords(j)
  <2>1. Calm(j)
    BY <1>0, <1>5 DEF MergeWords, Go, history, Calm
  <2>2. QED
    BY <2>1, CalmStays
<1>6. CASE MergeRegions(j)
  <2>1. Calm(j)
    BY <1>0, <1>6 DEF MergeRegions, Go, history, Calm
  <2>2. QED
    BY <2>1, CalmStays
<1>7. CASE MergeHosts(j)
  <2>1. Calm(j)
    BY <1>0, <1>7 DEF MergeHosts, Go, history, Calm
  <2>2. QED
    BY <2>1, CalmStays
<1>8. CASE RemoveOther(j)
  <2>1. /\ job[j].pc = "remove" /\ UNCHANGED <<plan, handled, earlier>>
        /\ job' = [job EXCEPT ![j].pc = "ready", ![j].with = j, ![with].pc = "merged"]
        /\ disk' = [disk EXCEPT ![with] = NewIndex]
    BY <1>8 DEF RemoveOther, history
  <2>2. /\ with \in Jobs /\ job[with].pc = "merging" /\ with /= j
        /\ disk[with].segments = <<>>
    BY <1>0, <1>a, <2>1 DEF Structure, Other
  <2>3. /\ Jobs' = Jobs
        /\ \A k \in Jobs : /\ {"added", "carried"} \subseteq DOMAIN job'[k]
                           /\ "segments" \in DOMAIN disk'[k]
                           /\ disk'[k].segments = disk[k].segments
                           /\ job'[k].added = job[k].added /\ job'[k].carried = job[k].carried
                           /\ k \notin {j, with} => /\ job'[k].pc = job[k].pc
                                                    /\ job'[k].with = job[k].with
        /\ job'[j].pc = "ready" /\ job'[with].pc = "merged"
    BY <1>0, <2>1, <2>2 DEF Jobs, NewIndex
  <2>4. ASSUME NEW k \in Jobs PROVE Structure(k)'
    <3>1. CASE k \in {j, with}
      <4>1. /\ AreSegments(disk[k].segments) /\ IsSegment(job[k].added) /\ job[k].added = EmptyBag
            /\ k = with => disk[k].segments = <<>>
        BY <1>0, <2>1, <2>2, <3>1 DEF Structure
      <4>2. QED
        BY <2>2, <2>3, <3>1, <4>1 DEF Structure
    <3>2. CASE k \notin {j, with}
      <4>1. job[k].pc /= "done"
        BY <2>1, <3>2, NoneIsDone DEF KInv
      <4>2. Other(k)'.segments = Other(k).segments
        BY <1>0, <2>3, <3>2 DEF Other
      <4>3. QED
        BY <1>0, <2>3, <3>2, <4>1, <4>2, ZenonT(40) DEF Structure
    <3>3. QED
      BY <3>1, <3>2
  <2>5. Apart'
    BY <2>1, <2>3, <2>4 DEF Apart, Fields, KInv
  <2>6. ASSUME NEW p, NEW k \in Jobs PROVE Has(k, p)' = Has(k, p)
    <3>1. job[k].pc = "meta" <=> job'[k].pc = "meta"
      BY <2>1, <2>2, <2>3
    <3>2. QED
      BY <2>3, <3>1 DEF Has
  <2>7. QED
    BY <2>1, <2>3, <2>5, <2>6, SameStays
<1>9. QED
  BY <1>1, <1>2, <1>3, <1>4, <1>5, <1>6, <1>7, <1>8 DEF MergeStep

LEMMA FinishRunStays ==
  ASSUME PInv, KInv, NEW j \in Jobs, FinishRun(j)
  PROVE  KInv'
<1> USE DEF pc
<1>0. /\ DOMAIN job = Jobs /\ DOMAIN disk = Jobs
      /\ \A k \in Jobs : /\ "pc" \in DOMAIN job[k] /\ {"added", "carried"} \subseteq DOMAIN job[k]
                         /\ "segments" \in DOMAIN disk[k]
                         /\ Structure(k)
  <2>1. /\ DOMAIN job = Jobs /\ DOMAIN disk = Jobs
        /\ \A k \in Jobs : "pc" \in DOMAIN job[k]
    BY DEF PInv, Shape
  <2>2. /\ \A k \in Jobs : "segments" \in DOMAIN disk[k] /\ {"added", "carried"} \subseteq DOMAIN job[k]
        /\ \A k \in Jobs : Structure(k)
    BY DEF KInv, Apart, Fields
  <2>3. QED
    BY <2>1, <2>2
<1>1. PICK few : few = MergeIntoSegments(disk[j].segments)
  OBVIOUS
<1>2. /\ job[j].pc = "ready" /\ OnlyOneLeft(j) /\ UNCHANGED <<plan, handled, earlier>>
      /\ job' = [job EXCEPT ![j].pc = "done"]
      /\ disk' = [disk EXCEPT ![j].segments = few]
  BY <1>1 DEF FinishRun, Go, history
<1>3. /\ AreSegments(few)
      /\ \A p : CopiesAmong(p, few) = CopiesAmong(p, disk[j].segments)
  <2>1. AreSegments(disk[j].segments)
    BY <1>0 DEF Structure
  <2>2. QED
    BY <1>1, <2>1, MergeIntoSegmentsFacts
<1>4. /\ Jobs' = Jobs
      /\ \A k \in Jobs : /\ "segments" \in DOMAIN disk'[k]
                         /\ {"added", "carried"} \subseteq DOMAIN job'[k]
                         /\ job'[k].added = job[k].added
                         /\ k /= j => /\ job'[k].pc = "merged" /\ job[k].pc = "merged"
                                      /\ disk'[k].segments = disk[k].segments
      /\ job'[j].pc = "done" /\ disk'[j].segments = few
  <2>1. \A k \in Jobs : k /= j => job[k].pc = "merged"
    BY <1>2 DEF OnlyOneLeft
  <2>2. QED
    BY <1>0, <1>2, <2>1 DEF Jobs
<1>5. ASSUME NEW k \in Jobs PROVE Structure(k)'
  <2>1. CASE k = j
    <3>1. IsSegment(job[j].added) /\ job[j].added = EmptyBag
      BY <1>0, <1>2 DEF Structure
    <3>2. OnlyOneLeft(j)'
      BY <1>4 DEF OnlyOneLeft
    <3>3. QED
      BY <1>3, <1>4, <2>1, <3>1, <3>2 DEF Structure
  <2>2. CASE k /= j
    BY <1>0, <1>4, <2>2 DEF Structure
  <2>3. QED
    BY <2>1, <2>2
<1>6. Apart'
  BY <1>2, <1>4, <1>5 DEF Apart, Fields, KInv
<1>7. ASSUME NEW p, NEW k \in Jobs PROVE Has(k, p)' = Has(k, p)
  <2>1. CASE k = j
    BY <1>2, <1>3, <1>4, <2>1 DEF Has
  <2>2. CASE k /= j
    BY <1>4, <2>2 DEF Has
  <2>3. QED
    BY <2>1, <2>2
<1>8. QED
  BY <1>2, <1>4, <1>6, <1>7, SameStays

\* What was only in memory is lost; it was of the run that ends here.
LEMMA RunAgainStays ==
  ASSUME PInv, KInv, RunAgain
  PROVE  KInv'
<1> USE DEF pc
<1>0. \A j \in Jobs : "segments" \in DOMAIN disk'[j] /\ disk'[j].segments = disk[j].segments
  <2>1. ASSUME NEW j \in Jobs
        PROVE  "segments" \in DOMAIN disk'[j] /\ disk'[j].segments = disk[j].segments
    <3>1. Intact(j) /\ "segments" \in DOMAIN disk[j]
      BY WhatAKillLeaves DEF PInv, Shape, KInv, Apart, Fields
    <3>2. QED
      BY <3>1 DEF Intact
  <2>2. QED
    BY <2>1
<1>1. /\ plan' = plan /\ job' = [j \in Jobs |-> Waiting(j)]
      /\ earlier' = earlier (+) handled /\ handled' = EmptyBag
  BY DEF RunAgain
<1>2. /\ Jobs' = Jobs
      /\ \A j \in Jobs : /\ job'[j].pc = "new" /\ job'[j].added = EmptyBag
                         /\ {"added", "carried"} \subseteq DOMAIN job'[j]
  BY <1>1 DEF Waiting, Jobs
<1>3. ASSUME NEW j \in Jobs PROVE Structure(j)'
  <2>1. AreSegments(disk[j].segments)
    BY DEF KInv, Apart, Structure
  <2>2. QED
    BY <1>0, <1>1, <1>2, <2>1, SmallBags DEF Structure
<1>4. Apart'
  BY <1>0, <1>1, <1>2, <1>3 DEF Apart, Fields, KInv
<1>5. DOMAIN EmptyBag = {}
  BY DEF EmptyBag, SetToBag
<1>6. IsHistory(handled')
  BY <1>1, <1>5 DEF IsHistory
<1>7. /\ IsHistory(earlier')
      /\ \A p : Copies(p, earlier') = Copies(p, earlier) + Copies(p, handled)
  BY <1>1, HistoriesAdd DEF KInv
<1>8. ASSUME NEW p PROVE Held(p)' <= Held(p) /\ Held(p)' \in Nat
  <2>1. PICK h, g : h = Holdings(p) /\ g = Holdings(p)'
    OBVIOUS
  <2>2. IsCount(h) /\ DOMAIN h = Jobs /\ \A j \in Jobs : h[j] = Has(j, p)
    BY <2>1, HoldingsAreCounts DEF KInv
  <2>3. \A j \in Jobs : /\ CopiesAmong(p, disk[j].segments) \in Nat
                        /\ Copies(p, job[j].added) \in Nat
                        /\ job[j].pc = "meta" => CopiesAmong(p, job[j].carried) \in Nat
    BY HoldingsAreCounts DEF KInv
  <2>4. DOMAIN g = Jobs /\ \A j \in Jobs : g[j] = Has(j, p)'
    BY <1>2, <2>1 DEF Holdings
  <2>5. \A j \in Jobs : Has(j, p)' = CopiesAmong(p, disk[j].segments)
    <3> SUFFICES ASSUME NEW j \in Jobs PROVE Has(j, p)' = CopiesAmong(p, disk[j].segments)
      OBVIOUS
    <3>1. Copies(p, job'[j].added) = 0 /\ job'[j].pc /= "meta"
          /\ disk'[j].segments = disk[j].segments
      BY <1>0, <1>1, <1>2, SmallBags
    <3>2. CopiesAmong(p, disk[j].segments) \in Nat
      BY <2>3
    <3>3. QED
      BY <3>1, <3>2 DEF Has
  <2>6. \A j \in Jobs : CopiesAmong(p, disk[j].segments) <= Has(j, p)
    <3> SUFFICES ASSUME NEW j \in Jobs PROVE CopiesAmong(p, disk[j].segments) <= Has(j, p)
      OBVIOUS
    <3>1. PICK a \in Nat, b \in Nat :
            a = CopiesAmong(p, disk[j].segments) /\ b = Copies(p, job[j].added)
      BY <2>3
    <3>2. CASE job[j].pc = "meta"
      <4>1. PICK c \in Nat : c = CopiesAmong(p, job[j].carried)
        BY <2>3, <3>2
      <4>2. Has(j, p) = a + b + c
        BY <3>1, <3>2, <4>1 DEF Has
      <4>3. QED
        BY <3>1, <4>2
    <3>3. CASE job[j].pc /= "meta"
      <4>1. Has(j, p) = a + b
        BY <3>1, <3>3 DEF Has
      <4>2. QED
        BY <3>1, <4>1
    <3>4. QED
      BY <3>2, <3>3
  <2>7. \A j \in Jobs : g[j] \in Nat /\ g[j] <= h[j]
    BY <2>2, <2>3, <2>4, <2>5, <2>6
  <2>8. IsCount(g)
    BY <2>2, <2>4, <2>7 DEF IsCount
  <2>9. Total(g) <= Total(h) /\ Total(g) \in Nat
    BY <2>2, <2>4, <2>7, <2>8, TotalShrinks, PointsAreFinite
  <2>10. QED
    BY <2>1, <2>9 DEF Held
<1>9. PagesStay'
  <2> SUFFICES ASSUME NEW p
               PROVE  /\ p.body \in Titled => Copies(p, handled') <= Held(p)'
                      /\ Held(p)' <= Copies(p, handled') + Copies(p, earlier')
    BY DEF PagesStay
  <2>1. Copies(p, handled') = 0
    BY <1>1, SmallBags
  <2>2. PICK a \in Nat, b \in Nat, c \in Nat, d \in Nat :
          a = Copies(p, handled) /\ b = Held(p) /\ c = Copies(p, earlier) /\ d = Held(p)'
    BY <1>8, HoldingsAreCounts DEF KInv, Copies, IsHistory
  <2>3. b <= a + c /\ d <= b
    BY <1>8, <2>2 DEF KInv, PagesStay
  <2>4. Copies(p, earlier') = c + a
    BY <1>7, <2>2
  <2>5. QED
    BY <2>1, <2>2, <2>3, <2>4
<1>10. QED
  BY <1>4, <1>6, <1>7, <1>9 DEF KInv

\* When a run is done all that is held is in the index that is left.
LEMMA DoneHoldsAll ==
  ASSUME KInv, NEW j \in Jobs, Done(j), NEW page
  PROVE  /\ Held(page) = Copies(page, Indexed(j)) /\ IsSegment(Indexed(j))
         /\ Copies(page, Indexed(j)) \in Nat
<1> USE DEF pc
<1>1. \A k \in Jobs \ {j} : job[k].pc = "merged"
  BY DEF KInv, Apart, Structure, Done, OnlyOneLeft
<1>2. ASSUME NEW k \in Jobs \ {j} PROVE Has(k, page) = 0
  <2>1. disk[k].segments = <<>> /\ job[k].added = EmptyBag /\ job[k].pc /= "meta"
    BY <1>1 DEF KInv, Apart, Structure
  <2>2. QED
    BY <2>1, NoSegments, SmallBags DEF Has
<1>3. AreSegments(disk[j].segments) /\ job[j].added = EmptyBag /\ job[j].pc = "done"
  BY DEF KInv, Apart, Structure, Done
<1>4. CopiesAmong(page, disk[j].segments) \in Nat
  BY HoldingsAreCounts DEF KInv
<1>5. Has(j, page) = CopiesAmong(page, disk[j].segments)
  BY <1>3, <1>4, SmallBags DEF Has
<1>6. PICK h : h = Holdings(page)
  OBVIOUS
<1>7. IsCount(h) /\ DOMAIN h = Jobs /\ \A k \in Jobs : h[k] = Has(k, page)
  BY <1>6, HoldingsAreCounts DEF KInv
<1>8. Total(h) = Total(But(h, j)) + h[j]
  BY <1>7, TotalSplits
<1>9. Total(But(h, j)) = 0
  <2>1. \A k \in DOMAIN But(h, j) : But(h, j)[k] = 0
    BY <1>2, <1>7 DEF But
  <2>2. QED
    BY <2>1, TotalOfNone
<1>10. Held(page) = CopiesAmong(page, disk[j].segments)
  BY <1>4, <1>5, <1>6, <1>7, <1>8, <1>9 DEF Held
<1>11. /\ IsSegment(Indexed(j))
       /\ Copies(page, Indexed(j)) = CopiesAmong(page, disk[j].segments)
  BY <1>3, SegmentsAre, PagesInFacts DEF Indexed
<1>12. QED
  BY <1>4, <1>10, <1>11

LEMMA StayingIsThere ==
  ASSUME KInv
  PROVE  EveryPageIsThere
<1> SUFFICES ASSUME NEW j \in Jobs, Done(j)
             PROVE  /\ Searchable(handled) \sqsubseteq Indexed(j)
                    /\ Indexed(j) \sqsubseteq Searchable(handled (+) earlier)
  BY DEF EveryPageIsThere
<1>1. PICK index, all : index = Indexed(j) /\ all = handled (+) earlier
  OBVIOUS
<1>2. \A p : /\ p.body \in Titled => Copies(p, handled) <= Copies(p, index)
             /\ Copies(p, index) <= Copies(p, handled) + Copies(p, earlier)
             /\ Copies(p, index) \in Nat
  BY <1>1, DoneHoldsAll DEF KInv, PagesStay
<1>3. \A p \in DOMAIN index : index[p] \in Nat \ {0} /\ p.body \in Titled
  BY <1>1, DoneHoldsAll DEF IsSegment
<1>4. Searchable(handled) \sqsubseteq index
  <2>1. ASSUME NEW p \in DOMAIN handled, p.body \in Titled
        PROVE  p \in DOMAIN index /\ handled[p] <= index[p]
    <3>1. handled[p] \in Nat \ {0} /\ Copies(p, handled) = handled[p]
      BY DEF KInv, IsHistory, Copies
    <3>2. Copies(p, index) /= 0
      BY <1>2, <2>1, <3>1
    <3>3. p \in DOMAIN index /\ Copies(p, index) = index[p]
      BY <3>2 DEF Copies
    <3>4. QED
      BY <1>2, <2>1, <3>1, <3>3
  <2>2. QED
    BY <2>1 DEF Searchable, \sqsubseteq
<1>5. index \sqsubseteq Searchable(all)
  <2>1. ASSUME NEW p \in DOMAIN index
        PROVE  p \in DOMAIN all /\ index[p] <= all[p]
    <3>1. /\ Copies(p, all) = Copies(p, handled) + Copies(p, earlier)
          /\ Copies(p, handled) \in Nat /\ Copies(p, earlier) \in Nat
      BY <1>1, HistoriesAdd DEF KInv, Copies, IsHistory
    <3>2. Copies(p, index) = index[p] /\ index[p] \in Nat \ {0}
      BY <1>3 DEF Copies
    <3>3. Copies(p, all) /= 0 /\ index[p] <= Copies(p, all)
      BY <1>2, <3>1, <3>2
    <3>4. p \in DOMAIN all /\ Copies(p, all) = all[p]
      BY <3>3 DEF Copies
    <3>5. QED
      BY <3>3, <3>4
  <2>2. QED
    BY <1>3, <2>1 DEF Searchable, \sqsubseteq
<1>6. QED
  BY <1>1, <1>4, <1>5

LEMMA StayStep == PInv /\ KInv /\ [Next]_vars => PInv' /\ KInv'
<1> SUFFICES ASSUME PInv, KInv, [Next]_vars PROVE KInv'
  BY PanicStep
<1>1. CASE UNCHANGED vars
  <2>1. UNCHANGED <<plan, disk, job, handled, earlier>>
    BY <1>1 DEF vars
  <2>2. Jobs' = Jobs /\ Apart'
    <3>1. Jobs' = Jobs /\ plan' = plan /\ Fields'
      BY <2>1 DEF Jobs, Apart, Fields, KInv
    <3>2. \A j \in Jobs : OnlyOneLeft(j)' <=> OnlyOneLeft(j)
      BY <2>1 DEF OnlyOneLeft, Jobs, pc
    <3>3. \A j \in Jobs : Other(j)' = Other(j)
      BY <2>1 DEF Other
    <3>4. ASSUME NEW j \in Jobs, Structure(j) PROVE Structure(j)'
      BY <2>1, <3>2, <3>3, <3>4 DEF Structure, pc
    <3>5. QED
      BY <3>1, <3>4 DEF Apart, KInv
  <2>3. \A page : \A j \in Jobs : Has(j, page)' = Has(j, page)
    BY <2>1 DEF Has, pc
  <2>4. QED
    BY <2>1, <2>2, <2>3, SameStays
<1>2. QED
  BY <1>1, JobStepStays, MergeStepStays, FinishRunStays, RunAgainStays DEF Next, Work

\* However many jobs there are and however their indexes are merged, each page
\* of a run with a title is in the finished index once for each time it was
\* handled, and what is there more often is of earlier runs.
THEOREM NoPageIsLost == Spec => []EveryPageIsThere
<1>1. Init => PInv /\ KInv
  BY PanicInit, StayInit
<1>2. PInv /\ KInv /\ [Next]_vars => PInv' /\ KInv'
  BY StayStep
<1>3. PInv /\ KInv => EveryPageIsThere
  BY StayingIsThere
<1>4. QED
  BY <1>1, <1>2, <1>3, PTL DEF Spec

----------------------------------------------------------------------------
\* Sums of functions that differ by n in one place, or in two.
LEMMA SumGrows ==
  ASSUME NEW c, NEW d, IsCount(c), NEW i \in DOMAIN c, NEW n \in Nat,
         Beside(c, d, i), d[i] = c[i] + n
  PROVE  IsCount(d) /\ Total(d) = Total(c) + n
<1>1. c[i] \in Nat /\ d[i] \in Nat
  BY DEF IsCount
<1>2. /\ IsCount(d) /\ Total(d) \in Nat /\ Total(c) \in Nat
      /\ Total(d) + c[i] = Total(c) + d[i]
  BY <1>1, TotalChanges
<1>3. PICK a \in Nat, b \in Nat, x \in Nat : a = Total(d) /\ b = Total(c) /\ x = c[i]
  BY <1>1, <1>2
<1>4. a + x = b + (x + n)
  BY <1>2, <1>3
<1>5. a = b + n
  BY <1>4
<1>6. QED
  BY <1>2, <1>3, <1>5

LEMMA SumMoves ==
  ASSUME NEW c, NEW d, IsCount(c), DOMAIN d = DOMAIN c,
         NEW i \in DOMAIN c, NEW k \in DOMAIN c, i /= k, NEW n \in Nat,
         \A j \in DOMAIN c \ {i, k} : d[j] = c[j],
         d[i] = c[i] + n, d[k] \in Nat, c[k] = d[k] + n
  PROVE  Total(d) = Total(c)
<1>1. PICK m : m = [d EXCEPT ![k] = d[k] + n]
  OBVIOUS
<1>2. /\ DOMAIN m = DOMAIN c /\ m[k] = c[k] /\ m[i] = c[i] + n
      /\ \A j \in DOMAIN c \ {i} : m[j] = c[j]
      /\ \A j \in DOMAIN m \ {k} : d[j] = m[j]
  BY <1>1
<1>3. IsCount(m) /\ Total(m) = Total(c) + n
  BY <1>2, SumGrows DEF Beside
<1>4. /\ m[k] = d[k] + n /\ Beside(d, m, k)
  BY <1>2 DEF Beside
<1>5. IsCount(d)
  BY <1>2, <1>3 DEF IsCount
<1>6. Total(m) = Total(d) + n
  BY <1>4, <1>5, SumGrows
<1>7. PICK a \in Nat, b \in Nat : a = Total(d) /\ b = Total(c)
  BY <1>5, PointsAreFinite
<1>8. QED
  BY <1>3, <1>6, <1>7

----------------------------------------------------------------------------
\* Dictionaries.
IsWords(bag) == /\ IsFiniteSet(DOMAIN bag)
                /\ \A w \in DOMAIN bag : w \in Int /\ bag[w] \in Nat \ {0}

LEMMA WordsAdd ==
  ASSUME NEW a, NEW b, IsWords(a), IsWords(b)
  PROVE  /\ IsWords(a (+) b)
         /\ \A w : /\ Copies(w, a) \in Nat /\ Copies(w, b) \in Nat
                   /\ Copies(w, a (+) b) = Copies(w, a) + Copies(w, b)
         /\ DOMAIN (a (+) b) = DOMAIN a \cup DOMAIN b
<1>1. IsHistory(a) /\ IsHistory(b)
  BY DEF IsWords, IsHistory
<1>2. /\ IsHistory(a (+) b)
      /\ \A w : Copies(w, a (+) b) = Copies(w, a) + Copies(w, b)
      /\ DOMAIN (a (+) b) = DOMAIN a \cup DOMAIN b
  BY <1>1, HistoriesAdd
<1>3. IsFiniteSet(DOMAIN a \cup DOMAIN b)
  BY FS_Union DEF IsWords
<1>4. \A w \in DOMAIN a \cup DOMAIN b : w \in Int
  BY DEF IsWords
<1>5. \A w : Copies(w, a) \in Nat /\ Copies(w, b) \in Nat
  BY DEF Copies, IsWords
<1>6. IsWords(a (+) b)
  BY <1>2, <1>3, <1>4 DEF IsWords, IsHistory
<1>7. QED
  BY <1>2, <1>5, <1>6

LEMMA NoWords == IsWords(EmptyBag) /\ IsHistory(EmptyBag) /\ \A w : Copies(w, EmptyBag) = 0
<1>1. DOMAIN EmptyBag = {}
  BY DEF EmptyBag, SetToBag
<1>2. QED
  BY <1>1, FS_EmptySet DEF IsWords, IsHistory, Copies

\* The words of each page are a dictionary.
LEMMA WordsOnAreWords == \A page : IsWords(WordsOn(page))
  BY NoWords, IndexingAssumption DEF WordsOn, IsWords

\* Pruning takes words away and leaves the others as they are; of no more words
\* than a dictionary keeps it takes none away.
LEMMA PrunedFacts ==
  ASSUME NEW words, IsWords(words)
  PROVE  /\ IsWords(Pruned(words)) /\ DOMAIN Pruned(words) \subseteq DOMAIN words
         /\ \A w : Copies(w, Pruned(words)) <= Copies(w, words)
         /\ Cardinality(DOMAIN words) <= TopN => \A w : Copies(w, Pruned(words)) = Copies(w, words)
<1> DEFINE Before(v, w) == words[v] > words[w] \/ (words[v] = words[w] /\ v < w)
           Rarer(w) == {v \in DOMAIN words : Before(v, w)}
<1>1. PICK kept : kept = {w \in DOMAIN words : Cardinality(Rarer(w)) < TopN}
  OBVIOUS
<1>2. Pruned(words) = [w \in kept |-> words[w]]
  BY <1>1 DEF Pruned
<1>3. PICK p : p = Pruned(words)
  OBVIOUS
<1>4. kept \subseteq DOMAIN words
  BY <1>1
<1>5. DOMAIN p = kept /\ \A w \in kept : p[w] = words[w]
  BY <1>2, <1>3
<1>6. IsWords(p)
  <2>1. IsFiniteSet(kept)
    BY <1>4, FS_Subset DEF IsWords
  <2>2. QED
    BY <1>4, <1>5, <2>1 DEF IsWords
<1>7. \A w : Copies(w, words) \in Nat
  BY DEF Copies, IsWords
<1>8. \A w : Copies(w, p) = IF w \in kept THEN Copies(w, words) ELSE 0
  BY <1>4, <1>5 DEF Copies
<1>9. ASSUME Cardinality(DOMAIN words) <= TopN, NEW w \in DOMAIN words PROVE w \in kept
  <2>1. ~Before(w, w)
    <3>1. w \in Int /\ words[w] \in Nat
      BY DEF IsWords
    <3>2. QED
      BY <3>1
  <2>2. Rarer(w) \subseteq DOMAIN words \ {w}
    BY <2>1
  <2> HIDE DEF Before, Rarer
  <2>3. PICK D, R : D = DOMAIN words /\ R = Rarer(w)
    OBVIOUS
  <2>4. IsFiniteSet(D) /\ w \in D /\ R \subseteq D \ {w}
    BY <2>2, <2>3 DEF IsWords
  <2>5. IsFiniteSet(D \ {w}) /\ Cardinality(D \ {w}) = Cardinality(D) - 1
    BY <2>4, FS_RemoveElement
  <2>6. Cardinality(R) <= Cardinality(D \ {w}) /\ IsFiniteSet(R)
    BY <2>4, <2>5, FS_Subset
  <2>7. PICK r \in Nat, d \in Nat : r = Cardinality(R) /\ d = Cardinality(D)
    BY <2>4, <2>6, FS_CardinalityType
  <2>8. r <= d - 1 /\ d <= TopN
    BY <1>9, <2>3, <2>5, <2>6, <2>7
  <2>9. r < TopN
    BY <2>8, IndexDataAssumption
  <2>10. QED
    BY <1>1, <2>3, <2>7, <2>9
<1>10. ASSUME Cardinality(DOMAIN words) <= TopN, NEW w PROVE Copies(w, p) = Copies(w, words)
  BY <1>8, <1>9, <1>10 DEF Copies
<1>11. \A w : Copies(w, p) <= Copies(w, words)
  BY <1>7, <1>8
<1>12. QED
  BY <1>3, <1>4, <1>5, <1>6, <1>10, <1>11

----------------------------------------------------------------------------
\* One page more in what was handled.
OneMore(pages, more, page) ==
  /\ DOMAIN more = DOMAIN pages \cup {page}
  /\ \A p \in DOMAIN more : more[p] = Copies(p, pages) + (IF p = page THEN 1 ELSE 0)

IsHandled(pages) == IsHistory(pages) /\ IsFiniteSet(DOMAIN pages)

LEMMA OneMorePage ==
  ASSUME NEW pages, IsHandled(pages), NEW page
  PROVE  /\ OneMore(pages, pages (+) SetToBag({page}), page)
         /\ IsHandled(pages (+) SetToBag({page}))
<1>1. PICK one, more : one = SetToBag({page}) /\ more = pages (+) one
  OBVIOUS
<1>2. DOMAIN one = {page} /\ one[page] = 1
  BY <1>1 DEF SetToBag
<1>3. /\ DOMAIN more = DOMAIN pages \cup {page}
      /\ \A p \in DOMAIN more : more[p] = Copies(p, pages) + Copies(p, one)
  BY <1>1, <1>2 DEF (+), Copies
<1>4. \A p : Copies(p, one) = IF p = page THEN 1 ELSE 0
  BY <1>2 DEF Copies
<1>5. IsFiniteSet(DOMAIN pages \cup {page})
  BY FS_AddElement DEF IsHandled
<1>6. IsHistory(more)
  BY <1>1, HistoryFacts DEF IsHandled
<1>7. QED
  BY <1>1, <1>3, <1>4, <1>5, <1>6 DEF OneMore, IsHandled

LEMMA OneMoreWith ==
  ASSUME NEW pages, IsHandled(pages), NEW page, NEW more, OneMore(pages, more, page), NEW v
  PROVE  /\ PagesWith(v, pages) \in Nat
         /\ PagesWith(v, more) = PagesWith(v, pages) + (IF RegionOf[page.body] = v THEN 1 ELSE 0)
<1> DEFINE Of(bag) == {p \in DOMAIN bag : RegionOf[p.body] = v}
<1>1. PICK c, d, e :
        /\ c = [p \in Of(pages) |-> pages[p]]
        /\ d = [p \in Of(more) |-> more[p]]
        /\ e = [p \in Of(more) |-> Copies(p, pages)]
  OBVIOUS
<1>2. PagesWith(v, pages) = Total(c) /\ PagesWith(v, more) = Total(d)
  BY <1>1 DEF PagesWith
<1>3. Of(pages) \subseteq DOMAIN pages /\ Of(more) \subseteq DOMAIN pages \cup {page}
  BY DEF OneMore
<1>4. IsFiniteSet(DOMAIN pages \cup {page}) /\ IsFiniteSet(DOMAIN pages)
  BY FS_AddElement DEF IsHandled
<1>5. IsCount(c) /\ IsCount(e)
  <2>1. IsFiniteSet(Of(pages)) /\ IsFiniteSet(Of(more))
    BY <1>3, <1>4, FS_Subset
  <2>2. \A p : Copies(p, pages) \in Nat
    BY DEF Copies, IsHandled, IsHistory
  <2>3. \A p \in Of(pages) : pages[p] \in Nat
    BY DEF IsHandled, IsHistory
  <2>4. DOMAIN c = Of(pages) /\ DOMAIN e = Of(more)
    BY <1>1
  <2>5. (\A p \in Of(pages) : c[p] = pages[p]) /\ (\A p \in Of(more) : e[p] = Copies(p, pages))
    BY <1>1
  <2> HIDE DEF Of
  <2>6. QED
    BY <2>1, <2>2, <2>3, <2>4, <2>5 DEF IsCount
<1>6. Total(c) = Total(e)
  <2>1. DOMAIN c \subseteq DOMAIN e
    BY <1>1 DEF OneMore
  <2>2. \A p \in DOMAIN c : c[p] = e[p]
    BY <1>1, <2>1 DEF Copies
  <2>3. \A p \in DOMAIN e \ DOMAIN c : e[p] = 0
    BY <1>1 DEF Copies
  <2>4. QED
    BY <2>1, <2>2, <2>3, TotalWithoutZeros
<1>7. CASE RegionOf[page.body] = v
  <2>1. page \in DOMAIN e /\ DOMAIN d = DOMAIN e
    BY <1>1, <1>7 DEF OneMore
  <2>2. \A p \in DOMAIN e : d[p] = e[p] + (IF p = page THEN 1 ELSE 0)
    BY <1>1 DEF OneMore
  <2>3. d[page] = e[page] + 1 /\ Beside(e, d, page)
    <3>1. \A p \in DOMAIN e : e[p] \in Nat
      BY <1>5 DEF IsCount
    <3>2. QED
      BY <2>1, <2>2, <3>1 DEF Beside
  <2>4. Total(d) = Total(e) + 1
    BY <1>5, <2>1, <2>3, SumGrows
  <2>5. QED
    BY <1>2, <1>5, <1>6, <1>7, <2>4, PointsAreFinite
<1>8. CASE RegionOf[page.body] /= v
  <2>1. DOMAIN d = DOMAIN e /\ \A p \in DOMAIN e : p /= page
    BY <1>1, <1>8
  <2>2. \A p \in DOMAIN e : d[p] = e[p]
    <3> SUFFICES ASSUME NEW p \in DOMAIN e PROVE d[p] = e[p]
      OBVIOUS
    <3>1. p \in DOMAIN more /\ p /= page /\ d[p] = more[p] /\ e[p] = Copies(p, pages)
      BY <1>1, <2>1
    <3>2. e[p] \in Nat
      BY <1>5 DEF IsCount
    <3>3. QED
      BY <3>1, <3>2 DEF OneMore
  <2>3. Total(d) = Total(e)
    BY <2>1, <2>2, TotalSame
  <2>4. Total(d) \in Nat
    BY <1>5, <2>3, PointsAreFinite
  <2>5. QED
    BY <1>2, <1>6, <1>8, <2>3, <2>4
<1>9. QED
  BY <1>7, <1>8

LEMMA OneMoreOccurs ==
  ASSUME NEW pages, IsHandled(pages), NEW page, NEW more, OneMore(pages, more, page), NEW w
  PROVE  /\ Occurrences(w, pages) \in Nat /\ Copies(w, WordsOn(page)) \in Nat
         /\ Occurrences(w, more) = Occurrences(w, pages) + Copies(w, WordsOn(page))
<1> DEFINE Of(p) == Copies(w, WordsOn(p))
<1>0. \A p : Of(p) \in Nat
  BY WordsOnAreWords DEF Copies, IsWords
<1> HIDE DEF Of
<1>1. PICK c, d, e :
        /\ c = [p \in DOMAIN pages |-> pages[p] * Of(p)]
        /\ d = [p \in DOMAIN more |-> more[p] * Of(p)]
        /\ e = [p \in DOMAIN more |-> Copies(p, pages) * Of(p)]
  OBVIOUS
<1>2. Occurrences(w, pages) = Total(c) /\ Occurrences(w, more) = Total(d)
  BY <1>1 DEF Occurrences, Of
<1>3. DOMAIN more = DOMAIN pages \cup {page} /\ page \in DOMAIN more
  BY DEF OneMore
<1>4. \A p : Copies(p, pages) \in Nat
  BY DEF Copies, IsHandled, IsHistory
<1>5. \A m, n \in Nat : m * n \in Nat /\ (m + 1) * n = m * n + n /\ 0 * n = 0
  OBVIOUS
<1>6. IsCount(e)
  <2>1. IsFiniteSet(DOMAIN e)
    BY <1>1, <1>3, FS_AddElement DEF IsHandled
  <2>2. \A p \in DOMAIN e : e[p] \in Nat
    BY <1>0, <1>1, <1>4, <1>5
  <2>3. QED
    BY <2>1, <2>2 DEF IsCount
<1>7. Total(c) = Total(e)
  <2>1. DOMAIN c \subseteq DOMAIN e
    BY <1>1, <1>3
  <2>2. \A p \in DOMAIN c : c[p] = e[p]
    BY <1>1, <2>1 DEF Copies
  <2>3. \A p \in DOMAIN e \ DOMAIN c : e[p] = 0
    <3>1. \A p \in DOMAIN e \ DOMAIN c : e[p] = Copies(p, pages) * Of(p) /\ Copies(p, pages) = 0
      BY <1>1 DEF Copies
    <3>2. QED
      BY <1>0, <1>5, <3>1
  <2>4. QED
    BY <2>1, <2>2, <2>3, TotalWithoutZeros
<1>8. page \in DOMAIN e /\ Beside(e, d, page) /\ d[page] = e[page] + Of(page)
  <2>1. DOMAIN d = DOMAIN more /\ DOMAIN e = DOMAIN more
    BY <1>1
  <2>2. \A p \in DOMAIN more \ {page} : more[p] = Copies(p, pages)
    BY <1>4 DEF OneMore
  <2>3. more[page] = Copies(page, pages) + 1
    BY <1>3, <1>4 DEF OneMore
  <2>4. \A p \in DOMAIN more \ {page} : d[p] = e[p]
    BY <1>1, <2>2
  <2>5. d[page] = (Copies(page, pages) + 1) * Of(page) /\ e[page] = Copies(page, pages) * Of(page)
    BY <1>1, <1>3, <2>3
  <2>6. d[page] = e[page] + Of(page)
    BY <1>0, <1>4, <1>5, <2>5
  <2>7. QED
    BY <1>3, <2>1, <2>4, <2>6 DEF Beside
<1>9. Total(d) = Total(e) + Of(page)
  BY <1>0, <1>6, <1>8, SumGrows
<1>10. Total(e) \in Nat
  BY <1>6, PointsAreFinite
<1>11. QED
  BY <1>0, <1>2, <1>7, <1>9, <1>10 DEF Of

----------------------------------------------------------------------------
\* While a job inserts pages its regions grow in memory; after that, and
\* before, they are those on the disk.
Open == {"files", "pages", "words committed", "pages committed", "panicked"}
RegionsOf(j) == IF pc(j) \in Open THEN job[j].regions ELSE disk[j].regions
RegionHoldings(v) == [j \in Jobs |-> Copies(v, RegionsOf(j))]
RegionsIn(v) == Total(RegionHoldings(v))

\* The words of the other index are still there when they are in the dictionary
\* of the one that takes it in.
Spending == {"regions", "hosts", "remove"}
Spent(k) == \E i \in Jobs : pc(i) \in Spending /\ job[i].with = k
WordsAt(w, j) == IF Spent(j) THEN 0 ELSE Copies(w, disk[j].words) + Copies(w, job[j].words)
WordHoldings(w) == [j \in Jobs |-> WordsAt(w, j)]
WordsIn(w) == Total(WordHoldings(w))

AllWords == UNION {DOMAIN WordsOn(page) : page \in DOMAIN handled}

RegionsAgree == \A v : v /= Unknown => RegionsIn(v) = PagesWith(v, handled)
WordsAgree ==
  \A w : /\ WordsIn(w) <= Occurrences(w, handled)
         /\ Cardinality(AllWords) <= TopN => WordsIn(w) = Occurrences(w, handled)

HostsHere(page) == HostOf[page.url] = Unknown \/ \E j \in Jobs : HostOf[page.url] \in disk[j].hosts
HostsAgree == \A page \in DOMAIN handled \cup DOMAIN earlier : HostsHere(page)

\* Nothing of the other's regions is left there then.
Taking == {"hosts", "remove"}

IsRegions(bag) == IsHistory(bag) /\ Unknown \notin DOMAIN bag

CounterFields ==
  \A j \in Jobs : /\ {"words", "regions", "hosts"} \subseteq DOMAIN disk[j]
                  /\ {"words", "regions"} \subseteq DOMAIN job[j]

Counters(j) ==
  /\ IsRegions(disk[j].regions) /\ IsRegions(job[j].regions)
  /\ IsWords(disk[j].words) /\ IsWords(job[j].words)
  /\ pc(j) = "files" => job[j].regions = disk[j].regions
  /\ pc(j) \notin {"pages", "panicked"} => job[j].words = EmptyBag
  /\ pc(j) = "remove" => Other(j).hosts \subseteq disk[j].hosts
  /\ pc(j) \in Taking => Other(j).regions = EmptyBag
  /\ pc(j) = "merged" => /\ disk[j].hosts = {}
                         /\ disk[j].words = EmptyBag /\ disk[j].regions = EmptyBag

CInv ==
  /\ CounterFields /\ \A j \in Jobs : Counters(j)
  /\ runs \in Nat \ {0} /\ IsFiniteSet(DOMAIN handled)
  /\ HostsAgree
  /\ runs = 1 => RegionsAgree /\ WordsAgree

LEMMA NoRegions == IsRegions(EmptyBag)
<1>1. DOMAIN EmptyBag = {}
  BY DEF EmptyBag, SetToBag
<1>2. QED
  BY <1>1, NoWords DEF IsRegions

LEMMA RegionsAdd ==
  ASSUME NEW a, NEW b, IsRegions(a), IsRegions(b)
  PROVE  /\ IsRegions(a (+) b)
         /\ \A v : /\ Copies(v, a) \in Nat /\ Copies(v, b) \in Nat
                   /\ Copies(v, a (+) b) = Copies(v, a) + Copies(v, b)
<1>1. /\ IsHistory(a (+) b) /\ DOMAIN (a (+) b) = DOMAIN a \cup DOMAIN b
      /\ \A v : Copies(v, a (+) b) = Copies(v, a) + Copies(v, b)
  BY HistoriesAdd DEF IsRegions
<1>2. \A v : Copies(v, a) \in Nat /\ Copies(v, b) \in Nat
  BY DEF Copies, IsRegions, IsHistory
<1>3. QED
  BY <1>1, <1>2 DEF IsRegions

\* One value is counted when it is known.
LEMMA KnownRegion ==
  ASSUME NEW x
  PROVE  /\ IsRegions(Known({x}))
         /\ \A v : v /= Unknown => Copies(v, Known({x})) = IF x = v THEN 1 ELSE 0
<1>1. PICK b : b = Known({x})
  OBVIOUS
<1>2. DOMAIN b = {x} \ {Unknown} /\ \A v \in {x} \ {Unknown} : b[v] = 1
  BY <1>1 DEF Known, SetToBag
<1>3. IsRegions(b)
  BY <1>2 DEF IsRegions, IsHistory
<1>4. ASSUME NEW v, v /= Unknown PROVE Copies(v, b) = IF x = v THEN 1 ELSE 0
  BY <1>2, <1>4 DEF Copies
<1>5. QED
  BY <1>1, <1>3, <1>4

LEMMA CountersAreCounts ==
  ASSUME KInv, CInv
  PROVE  /\ \A v : /\ IsCount(RegionHoldings(v)) /\ DOMAIN RegionHoldings(v) = Jobs
                   /\ \A j \in Jobs : /\ RegionHoldings(v)[j] = Copies(v, RegionsOf(j))
                                      /\ Copies(v, RegionsOf(j)) \in Nat
         /\ \A w : /\ IsCount(WordHoldings(w)) /\ DOMAIN WordHoldings(w) = Jobs
                   /\ \A j \in Jobs : /\ WordHoldings(w)[j] = WordsAt(w, j)
                                      /\ WordsAt(w, j) \in Nat
                                      /\ Copies(w, disk[j].words) \in Nat
                                      /\ Copies(w, job[j].words) \in Nat
<1>1. IsFiniteSet(Jobs)
  BY FiniteJobs DEF KInv, Apart
<1>2. ASSUME NEW v, NEW j \in Jobs PROVE Copies(v, RegionsOf(j)) \in Nat
  <2>1. IsRegions(RegionsOf(j))
    BY DEF CInv, Counters, RegionsOf
  <2>2. QED
    BY <2>1 DEF Copies, IsRegions, IsHistory
<1>3. ASSUME NEW w, NEW j \in Jobs
      PROVE  /\ Copies(w, disk[j].words) \in Nat /\ Copies(w, job[j].words) \in Nat
             /\ WordsAt(w, j) \in Nat
  <2>1. IsWords(disk[j].words) /\ IsWords(job[j].words)
    BY DEF CInv, Counters
  <2>2. Copies(w, disk[j].words) \in Nat /\ Copies(w, job[j].words) \in Nat
    BY <2>1 DEF Copies, IsWords
  <2>3. QED
    BY <2>2 DEF WordsAt
<1>4. ASSUME NEW v
      PROVE  /\ IsCount(RegionHoldings(v)) /\ DOMAIN RegionHoldings(v) = Jobs
             /\ \A j \in Jobs : RegionHoldings(v)[j] = Copies(v, RegionsOf(j))
  <2>1. DOMAIN RegionHoldings(v) = Jobs /\ \A j \in Jobs : RegionHoldings(v)[j] = Copies(v, RegionsOf(j))
    BY DEF RegionHoldings
  <2>2. QED
    BY <1>1, <1>2, <2>1 DEF IsCount
<1>5. ASSUME NEW w
      PROVE  /\ IsCount(WordHoldings(w)) /\ DOMAIN WordHoldings(w) = Jobs
             /\ \A j \in Jobs : WordHoldings(w)[j] = WordsAt(w, j)
  <2>1. DOMAIN WordHoldings(w) = Jobs /\ \A j \in Jobs : WordHoldings(w)[j] = WordsAt(w, j)
    BY DEF WordHoldings
  <2>2. QED
    BY <1>1, <1>3, <2>1 DEF IsCount
<1>6. QED
  BY <1>2, <1>3, <1>4, <1>5

LEMMA CountInit == Init => CInv
<1> SUFFICES ASSUME Init PROVE CInv
  OBVIOUS
<1>1. /\ handled = EmptyBag /\ earlier = EmptyBag /\ runs = 1
      /\ DOMAIN EmptyBag = {}
  BY DEF Init, EmptyBag, SetToBag
<1>2. ASSUME NEW j \in Jobs
      PROVE  /\ {"words", "regions", "hosts"} \subseteq DOMAIN disk[j]
             /\ {"words", "regions"} \subseteq DOMAIN job[j]
             /\ job[j].pc = "new" /\ job[j].words = EmptyBag /\ job[j].regions = EmptyBag
             /\ disk[j].words = EmptyBag /\ disk[j].regions = EmptyBag
  BY <1>2 DEF Init, Waiting, NewIndex
<1>3. CounterFields /\ \A j \in Jobs : Counters(j)
  BY <1>2, NoRegions, NoWords DEF CounterFields, Counters, Taking, pc
<1>4. IsFiniteSet(DOMAIN handled) /\ HostsAgree
  BY <1>1, FS_EmptySet DEF HostsAgree
<1>5. RegionsAgree
  <2> SUFFICES ASSUME NEW v PROVE RegionsIn(v) = PagesWith(v, handled)
    BY DEF RegionsAgree
  <2>1. RegionsIn(v) = 0
    <3>1. \A j \in Jobs : Copies(v, RegionsOf(j)) = 0
      BY <1>2, NoWords DEF RegionsOf
    <3>2. QED
      BY <3>1, TotalOfNone DEF RegionsIn, RegionHoldings
  <2>2. PagesWith(v, handled) = 0
    <3>1. PICK c : c = [page \in {p \in DOMAIN handled : RegionOf[p.body] = v} |-> handled[page]]
      OBVIOUS
    <3>2. DOMAIN c = {}
      BY <1>1, <3>1
    <3>3. QED
      BY <3>1, <3>2, TotalOfNone DEF PagesWith
  <2>3. QED
    BY <2>1, <2>2
<1>6. WordsAgree
  <2> SUFFICES ASSUME NEW w PROVE WordsIn(w) = 0 /\ Occurrences(w, handled) = 0
    BY DEF WordsAgree
  <2>1. WordsIn(w) = 0
    <3>1. \A j \in Jobs : WordsAt(w, j) = 0
      BY <1>2, NoWords DEF WordsAt
    <3>2. QED
      BY <3>1, TotalOfNone DEF WordsIn, WordHoldings
  <2>2. Occurrences(w, handled) = 0
    <3>1. PICK c : c = [page \in DOMAIN handled |-> handled[page] * Copies(w, WordsOn(page))]
      OBVIOUS
    <3>2. DOMAIN c = {}
      BY <1>1, <3>1
    <3>3. QED
      BY <3>1, <3>2, TotalOfNone DEF Occurrences
  <2>3. QED
    BY <2>1, <2>2
<1>7. QED
  BY <1>1, <1>3, <1>4, <1>5, <1>6 DEF CInv

----------------------------------------------------------------------------
\* What a step leaves as it is.
LEMMA SameHosts ==
  ASSUME CInv, Jobs' = Jobs, UNCHANGED <<handled, earlier>>,
         \A j \in Jobs : disk[j].hosts \subseteq disk'[j].hosts
  PROVE  HostsAgree'
BY DEF CInv, HostsAgree, HostsHere

LEMMA SameRegions ==
  ASSUME RegionsAgree, Jobs' = Jobs, handled' = handled,
         \A j \in Jobs : RegionsOf(j)' = RegionsOf(j)
  PROVE  RegionsAgree'
<1> SUFFICES ASSUME NEW v, v /= Unknown PROVE RegionsIn(v)' = PagesWith(v, handled')
  BY DEF RegionsAgree
<1>1. PICK c, d : c = RegionHoldings(v) /\ d = RegionHoldings(v)'
  OBVIOUS
<1>2. DOMAIN c = Jobs /\ DOMAIN d = Jobs /\ \A j \in Jobs : d[j] = c[j]
  BY <1>1 DEF RegionHoldings
<1>3. Total(d) = Total(c)
  BY <1>2, TotalSame
<1>4. QED
  BY <1>1, <1>3 DEF RegionsAgree, RegionsIn

LEMMA SameWords ==
  ASSUME WordsAgree, Jobs' = Jobs, handled' = handled,
         \A w : \A j \in Jobs : WordsAt(w, j)' = WordsAt(w, j)
  PROVE  WordsAgree'
<1>1. ASSUME NEW w PROVE WordsIn(w)' = WordsIn(w)
  <2>1. PICK c, d : c = WordHoldings(w) /\ d = WordHoldings(w)'
    OBVIOUS
  <2>2. DOMAIN c = Jobs /\ DOMAIN d = Jobs /\ \A j \in Jobs : d[j] = c[j]
    BY <2>1 DEF WordHoldings
  <2>3. Total(d) = Total(c)
    BY <2>2, TotalSame
  <2>4. QED
    BY <2>1, <2>3 DEF WordsIn
<1>2. AllWords' = AllWords
  BY DEF AllWords
<1>3. QED
  BY <1>1, <1>2 DEF WordsAgree

\* The counters of a job stay, and so does what counts of where it is.
CountsStay(k) ==
  /\ {"words", "regions", "hosts"} \subseteq DOMAIN disk'[k]
  /\ {"words", "regions"} \subseteq DOMAIN job'[k]
  /\ disk'[k].words = disk[k].words /\ disk'[k].regions = disk[k].regions
  /\ disk'[k].hosts = disk[k].hosts
  /\ job'[k].words = job[k].words /\ job'[k].regions = job[k].regions
  /\ \/ pc(k)' = pc(k) /\ job'[k].with = job[k].with
     \/ /\ {pc(k), pc(k)'} \cap (Spending \cup {"merged"}) = {}
        /\ pc(k) \in Open <=> pc(k)' \in Open
        /\ pc(k)' /= "files" /\ (pc(k) \in {"pages", "panicked"} => pc(k)' = "panicked")

LEMMA CalmCounts ==
  ASSUME PInv, CInv, Jobs' = Jobs, UNCHANGED <<handled, earlier, runs>>,
         \A k \in Jobs : CountsStay(k)
  PROVE  CInv'
<1>1. CounterFields'
  BY DEF CounterFields, CountsStay
<1>2. ASSUME NEW k \in Jobs PROVE Counters(k)'
  <2>1. Counters(k) /\ CountsStay(k)
    BY DEF CInv
  <2>2. \/ Other(k)'.hosts = Other(k).hosts /\ Other(k)'.regions = Other(k).regions
        \/ pc(k)' \notin Taking
    <3>1. job[k].with \in Jobs
      BY DEF PInv, Shape
    <3>2. /\ disk'[job[k].with].hosts = disk[job[k].with].hosts
          /\ disk'[job[k].with].regions = disk[job[k].with].regions
      BY <3>1 DEF CountsStay
    <3>3. QED
      BY <2>1, <3>2 DEF CountsStay, Other, Spending, Taking
  <2>3. QED
    BY <2>1, <2>2 DEF Counters, CountsStay, Spending, Taking
<1>3. HostsAgree'
  BY SameHosts DEF CountsStay
<1>4. \A k \in Jobs : RegionsOf(k)' = RegionsOf(k)
  BY DEF RegionsOf, CountsStay
<1>5. \A k \in Jobs : Spent(k)' <=> Spent(k)
  <2>1. \A i \in Jobs : /\ pc(i)' \in Spending <=> pc(i) \in Spending
                        /\ pc(i) \in Spending => job'[i].with = job[i].with
    BY DEF CountsStay
  <2>2. QED
    BY <2>1 DEF Spent
<1>6. \A w : \A k \in Jobs : WordsAt(w, k)' = WordsAt(w, k)
  BY <1>5 DEF WordsAt, CountsStay
<1>7. QED
  BY <1>1, <1>2, <1>3, <1>4, <1>6, SameRegions, SameWords DEF CInv

----------------------------------------------------------------------------
\* What a step adds, moves and takes away.
RegionAdded(j, page) ==
  /\ \A k \in Jobs \ {j} : RegionsOf(k)' = RegionsOf(k)
  /\ \A v : v /= Unknown =>
       Copies(v, RegionsOf(j)') = Copies(v, RegionsOf(j)) + (IF RegionOf[page.body] = v THEN 1 ELSE 0)

LEMMA RegionsGrow ==
  ASSUME KInv, CInv, RegionsAgree, Jobs' = Jobs, NEW j \in Jobs, NEW page,
         OneMore(handled, handled', page), RegionAdded(j, page)
  PROVE  RegionsAgree'
<1> SUFFICES ASSUME NEW v, v /= Unknown PROVE RegionsIn(v)' = PagesWith(v, handled')
  BY DEF RegionsAgree
<1>1. PICK c, d : c = RegionHoldings(v) /\ d = RegionHoldings(v)'
  OBVIOUS
<1>2. PICK n \in Nat : n = IF RegionOf[page.body] = v THEN 1 ELSE 0
  OBVIOUS
<1>3. IsCount(c) /\ DOMAIN c = Jobs /\ \A k \in Jobs : c[k] = Copies(v, RegionsOf(k))
  BY <1>1, CountersAreCounts
<1>4. DOMAIN d = Jobs /\ \A k \in Jobs : d[k] = Copies(v, RegionsOf(k)')
  BY <1>1 DEF RegionHoldings
<1>5. Beside(c, d, j) /\ d[j] = c[j] + n
  BY <1>2, <1>3, <1>4 DEF Beside, RegionAdded
<1>6. Total(d) = Total(c) + n
  BY <1>3, <1>5, SumGrows
<1>7. IsHandled(handled)
  BY DEF IsHandled, KInv, CInv
<1>8. PagesWith(v, handled') = PagesWith(v, handled) + n
  BY <1>2, <1>7, OneMoreWith
<1>9. Total(c) = PagesWith(v, handled)
  BY <1>1 DEF RegionsAgree, RegionsIn
<1>10. QED
  BY <1>1, <1>6, <1>8, <1>9 DEF RegionsIn

LEMMA RegionsMove ==
  ASSUME KInv, CInv, RegionsAgree, Jobs' = Jobs, handled' = handled,
         NEW i \in Jobs, NEW k \in Jobs, i /= k,
         \A l \in Jobs \ {i, k} : RegionsOf(l)' = RegionsOf(l),
         RegionsOf(i)' = RegionsOf(i) (+) RegionsOf(k), RegionsOf(k)' = EmptyBag
  PROVE  RegionsAgree'
<1> SUFFICES ASSUME NEW v, v /= Unknown PROVE RegionsIn(v)' = PagesWith(v, handled')
  BY DEF RegionsAgree
<1>1. PICK c, d : c = RegionHoldings(v) /\ d = RegionHoldings(v)'
  OBVIOUS
<1>2. /\ IsCount(c) /\ DOMAIN c = Jobs
      /\ \A l \in Jobs : c[l] = Copies(v, RegionsOf(l)) /\ c[l] \in Nat
  BY <1>1, CountersAreCounts
<1>3. DOMAIN d = Jobs /\ \A l \in Jobs : d[l] = Copies(v, RegionsOf(l)')
  BY <1>1 DEF RegionHoldings
<1>4. IsRegions(RegionsOf(i)) /\ IsRegions(RegionsOf(k))
  BY DEF CInv, Counters, RegionsOf
<1>5. d[i] = c[i] + c[k] /\ d[k] = 0
  BY <1>2, <1>3, <1>4, RegionsAdd, NoWords
<1>6. \A l \in DOMAIN c \ {i, k} : d[l] = c[l]
  BY <1>2, <1>3
<1>7. PICK n \in Nat : n = c[k]
  BY <1>2
<1>8. Total(d) = Total(c)
  <2>1. i \in DOMAIN c /\ k \in DOMAIN c /\ d[i] = c[i] + n /\ d[k] \in Nat /\ c[k] = d[k] + n
    BY <1>2, <1>5, <1>7
  <2>2. QED
    BY <1>2, <1>3, <1>6, <2>1, SumMoves
<1>9. QED
  BY <1>1, <1>8 DEF RegionsAgree, RegionsIn

LEMMA AllWordsFinite ==
  ASSUME NEW pages, IsFiniteSet(DOMAIN pages)
  PROVE  IsFiniteSet(UNION {DOMAIN WordsOn(page) : page \in DOMAIN pages})
<1>1. PICK g : g = [page \in DOMAIN pages |-> DOMAIN WordsOn(page)]
  OBVIOUS
<1>2. PICK T : T = {DOMAIN WordsOn(page) : page \in DOMAIN pages}
  OBVIOUS
<1>3. g \in Surjection(DOMAIN pages, T)
  BY <1>1, <1>2 DEF Surjection
<1>4. IsFiniteSet(T)
  BY <1>3, FS_Surjection
<1>5. \A C \in T : IsFiniteSet(C)
  BY <1>2, WordsOnAreWords DEF IsWords
<1>6. QED
  BY <1>2, <1>4, <1>5, FS_UNION

WordsAdded(j, page) ==
  /\ \A w : \A k \in Jobs \ {j} : WordsAt(w, k)' = WordsAt(w, k)
  /\ \A w : WordsAt(w, j)' = WordsAt(w, j) + Copies(w, WordsOn(page))

LEMMA WordsGrow ==
  ASSUME KInv, CInv, WordsAgree, Jobs' = Jobs, NEW j \in Jobs, NEW page,
         OneMore(handled, handled', page), WordsAdded(j, page), IsFiniteSet(DOMAIN handled')
  PROVE  WordsAgree'
<1>1. IsHandled(handled)
  BY DEF IsHandled, KInv, CInv
<1>2. Cardinality(AllWords') <= TopN => Cardinality(AllWords) <= TopN
  <2>1. DOMAIN handled \subseteq DOMAIN handled'
    BY DEF OneMore
  <2>2. AllWords \subseteq AllWords'
    BY <2>1 DEF AllWords
  <2>3. IsFiniteSet(AllWords')
    BY AllWordsFinite DEF AllWords
  <2>4. PICK A, B : A = AllWords /\ B = AllWords'
    OBVIOUS
  <2>5. Cardinality(A) <= Cardinality(B) /\ IsFiniteSet(A) /\ IsFiniteSet(B)
    BY <2>2, <2>3, <2>4, FS_Subset
  <2>6. PICK a \in Nat, b \in Nat : a = Cardinality(A) /\ b = Cardinality(B)
    BY <2>5, FS_CardinalityType
  <2>7. QED
    BY <2>4, <2>5, <2>6, IndexDataAssumption
<1> SUFFICES ASSUME NEW w
             PROVE  /\ WordsIn(w)' <= Occurrences(w, handled')
                    /\ Cardinality(AllWords') <= TopN => WordsIn(w)' = Occurrences(w, handled')
  BY DEF WordsAgree
<1>3. PICK c, d : c = WordHoldings(w) /\ d = WordHoldings(w)'
  OBVIOUS
<1>4. PICK n \in Nat : n = Copies(w, WordsOn(page))
  BY <1>1, OneMoreOccurs
<1>5. IsCount(c) /\ DOMAIN c = Jobs /\ \A k \in Jobs : c[k] = WordsAt(w, k)
  BY <1>3, CountersAreCounts
<1>6. DOMAIN d = Jobs /\ \A k \in Jobs : d[k] = WordsAt(w, k)'
  BY <1>3 DEF WordHoldings
<1>7. Beside(c, d, j) /\ d[j] = c[j] + n
  BY <1>4, <1>5, <1>6 DEF Beside, WordsAdded
<1>8. Total(d) = Total(c) + n
  BY <1>5, <1>7, SumGrows
<1>9. PICK t \in Nat, o \in Nat : t = Total(c) /\ o = Occurrences(w, handled)
  BY <1>1, <1>5, OneMoreOccurs, PointsAreFinite
<1>10. Occurrences(w, handled') = o + n
  BY <1>1, <1>4, <1>9, OneMoreOccurs
<1>11. t <= o /\ (Cardinality(AllWords) <= TopN => t = o)
  BY <1>3, <1>9 DEF WordsAgree, WordsIn
<1>12. WordsIn(w)' = t + n
  BY <1>3, <1>8, <1>9 DEF WordsIn
<1>13. QED
  BY <1>2, <1>10, <1>11, <1>12

\* The words of job i are pruned; those of job k are taken in before.
WordsPruned(i) ==
  /\ \A w : \A l \in Jobs \ {i} : WordsAt(w, l)' = WordsAt(w, l)
  /\ \A w : /\ WordsAt(w, i)' \in Nat /\ WordsAt(w, i)' <= WordsAt(w, i)
            /\ Cardinality(AllWords) <= TopN => WordsAt(w, i)' = WordsAt(w, i)

LEMMA WordsShrink ==
  ASSUME KInv, CInv, WordsAgree, Jobs' = Jobs, handled' = handled,
         NEW i \in Jobs, WordsPruned(i)
  PROVE  WordsAgree'
<1> SUFFICES ASSUME NEW w
             PROVE  /\ WordsIn(w)' <= Occurrences(w, handled)
                    /\ Cardinality(AllWords) <= TopN => WordsIn(w)' = Occurrences(w, handled)
  BY DEF WordsAgree, AllWords
<1>1. PICK c, d : c = WordHoldings(w) /\ d = WordHoldings(w)'
  OBVIOUS
<1>2. IsCount(c) /\ DOMAIN c = Jobs /\ \A l \in Jobs : c[l] = WordsAt(w, l) /\ c[l] \in Nat
  BY <1>1, CountersAreCounts
<1>3. DOMAIN d = Jobs /\ \A l \in Jobs : d[l] = WordsAt(w, l)'
  BY <1>1 DEF WordHoldings
<1>4. \A l \in Jobs : d[l] \in Nat /\ d[l] <= c[l]
  BY <1>2, <1>3 DEF WordsPruned
<1>5. IsCount(d)
  BY <1>2, <1>3, <1>4 DEF IsCount
<1>6. Total(d) <= Total(c)
  BY <1>2, <1>3, <1>4, <1>5, TotalShrinks
<1>7. Cardinality(AllWords) <= TopN => Total(d) = Total(c)
  <2> SUFFICES ASSUME Cardinality(AllWords) <= TopN PROVE Total(d) = Total(c)
    OBVIOUS
  <2>1. \A l \in Jobs : d[l] = c[l]
    BY <1>2, <1>3 DEF WordsPruned
  <2>2. QED
    BY <1>2, <1>3, <2>1, TotalSame
<1>8. PICK t \in Nat, u \in Nat, o \in Nat :
        t = Total(c) /\ u = Total(d) /\ o = Occurrences(w, handled)
  <2>1. IsHandled(handled)
    BY DEF IsHandled, KInv, CInv
  <2>2. Occurrences(w, handled) \in Nat
    <3>1. PICK page, more : more = handled (+) SetToBag({page})
      OBVIOUS
    <3>2. QED
      BY <2>1, <3>1, OneMorePage, OneMoreOccurs
  <2>3. QED
    BY <1>2, <1>5, <2>2, PointsAreFinite
<1>9. t <= o /\ (Cardinality(AllWords) <= TopN => t = o)
  BY <1>1, <1>8 DEF WordsAgree, WordsIn
<1>10. WordsIn(w)' = u
  BY <1>1, <1>8 DEF WordsIn
<1>11. QED
  BY <1>6, <1>7, <1>8, <1>9, <1>10

WordsTaken(i, k) ==
  /\ \A w : \A l \in Jobs \ {i, k} : WordsAt(w, l)' = WordsAt(w, l)
  /\ \A w : /\ WordsAt(w, k)' = 0
            /\ WordsAt(w, i)' \in Nat /\ WordsAt(w, i)' <= WordsAt(w, i) + WordsAt(w, k)
            /\ Cardinality(AllWords) <= TopN => WordsAt(w, i)' = WordsAt(w, i) + WordsAt(w, k)

LEMMA WordsMove ==
  ASSUME KInv, CInv, WordsAgree, Jobs' = Jobs, handled' = handled,
         NEW i \in Jobs, NEW k \in Jobs, i /= k, WordsTaken(i, k)
  PROVE  WordsAgree'
<1> SUFFICES ASSUME NEW w
             PROVE  /\ WordsIn(w)' <= Occurrences(w, handled)
                    /\ Cardinality(AllWords) <= TopN => WordsIn(w)' = Occurrences(w, handled)
  BY DEF WordsAgree, AllWords
<1>1. PICK c, d : c = WordHoldings(w) /\ d = WordHoldings(w)'
  OBVIOUS
<1>2. IsCount(c) /\ DOMAIN c = Jobs /\ \A l \in Jobs : c[l] = WordsAt(w, l) /\ c[l] \in Nat
  BY <1>1, CountersAreCounts
<1>3. DOMAIN d = Jobs /\ \A l \in Jobs : d[l] = WordsAt(w, l)'
  BY <1>1 DEF WordHoldings
<1>4. PICK n \in Nat : n = c[k]
  BY <1>2
<1>5. PICK m : m = [c EXCEPT ![i] = c[i] + n, ![k] = 0]
  OBVIOUS
<1>6. /\ DOMAIN m = Jobs /\ m[i] = c[i] + n /\ m[k] = 0
      /\ \A l \in Jobs \ {i, k} : m[l] = c[l]
      /\ \A l \in Jobs : m[l] \in Nat
  BY <1>2, <1>5
<1>7. Total(m) = Total(c)
  BY <1>2, <1>4, <1>6, SumMoves
<1>8. IsCount(m)
  BY <1>2, <1>6 DEF IsCount
<1>9. \A l \in Jobs : d[l] \in Nat /\ d[l] <= m[l]
  <2> SUFFICES ASSUME NEW l \in Jobs PROVE d[l] \in Nat /\ d[l] <= m[l]
    OBVIOUS
  <2>1. CASE l = i
    <3>1. d[i] \in Nat /\ d[i] <= c[i] + c[k]
      BY <1>2, <1>3 DEF WordsTaken
    <3>2. QED
      BY <1>4, <1>6, <2>1, <3>1
  <2>2. CASE l = k
    <3>1. d[k] = 0
      BY <1>3 DEF WordsTaken
    <3>2. QED
      BY <1>6, <2>2, <3>1
  <2>3. CASE l \notin {i, k}
    <3>1. d[l] = c[l]
      BY <1>2, <1>3, <2>3 DEF WordsTaken
    <3>2. QED
      BY <1>2, <1>6, <2>3, <3>1
  <2>4. QED
    BY <2>1, <2>2, <2>3
<1>10. IsCount(d)
  BY <1>2, <1>3, <1>9 DEF IsCount
<1>11. Total(d) <= Total(m)
  BY <1>3, <1>6, <1>8, <1>9, <1>10, TotalShrinks
<1>12. Cardinality(AllWords) <= TopN => Total(d) = Total(m)
  <2> SUFFICES ASSUME Cardinality(AllWords) <= TopN PROVE Total(d) = Total(m)
    OBVIOUS
  <2>1. d[i] = c[i] + c[k] /\ d[k] = 0 /\ \A l \in Jobs \ {i, k} : d[l] = c[l]
    BY <1>2, <1>3 DEF WordsTaken
  <2>2. \A l \in Jobs : d[l] = m[l]
    BY <1>4, <1>6, <2>1
  <2>3. QED
    BY <1>3, <1>6, <2>2, TotalSame
<1>13. PICK t \in Nat, u \in Nat, o \in Nat :
        t = Total(c) /\ u = Total(d) /\ o = Occurrences(w, handled)
  <2>1. IsHandled(handled)
    BY DEF IsHandled, KInv, CInv
  <2>2. Occurrences(w, handled) \in Nat
    <3>1. PICK page, more : more = handled (+) SetToBag({page})
      OBVIOUS
    <3>2. QED
      BY <2>1, <3>1, OneMorePage, OneMoreOccurs
  <2>3. QED
    BY <1>2, <1>10, <2>2, PointsAreFinite
<1>14. t <= o /\ (Cardinality(AllWords) <= TopN => t = o)
  BY <1>1, <1>13 DEF WordsAgree, WordsIn
<1>15. WordsIn(w)' = u
  BY <1>1, <1>13 DEF WordsIn
<1>16. QED
  BY <1>7, <1>11, <1>12, <1>13, <1>14, <1>15

\* Words that are counted occur.
LEMMA WordsOccur ==
  ASSUME KInv, CInv, WordsAgree, NEW j \in Jobs, ~Spent(j)
  PROVE  DOMAIN disk[j].words \cup DOMAIN job[j].words \subseteq AllWords
<1> SUFFICES ASSUME NEW w \in DOMAIN disk[j].words \cup DOMAIN job[j].words PROVE w \in AllWords
  OBVIOUS
<1>1. IsWords(disk[j].words) /\ IsWords(job[j].words)
  BY DEF CInv, Counters
<1>2. PICK a \in Nat, b \in Nat : a = Copies(w, disk[j].words) /\ b = Copies(w, job[j].words)
  BY CountersAreCounts
<1>3. a /= 0 \/ b /= 0
  BY <1>1, <1>2 DEF Copies, IsWords
<1>4. WordsAt(w, j) = a + b
  BY <1>2 DEF WordsAt
<1>5. PICK c : c = WordHoldings(w)
  OBVIOUS
<1>6. IsCount(c) /\ j \in DOMAIN c /\ c[j] = a + b
  BY <1>4, <1>5, CountersAreCounts
<1>7. PICK t \in Nat : Total(c) = t + (a + b)
  BY <1>6, TotalSplits
<1>8. Total(c) <= Occurrences(w, handled)
  BY <1>5 DEF WordsAgree, WordsIn
<1>9. Occurrences(w, handled) /= 0
  BY <1>3, <1>7, <1>8
<1>10. PICK d : d = [page \in DOMAIN handled |-> handled[page] * Copies(w, WordsOn(page))]
  OBVIOUS
<1>11. PICK page \in DOMAIN d : d[page] /= 0
  BY <1>9, <1>10, TotalOfNone DEF Occurrences
<1>12. page \in DOMAIN handled /\ d[page] = handled[page] * Copies(w, WordsOn(page))
  BY <1>10, <1>11
<1>13. handled[page] \in Nat
  BY <1>12 DEF KInv, IsHistory
<1>14. Copies(w, WordsOn(page)) /= 0
  <2>1. \A n \in Nat : n * 0 = 0
    OBVIOUS
  <2>2. QED
    BY <1>11, <1>12, <1>13, <2>1
<1>15. w \in DOMAIN WordsOn(page)
  BY <1>14 DEF Copies
<1>16. QED
  BY <1>12, <1>15 DEF AllWords

----------------------------------------------------------------------------
\* The parts of CInv in a step of job j that leaves the others' counters alone.
LEMMA CountsOfOne ==
  ASSUME PInv, CInv, NEW j \in Jobs, Jobs' = Jobs, runs' = runs, IsFiniteSet(DOMAIN handled'),
         \A k \in Jobs \ {j} : CountsStay(k) /\ (pc(k)' \in Taking => job[k].with /= j),
         {"words", "regions", "hosts"} \subseteq DOMAIN disk'[j],
         {"words", "regions"} \subseteq DOMAIN job'[j],
         Counters(j)', HostsAgree',
         runs = 1 => RegionsAgree' /\ WordsAgree'
  PROVE  CInv'
<1>1. CounterFields'
  BY DEF CounterFields, CountsStay
<1>2. ASSUME NEW k \in Jobs PROVE Counters(k)'
  <2>1. CASE k = j
    BY <2>1
  <2>2. CASE k /= j
    <3>1. Counters(k) /\ CountsStay(k) /\ (pc(k)' \in Taking => job[k].with /= j)
      BY <2>2 DEF CInv
    <3>2. \/ Other(k)'.hosts = Other(k).hosts /\ Other(k)'.regions = Other(k).regions
          \/ pc(k)' \notin Taking
      <4> SUFFICES ASSUME pc(k)' \in Taking
                   PROVE  Other(k)'.hosts = Other(k).hosts /\ Other(k)'.regions = Other(k).regions
        OBVIOUS
      <4>1. job[k].with \in Jobs /\ job[k].with /= j
        BY <3>1 DEF PInv, Shape
      <4>2. /\ disk'[job[k].with].hosts = disk[job[k].with].hosts
            /\ disk'[job[k].with].regions = disk[job[k].with].regions
        BY <4>1 DEF CountsStay
      <4>3. job'[k].with = job[k].with
        BY <3>1 DEF CountsStay, Spending, Taking
      <4>4. QED
        BY <4>2, <4>3 DEF Other
    <3>3. QED
      BY <3>1, <3>2 DEF Counters, CountsStay, Spending, Taking
  <2>3. QED
    BY <2>1, <2>2
<1>3. QED
  BY <1>1, <1>2 DEF CInv

\* Steps of a job that is not in a merge.
LEMMA NotMerging ==
  ASSUME PInv, NEW j \in Jobs, pc(j) /= "merging"
  PROVE  /\ ~Spent(j)
         /\ \A k \in Jobs : pc(k) \in Taking => job[k].with /= j
BY DEF PInv, MergesAreApart, Merging, Spent, Spending, Taking

LEMMA StillNotMerging ==
  ASSUME PInv, NEW j \in Jobs, pc(j) /= "merging", pc(j) \notin Spending, pc(j)' \notin Spending,
         Jobs' = Jobs,
         \A k \in Jobs \ {j} : pc(k)' = pc(k) /\ job'[k].with = job[k].with
  PROVE  /\ \A k \in Jobs : Spent(k)' <=> Spent(k)
         /\ ~Spent(j)' /\ ~Spent(j)
<1>1. \A i \in Jobs : (pc(i) \in Spending <=> pc(i)' \in Spending)
                      /\ (pc(i) \in Spending => job'[i].with = job[i].with)
  OBVIOUS
<1>2. \A k \in Jobs : Spent(k)' <=> Spent(k)
  BY <1>1 DEF Spent
<1>3. QED
  BY <1>2, NotMerging

LEMMA StayingCounts ==
  ASSUME NEW k \in Jobs, CountsStay(k)
  PROVE  /\ RegionsOf(k)' = RegionsOf(k)
         /\ (Spent(k)' <=> Spent(k)) => \A w : WordsAt(w, k)' = WordsAt(w, k)
BY DEF CountsStay, RegionsOf, WordsAt

LEMMA JobStepCounts ==
  ASSUME PInv, KInv, CInv, NEW j \in Jobs, JobStep(j)
  PROVE  CInv'
<1> USE DEF pc
<1>0. /\ DOMAIN job = Jobs /\ DOMAIN disk = Jobs
      /\ \A k \in Jobs : /\ {"pc", "with", "words", "regions"} \subseteq DOMAIN job[k]
                         /\ {"words", "regions", "hosts"} \subseteq DOMAIN disk[k]
                         /\ Counters(k)
  BY DEF PInv, Shape, CInv, CounterFields
<1>00. IsFiniteSet(DOMAIN handled)
  BY DEF CInv
<1>1. CASE StartJob(j)
  <2>1. PICK p : /\ p \in {"panicked", "files"} /\ job[j].pc = "new"
                 /\ job' = [job EXCEPT ![j].pc = p, ![j].regions = disk[j].regions]
                 /\ UNCHANGED <<plan, handled, earlier, runs>>
    BY <1>1 DEF StartJob, history
  <2>a. \A k \in Jobs : /\ {"words", "regions", "hosts"} \subseteq DOMAIN disk'[k]
                        /\ disk'[k].words = disk[k].words /\ disk'[k].regions = disk[k].regions
                        /\ disk'[k].hosts = disk[k].hosts
    BY <1>0, <1>1 DEF StartJob
  <2>2. /\ Jobs' = Jobs /\ \A k \in Jobs \ {j} : CountsStay(k) /\ job'[k] = job[k]
        /\ {"words", "regions"} \subseteq DOMAIN job'[j]
        /\ job'[j].pc = p /\ job'[j].words = job[j].words /\ job'[j].regions = disk[j].regions
    BY <1>0, <2>1, <2>a DEF Jobs, CountsStay
  <2>3. Counters(j)'
    BY <1>0, <2>1, <2>a, <2>2 DEF Counters, Taking
  <2>4. HostsAgree'
    BY <2>1, <2>a, <2>2, SameHosts
  <2>5. \A k \in Jobs : RegionsOf(k)' = RegionsOf(k)
    <3>1. RegionsOf(j)' = RegionsOf(j)
      BY <2>1, <2>a, <2>2 DEF RegionsOf, Open
    <3>2. QED
      BY <2>2, <3>1, StayingCounts
  <2>6. \A k \in Jobs : Spent(k)' <=> Spent(k)
    BY <2>1, <2>2, StillNotMerging DEF Spending
  <2>7. \A w : \A k \in Jobs : WordsAt(w, k)' = WordsAt(w, k)
    <3>1. \A w : WordsAt(w, j)' = WordsAt(w, j)
      BY <2>1, <2>a, <2>2, <2>6 DEF WordsAt
    <3>2. QED
      BY <2>2, <2>6, <3>1, StayingCounts
  <2>8. runs = 1 => RegionsAgree' /\ WordsAgree'
    BY <2>1, <2>2, <2>5, <2>7, SameRegions, SameWords DEF CInv
  <2>9. \A k \in Jobs \ {j} : job'[k].pc \in Taking => job[k].with /= j
    BY <2>1, <2>2, NotMerging
  <2>10. {"words", "regions", "hosts"} \subseteq DOMAIN disk'[j]
    BY <2>a
  <2>11. QED
    BY <1>00, <2>1, <2>2, <2>3, <2>4, <2>8, <2>9, <2>10, CountsOfOne
<1>2. CASE DownloadFails(j) \/ DownloadImages(j)
  <2>1. /\ Jobs' = Jobs /\ UNCHANGED <<handled, earlier, runs>>
        /\ \A k \in Jobs : CountsStay(k)
    <3>1. CASE DownloadFails(j)
      BY <1>0, <3>1 DEF DownloadFails, history, Jobs, CountsStay
    <3>2. CASE DownloadImages(j)
      <4>1. /\ job[j].pc = "pages" /\ UNCHANGED <<plan, disk, handled, earlier, runs>>
            /\ job' = [job EXCEPT ![j].pc = "panicked"]
        BY <3>2 DEF DownloadImages, Go, history
      <4>2. \A k \in Jobs : /\ {"words", "regions"} \subseteq DOMAIN job'[k]
                            /\ job'[k].words = job[k].words /\ job'[k].regions = job[k].regions
                            /\ job'[k].with = job[k].with
                            /\ job'[k].pc = IF k = j THEN "panicked" ELSE job[k].pc
        BY <1>0, <4>1
      <4>3. ASSUME NEW k \in Jobs PROVE CountsStay(k)
        <5>1. \/ job'[k].pc = job[k].pc
              \/ job[k].pc = "pages" /\ job'[k].pc = "panicked"
          BY <4>1, <4>2
        <5>2. {"words", "regions", "hosts"} \subseteq DOMAIN disk'[k] /\ disk'[k] = disk[k]
          BY <1>0, <4>1
        <5>3. QED
          BY <4>2, <5>1, <5>2 DEF CountsStay, Spending, Open
      <4>4. QED
        BY <4>1, <4>3 DEF Jobs
    <3>3. QED
      BY <1>2, <3>1, <3>2
  <2>2. QED
    BY <2>1, CalmCounts
<1>3. CASE NextFile(j)
  <2>1. PICK f \in job[j].files : \E buf \in Downloads(Content[f]) :
          job' = [job EXCEPT ![j].pc = "pages", ![j].files = @ \ {f},
                             ![j].todo = WantedPages(buf)]
    BY <1>3 DEF NextFile
  <2>2. PICK buf \in Downloads(Content[f]) :
          job' = [job EXCEPT ![j].pc = "pages", ![j].files = @ \ {f},
                             ![j].todo = WantedPages(buf)]
    BY <2>1
  <2>3. job[j].pc = "files" /\ UNCHANGED <<plan, disk, handled, earlier, runs>>
    BY <1>3 DEF NextFile, history
  <2>4. Jobs' = Jobs /\ \A k \in Jobs : CountsStay(k)
    BY <1>0, <2>2, <2>3, ZenonT(40) DEF Jobs, CountsStay, Spending, Open
  <2>5. QED
    BY <2>3, <2>4, CalmCounts
<1>4. CASE InsertPage(j)
  <2> DEFINE page == Head(job[j].todo)
             new == IF page.body \in Titled THEN SetToBag({page}) ELSE EmptyBag
  <2>1. PICK P, A, W, R, H :
          /\ P = page /\ A = job[j].added (+) new
          /\ W = job[j].words (+) WordsOn(page)
          /\ R = job[j].regions (+) Known({RegionOf[page.body]})
          /\ H = disk[j].hosts \cup ({HostOf[page.url]} \ {Unknown})
    OBVIOUS
  <2>2. /\ job[j].pc = "pages" /\ UNCHANGED <<plan, earlier, runs>>
        /\ job' = [job EXCEPT ![j].todo = Tail(@), ![j].words = W, ![j].regions = R, ![j].added = A]
        /\ disk' = [disk EXCEPT ![j].hosts = H]
        /\ handled' = handled (+) SetToBag({P})
    BY <1>4, <2>1 DEF InsertPage
  <2>3. /\ W = job[j].words (+) WordsOn(P) /\ R = job[j].regions (+) Known({RegionOf[P.body]})
        /\ H = disk[j].hosts \cup ({HostOf[P.url]} \ {Unknown})
    BY <2>1
  <2> HIDE DEF page, new
  <2>4. /\ Jobs' = Jobs /\ \A k \in Jobs \ {j} : CountsStay(k) /\ job'[k] = job[k]
        /\ {"words", "regions"} \subseteq DOMAIN job'[j]
        /\ {"words", "regions", "hosts"} \subseteq DOMAIN disk'[j]
        /\ job'[j].pc = "pages" /\ job'[j].words = W /\ job'[j].regions = R
        /\ disk'[j].hosts = H /\ disk'[j].words = disk[j].words /\ disk'[j].regions = disk[j].regions
    <3>1. Jobs' = Jobs /\ \A k \in Jobs \ {j} : job'[k] = job[k] /\ disk'[k] = disk[k]
      BY <1>0, <2>2 DEF Jobs
    <3>2. /\ {"words", "regions"} \subseteq DOMAIN job'[j]
          /\ job'[j].pc = "pages" /\ job'[j].words = W /\ job'[j].regions = R
      BY <1>0, <2>2
    <3>3. /\ {"words", "regions", "hosts"} \subseteq DOMAIN disk'[j]
          /\ disk'[j].hosts = H /\ disk'[j].words = disk[j].words /\ disk'[j].regions = disk[j].regions
      BY <1>0, <2>2
    <3>4. \A k \in Jobs \ {j} : CountsStay(k)
      BY <1>0, <3>1 DEF CountsStay
    <3>5. QED
      BY <3>1, <3>2, <3>3, <3>4
  <2>5. OneMore(handled, handled', P) /\ IsFiniteSet(DOMAIN handled')
    <3>1. IsHandled(handled)
      BY DEF IsHandled, KInv, CInv
    <3>2. QED
      BY <2>2, <3>1, OneMorePage DEF IsHandled
  <2>6. /\ IsWords(W) /\ \A w : /\ Copies(w, W) = Copies(w, job[j].words) + Copies(w, WordsOn(P))
                                /\ Copies(w, WordsOn(P)) \in Nat
    <3>1. IsWords(job[j].words) /\ IsWords(WordsOn(P))
      BY <1>0, WordsOnAreWords DEF Counters, Taking
    <3>2. QED
      BY <2>3, <3>1, WordsAdd
  <2>7. /\ IsRegions(R)
        /\ \A v : v /= Unknown =>
             Copies(v, R) = Copies(v, job[j].regions) + (IF RegionOf[P.body] = v THEN 1 ELSE 0)
    <3>1. PICK x, b : x = RegionOf[P.body] /\ b = Known({x})
      OBVIOUS
    <3>2. IsRegions(b) /\ \A v : v /= Unknown => Copies(v, b) = IF x = v THEN 1 ELSE 0
      BY <3>1, KnownRegion
    <3>3. IsRegions(job[j].regions) /\ R = job[j].regions (+) b
      BY <1>0, <2>3, <3>1 DEF Counters, Taking
    <3>4. IsRegions(R) /\ \A v : Copies(v, R) = Copies(v, job[j].regions) + Copies(v, b)
      BY <3>2, <3>3, RegionsAdd
    <3>5. QED
      BY <3>1, <3>2, <3>4
  <2>8. Counters(j)'
    BY <1>0, <2>4, <2>6, <2>7 DEF Counters, Taking
  <2>9. HostsAgree'
    <3> SUFFICES ASSUME NEW p \in DOMAIN handled' \cup DOMAIN earlier' PROVE HostsHere(p)'
      BY DEF HostsAgree
    <3>1. \A k \in Jobs : disk[k].hosts \subseteq disk'[k].hosts
      BY <2>3, <2>4 DEF CountsStay
    <3>2. CASE p = P
      <4>1. HostOf[P.url] = Unknown \/ HostOf[P.url] \in disk'[j].hosts
        BY <2>3, <2>4
      <4>2. QED
        BY <2>4, <3>2, <4>1 DEF HostsHere
    <3>3. CASE p /= P
      <4>1. p \in DOMAIN handled \cup DOMAIN earlier
        BY <2>2, <2>5, <3>3 DEF OneMore
      <4>2. QED
        BY <2>4, <3>1, <4>1 DEF HostsHere, HostsAgree, CInv
    <3>4. QED
      BY <3>2, <3>3
  <2>10. RegionAdded(j, P)
    <3>1. RegionsOf(j) = job[j].regions /\ RegionsOf(j)' = R
      BY <2>2, <2>4 DEF RegionsOf, Open
    <3>2. QED
      BY <2>4, <2>7, <3>1, StayingCounts DEF RegionAdded
  <2>11. WordsAdded(j, P)
    <3>1. (\A k \in Jobs : Spent(k)' <=> Spent(k)) /\ ~Spent(j)
      <4>1. \A k \in Jobs \ {j} : job'[k].pc = job[k].pc /\ job'[k].with = job[k].with
        BY <2>4
      <4>2. QED
        BY <2>2, <2>4, <4>1, StillNotMerging DEF Spending
    <3>2. \A w : \A k \in Jobs \ {j} : WordsAt(w, k)' = WordsAt(w, k)
      BY <2>4, <3>1 DEF WordsAt, CountsStay
    <3>3. ASSUME NEW w PROVE WordsAt(w, j)' = WordsAt(w, j) + Copies(w, WordsOn(P))
      <4>1. PICK a \in Nat, b \in Nat, c \in Nat :
              /\ a = Copies(w, disk[j].words) /\ b = Copies(w, job[j].words)
              /\ c = Copies(w, WordsOn(P))
        BY <2>6, CountersAreCounts
      <4>2. WordsAt(w, j) = a + b
        BY <3>1, <4>1 DEF WordsAt
      <4>3. WordsAt(w, j)' = a + (b + c)
        BY <2>4, <2>6, <3>1, <4>1, SMTT(30) DEF WordsAt
      <4>4. QED
        BY <4>1, <4>2, <4>3
    <3>4. QED
      BY <3>2, <3>3 DEF WordsAdded
  <2>12. runs = 1 => RegionsAgree' /\ WordsAgree'
    BY <2>4, <2>5, <2>10, <2>11, RegionsGrow, WordsGrow DEF CInv
  <2>13. \A k \in Jobs \ {j} : job'[k].pc \in Taking => job[k].with /= j
    BY <2>2, <2>4, NotMerging
  <2>14. QED
    BY <2>2, <2>4, <2>5, <2>8, <2>9, <2>12, <2>13, CountsOfOne
<1>5. CASE CommitWords(j)
  <2>1. PICK all, W : all = disk[j].words (+) job[j].words /\ W = Pruned(all)
    OBVIOUS
  <2>2. /\ job[j].pc = "pages" /\ UNCHANGED <<plan, handled, earlier, runs>>
        /\ job' = [job EXCEPT ![j].pc = "words committed", ![j].words = EmptyBag]
        /\ disk' = [disk EXCEPT ![j].words = W]
    BY <1>5, <2>1 DEF CommitWords, history
  <2>3. /\ Jobs' = Jobs /\ \A k \in Jobs \ {j} : CountsStay(k) /\ job'[k] = job[k]
        /\ {"words", "regions"} \subseteq DOMAIN job'[j]
        /\ {"words", "regions", "hosts"} \subseteq DOMAIN disk'[j]
        /\ job'[j].pc = "words committed" /\ job'[j].words = EmptyBag
        /\ job'[j].regions = job[j].regions
        /\ disk'[j].hosts = disk[j].hosts /\ disk'[j].words = W
        /\ disk'[j].regions = disk[j].regions
    <3>1. Jobs' = Jobs /\ \A k \in Jobs \ {j} : job'[k] = job[k] /\ disk'[k] = disk[k]
      BY <1>0, <2>2 DEF Jobs
    <3>2. \A k \in Jobs \ {j} : CountsStay(k)
      BY <1>0, <3>1 DEF CountsStay
    <3>3. /\ {"words", "regions"} \subseteq DOMAIN job'[j]
          /\ job'[j].pc = "words committed" /\ job'[j].words = EmptyBag
          /\ job'[j].regions = job[j].regions
      BY <1>0, <2>2
    <3>4. /\ {"words", "regions", "hosts"} \subseteq DOMAIN disk'[j]
          /\ disk'[j].hosts = disk[j].hosts /\ disk'[j].words = W
          /\ disk'[j].regions = disk[j].regions
      BY <1>0, <2>2
    <3>5. QED
      BY <3>1, <3>2, <3>3, <3>4
  <2>4. /\ IsWords(all) /\ IsWords(W) /\ DOMAIN all = DOMAIN disk[j].words \cup DOMAIN job[j].words
        /\ \A w : Copies(w, all) = Copies(w, disk[j].words) + Copies(w, job[j].words)
        /\ \A w : Copies(w, W) <= Copies(w, all)
        /\ Cardinality(DOMAIN all) <= TopN => \A w : Copies(w, W) = Copies(w, all)
    <3>1. IsWords(disk[j].words) /\ IsWords(job[j].words)
      BY <1>0 DEF Counters, Taking
    <3>2. /\ IsWords(all) /\ DOMAIN all = DOMAIN disk[j].words \cup DOMAIN job[j].words
          /\ \A w : Copies(w, all) = Copies(w, disk[j].words) + Copies(w, job[j].words)
      BY <2>1, <3>1, WordsAdd
    <3>3. QED
      BY <2>1, <3>2, PrunedFacts
  <2>5. Counters(j)'
    BY <1>0, <2>2, <2>3, <2>4, NoWords DEF Counters, Taking
  <2>6. HostsAgree'
    <3>1. \A k \in Jobs : disk[k].hosts \subseteq disk'[k].hosts
      BY <2>3 DEF CountsStay
    <3>2. QED
      BY <2>2, <2>3, <3>1, SameHosts
  <2>7. \A k \in Jobs : RegionsOf(k)' = RegionsOf(k)
    <3>1. RegionsOf(j)' = RegionsOf(j)
      BY <2>2, <2>3 DEF RegionsOf, Open
    <3>2. QED
      BY <2>3, <3>1, StayingCounts
  <2>8. runs = 1 => WordsPruned(j)
    <3> SUFFICES ASSUME runs = 1 PROVE WordsPruned(j)
      OBVIOUS
    <3>1. (\A k \in Jobs : Spent(k)' <=> Spent(k)) /\ ~Spent(j)
      <4>1. \A k \in Jobs \ {j} : job'[k].pc = job[k].pc /\ job'[k].with = job[k].with
        BY <2>3
      <4>2. QED
        BY <2>2, <2>3, <4>1, StillNotMerging DEF Spending
    <3>2. \A w : \A k \in Jobs \ {j} : WordsAt(w, k)' = WordsAt(w, k)
      BY <2>3, <3>1 DEF WordsAt, CountsStay
    <3>3. Cardinality(AllWords) <= TopN => Cardinality(DOMAIN all) <= TopN
      <4>1. DOMAIN all \subseteq AllWords
        BY <2>4, <3>1, WordsOccur DEF CInv
      <4>2. IsFiniteSet(AllWords)
        BY <1>00, AllWordsFinite DEF AllWords
      <4>3. PICK D, E : D = DOMAIN all /\ E = AllWords
        OBVIOUS
      <4>4. Cardinality(D) <= Cardinality(E) /\ IsFiniteSet(D) /\ IsFiniteSet(E)
        BY <4>1, <4>2, <4>3, FS_Subset
      <4>5. PICK d \in Nat, e \in Nat : d = Cardinality(D) /\ e = Cardinality(E)
        BY <4>4, FS_CardinalityType
      <4>6. QED
        BY <4>3, <4>4, <4>5, IndexDataAssumption
    <3>4. ASSUME NEW w
          PROVE  /\ WordsAt(w, j)' \in Nat /\ WordsAt(w, j)' <= WordsAt(w, j)
                 /\ Cardinality(AllWords) <= TopN => WordsAt(w, j)' = WordsAt(w, j)
      <4>1. Copies(w, W) \in Nat /\ Copies(w, EmptyBag) = 0
        BY <2>4, NoWords DEF Copies, IsWords
      <4>2. WordsAt(w, j)' = Copies(w, W)
        <5>1. WordsAt(w, j)' = Copies(w, disk'[j].words) + Copies(w, job'[j].words)
          BY <3>1 DEF WordsAt
        <5>2. Copies(w, disk'[j].words) = Copies(w, W) /\ Copies(w, job'[j].words) = 0
          BY <2>3, <4>1
        <5>3. QED
          BY <4>1, <5>1, <5>2
      <4>3. WordsAt(w, j) = Copies(w, all)
        BY <2>4, <3>1 DEF WordsAt
      <4>4. QED
        BY <2>4, <3>3, <4>1, <4>2, <4>3
    <3>5. QED
      BY <3>2, <3>4 DEF WordsPruned
  <2>9. runs = 1 => RegionsAgree' /\ WordsAgree'
    BY <2>2, <2>3, <2>7, <2>8, SameRegions, WordsShrink DEF CInv
  <2>10. \A k \in Jobs \ {j} : job'[k].pc \in Taking => job[k].with /= j
    BY <2>2, <2>3, NotMerging
  <2>11. QED
    BY <1>00, <2>2, <2>3, <2>5, <2>6, <2>9, <2>10, CountsOfOne
<1>6. CASE CommitPages(j)
  <2>1. PICK more : more = AddSegment(disk[j].segments, job[j].added)
    OBVIOUS
  <2>2. /\ job[j].pc = "words committed" /\ UNCHANGED <<plan, handled, earlier, runs>>
        /\ job' = [job EXCEPT ![j].pc = "pages committed", ![j].added = EmptyBag]
        /\ disk' = [disk EXCEPT ![j].segments = more]
    BY <1>6, <2>1 DEF CommitPages, history
  <2>3. Jobs' = Jobs /\ \A k \in Jobs : CountsStay(k)
    BY <1>0, <2>2 DEF Jobs, CountsStay, Spending, Open
  <2>4. QED
    BY <2>2, <2>3, CalmCounts
<1>7. CASE CommitRegions(j)
  <2>1. /\ job[j].pc = "pages committed" /\ UNCHANGED <<plan, handled, earlier, runs>>
        /\ job' = [job EXCEPT ![j].pc = "files"]
        /\ disk' = [disk EXCEPT ![j].regions = job[j].regions]
    BY <1>7 DEF CommitRegions, Go, history
  <2>2. /\ Jobs' = Jobs /\ \A k \in Jobs \ {j} : CountsStay(k) /\ job'[k] = job[k]
        /\ {"words", "regions"} \subseteq DOMAIN job'[j]
        /\ {"words", "regions", "hosts"} \subseteq DOMAIN disk'[j]
        /\ job'[j].pc = "files" /\ job'[j].words = job[j].words
        /\ job'[j].regions = job[j].regions /\ disk'[j].regions = job[j].regions
        /\ disk'[j].hosts = disk[j].hosts /\ disk'[j].words = disk[j].words
    <3>1. Jobs' = Jobs /\ \A k \in Jobs \ {j} : job'[k] = job[k] /\ disk'[k] = disk[k]
      BY <1>0, <2>1 DEF Jobs
    <3>2. \A k \in Jobs \ {j} : CountsStay(k)
      BY <1>0, <3>1 DEF CountsStay
    <3>3. QED
      BY <1>0, <2>1, <3>1, <3>2
  <2>3. Counters(j)'
    BY <1>0, <2>1, <2>2 DEF Counters, Taking
  <2>4. HostsAgree'
    <3>1. \A k \in Jobs : disk[k].hosts \subseteq disk'[k].hosts
      BY <2>2 DEF CountsStay
    <3>2. QED
      BY <2>1, <2>2, <3>1, SameHosts
  <2>5. \A k \in Jobs : RegionsOf(k)' = RegionsOf(k)
    <3>1. RegionsOf(j)' = RegionsOf(j)
      BY <2>1, <2>2 DEF RegionsOf, Open
    <3>2. QED
      BY <2>2, <3>1, StayingCounts
  <2>6. \A w : \A k \in Jobs : WordsAt(w, k)' = WordsAt(w, k)
    <3>1. \A k \in Jobs \ {j} : job'[k].pc = job[k].pc /\ job'[k].with = job[k].with
      BY <2>2
    <3>2. \A k \in Jobs : Spent(k)' <=> Spent(k)
      BY <2>1, <2>2, <3>1, StillNotMerging DEF Spending
    <3>3. QED
      BY <2>2, <3>2 DEF WordsAt, CountsStay
  <2>7. runs = 1 => RegionsAgree' /\ WordsAgree'
    BY <2>1, <2>2, <2>5, <2>6, SameRegions, SameWords DEF CInv
  <2>8. \A k \in Jobs \ {j} : job'[k].pc \in Taking => job[k].with /= j
    BY <2>1, <2>2, NotMerging
  <2>9. QED
    BY <1>00, <2>1, <2>2, <2>3, <2>4, <2>7, <2>8, CountsOfOne
<1>8. CASE FinishJob(j)
  <2>1. /\ job[j].pc = "files" /\ UNCHANGED <<plan, disk, handled, earlier, runs>>
        /\ job' = [job EXCEPT ![j].pc = "ready"]
    BY <1>8 DEF FinishJob, Go, history
  <2>2. /\ Jobs' = Jobs /\ \A k \in Jobs \ {j} : CountsStay(k) /\ job'[k] = job[k]
        /\ {"words", "regions"} \subseteq DOMAIN job'[j]
        /\ job'[j].pc = "ready" /\ job'[j].words = job[j].words
        /\ job'[j].regions = job[j].regions
    BY <1>0, <2>1 DEF Jobs, CountsStay
  <2>3. Counters(j)'
    BY <1>0, <2>1, <2>2 DEF Counters, Taking
  <2>4. HostsAgree'
    BY <2>1, <2>2, SameHosts
  <2>5. \A k \in Jobs : RegionsOf(k)' = RegionsOf(k)
    BY <1>0, <2>1, <2>2 DEF RegionsOf, Open, CountsStay, Counters
  <2>6. \A w : \A k \in Jobs : WordsAt(w, k)' = WordsAt(w, k)
    <3>1. \A k \in Jobs \ {j} : job'[k].pc = job[k].pc /\ job'[k].with = job[k].with
      BY <2>2
    <3>2. \A k \in Jobs : Spent(k)' <=> Spent(k)
      BY <2>1, <2>2, <3>1, StillNotMerging DEF Spending
    <3>3. QED
      BY <2>1, <2>2, <3>2 DEF WordsAt, CountsStay
  <2>7. runs = 1 => RegionsAgree' /\ WordsAgree'
    BY <2>1, <2>2, <2>5, <2>6, SameRegions, SameWords DEF CInv
  <2>8. \A k \in Jobs \ {j} : job'[k].pc \in Taking => job[k].with /= j
    BY <2>1, <2>2, NotMerging
  <2>9. {"words", "regions", "hosts"} \subseteq DOMAIN disk'[j]
    BY <1>0, <2>1
  <2>10. QED
    BY <1>00, <2>1, <2>2, <2>3, <2>4, <2>7, <2>8, <2>9, CountsOfOne
<1>9. QED
  BY <1>1, <1>2, <1>3, <1>4, <1>5, <1>6, <1>7, <1>8 DEF JobStep

\* What has been taken in is in the counters of the one that took it.
LEMMA MergeStepCounts ==
  ASSUME PInv, KInv, CInv, NEW j \in Jobs, MergeStep(j)
  PROVE  CInv'
<1> USE DEF pc
<1> DEFINE with == job[j].with
<1>0. /\ DOMAIN job = Jobs /\ DOMAIN disk = Jobs
      /\ \A k \in Jobs : /\ {"pc", "with", "words", "regions"} \subseteq DOMAIN job[k]
                         /\ {"words", "regions", "hosts"} \subseteq DOMAIN disk[k]
                         /\ Counters(k) /\ job[k].with \in Jobs
  BY DEF PInv, Shape, CInv, CounterFields
<1>00. IsFiniteSet(DOMAIN handled)
  BY DEF CInv
<1>a. \A k \in Jobs : Merging(k) => job[job[k].with].pc = "merging"
  BY DEF PInv, MergesAreApart
<1>b. \A k, l \in Jobs : Merging(k) /\ Merging(l) /\ job[k].with = job[l].with => k = l
  BY DEF PInv, MergesAreApart
<1>1. ASSUME NEW i \in Jobs, StartMerge(j, i) PROVE CInv'
  <2>1. /\ job[j].pc = "ready" /\ job[i].pc = "ready" /\ UNCHANGED <<plan, disk, handled, earlier, runs>>
        /\ job' = [job EXCEPT ![j].pc = "rename", ![j].with = i, ![i].pc = "merging"]
    BY <1>1 DEF StartMerge, history
  <2>2. /\ Jobs' = Jobs
        /\ \A k \in Jobs : /\ {"words", "regions"} \subseteq DOMAIN job'[k]
                           /\ job'[k].words = job[k].words /\ job'[k].regions = job[k].regions
                           /\ k \notin {i, j} => job'[k] = job[k]
                           /\ k \in {i, j} => job'[k].pc \in {"rename", "merging"} /\ job[k].pc = "ready"
    BY <1>0, <2>1 DEF Jobs
  <2>3. ASSUME NEW k \in Jobs PROVE CountsStay(k)
    <3>1. CASE k \in {i, j}
      <4>1. job'[k].pc \in {"rename", "merging"} /\ job[k].pc = "ready"
        BY <2>2, <3>1
      <4>2. /\ {job[k].pc, job'[k].pc} \cap (Spending \cup {"merged"}) = {}
            /\ job[k].pc \in Open <=> job'[k].pc \in Open
            /\ job'[k].pc /= "files" /\ job[k].pc \notin {"pages", "panicked"}
        BY <4>1 DEF Spending, Open
      <4>3. disk' = disk
        BY <2>1
      <4>4. QED
        BY <1>0, <2>2, <4>2, <4>3 DEF CountsStay
    <3>2. CASE k \notin {i, j}
      BY <1>0, <2>1, <2>2, <3>2 DEF CountsStay
    <3>3. QED
      BY <3>1, <3>2
  <2>4. QED
    BY <2>1, <2>2, <2>3, CalmCounts
<1>2. CASE RenameFiles(j)
  <2>1. PICK b, c :
          /\ job[j].pc = "rename" /\ UNCHANGED <<plan, handled, earlier, runs>>
          /\ job' = [job EXCEPT ![j].pc = "clear", ![j].carried = c]
          /\ disk' = [disk EXCEPT ![with].broken = b]
    BY <1>2 DEF RenameFiles, history
  <2>2. Jobs' = Jobs /\ \A k \in Jobs : CountsStay(k)
    BY <1>0, <2>1 DEF Jobs, CountsStay, Spending, Open
  <2>3. QED
    BY <2>1, <2>2, CalmCounts
<1>3. CASE ClearOther(j)
  <2>1. /\ job[j].pc = "clear" /\ UNCHANGED <<plan, handled, earlier, runs>>
        /\ job' = [job EXCEPT ![j].pc = "meta"]
        /\ disk' = [disk EXCEPT ![with].broken = FALSE, ![with].made = FALSE,
                              ![with].segments = <<>>]
    BY <1>3 DEF ClearOther, Go, history
  <2>2. /\ Jobs' = Jobs
        /\ \A k \in Jobs : /\ {"words", "regions", "hosts"} \subseteq DOMAIN disk'[k]
                           /\ disk'[k].words = disk[k].words /\ disk'[k].regions = disk[k].regions
                           /\ disk'[k].hosts = disk[k].hosts
                           /\ {"words", "regions"} \subseteq DOMAIN job'[k]
                           /\ job'[k].words = job[k].words /\ job'[k].regions = job[k].regions
                           /\ job'[k].with = job[k].with
                           /\ k /= j => job'[k].pc = job[k].pc
        /\ job'[j].pc = "meta"
    BY <1>0, <2>1 DEF Jobs
  <2>3. ASSUME NEW k \in Jobs PROVE CountsStay(k)
    <3>1. CASE k = j
      <4>1. job[k].pc = "clear" /\ job'[k].pc = "meta"
        BY <2>1, <2>2, <3>1
      <4>2. /\ {job[k].pc, job'[k].pc} \cap (Spending \cup {"merged"}) = {}
            /\ job[k].pc \in Open <=> job'[k].pc \in Open
            /\ job'[k].pc /= "files" /\ job[k].pc \notin {"pages", "panicked"}
        BY <4>1 DEF Spending, Open
      <4>3. QED
        BY <2>2, <4>2 DEF CountsStay
    <3>2. CASE k /= j
      BY <2>2, <3>2 DEF CountsStay
    <3>3. QED
      BY <3>1, <3>2
  <2>4. QED
    BY <2>1, <2>2, <2>3, CalmCounts
<1>4. CASE WriteMeta(j)
  <2>1. PICK more :
          /\ job[j].pc = "meta" /\ UNCHANGED <<plan, handled, earlier, runs>>
          /\ job' = [job EXCEPT ![j].pc = "dictionary", ![j].carried = <<>>]
          /\ disk' = [disk EXCEPT ![j].segments = more]
    BY <1>4 DEF WriteMeta, history
  <2>2. Jobs' = Jobs /\ \A k \in Jobs : CountsStay(k)
    BY <1>0, <2>1 DEF Jobs, CountsStay, Spending, Open
  <2>3. QED
    BY <2>1, <2>2, CalmCounts
<1>5. CASE MergeWords(j)
  <2>1. PICK all, W : all = disk[j].words (+) disk[with].words /\ W = Pruned(all)
    OBVIOUS
  <2>2. /\ job[j].pc = "dictionary" /\ UNCHANGED <<plan, handled, earlier, runs>>
        /\ job' = [job EXCEPT ![j].pc = "regions"]
        /\ disk' = [disk EXCEPT ![j].words = W]
    BY <1>5, <2>1 DEF MergeWords, Go, Other, history
  <2>3. /\ Jobs' = Jobs /\ \A k \in Jobs \ {j} : CountsStay(k) /\ job'[k] = job[k]
        /\ {"words", "regions"} \subseteq DOMAIN job'[j]
        /\ {"words", "regions", "hosts"} \subseteq DOMAIN disk'[j]
        /\ job'[j].pc = "regions" /\ job'[j].words = job[j].words /\ job'[j].with = with
        /\ job'[j].regions = job[j].regions
        /\ disk'[j].hosts = disk[j].hosts /\ disk'[j].words = W
        /\ disk'[j].regions = disk[j].regions
    <3>1. Jobs' = Jobs /\ \A k \in Jobs \ {j} : job'[k] = job[k] /\ disk'[k] = disk[k]
      BY <1>0, <2>2 DEF Jobs
    <3>2. \A k \in Jobs \ {j} : CountsStay(k)
      BY <1>0, <3>1 DEF CountsStay
    <3>3. QED
      BY <1>0, <2>2, <3>1, <3>2
  <2>4. with \in Jobs /\ job[with].pc = "merging" /\ with /= j
    BY <1>0, <1>a, <2>2 DEF Merging
  <2>5. /\ IsWords(all) /\ IsWords(W) /\ DOMAIN all = DOMAIN disk[j].words \cup DOMAIN disk[with].words
        /\ \A w : Copies(w, all) = Copies(w, disk[j].words) + Copies(w, disk[with].words)
        /\ \A w : Copies(w, W) <= Copies(w, all)
        /\ Cardinality(DOMAIN all) <= TopN => \A w : Copies(w, W) = Copies(w, all)
    <3>1. IsWords(disk[j].words) /\ IsWords(disk[with].words)
      BY <1>0, <2>4 DEF Counters
    <3>2. /\ IsWords(all) /\ DOMAIN all = DOMAIN disk[j].words \cup DOMAIN disk[with].words
          /\ \A w : Copies(w, all) = Copies(w, disk[j].words) + Copies(w, disk[with].words)
      BY <2>1, <3>1, WordsAdd
    <3>3. QED
      BY <2>1, <3>2, PrunedFacts
  <2>6. Counters(j)'
    BY <1>0, <2>2, <2>3, <2>5 DEF Counters, Taking
  <2>7. HostsAgree'
    <3>1. \A k \in Jobs : disk[k].hosts \subseteq disk'[k].hosts
      BY <2>3 DEF CountsStay
    <3>2. QED
      BY <2>2, <2>3, <3>1, SameHosts
  <2>8. \A k \in Jobs : RegionsOf(k)' = RegionsOf(k)
    <3>1. RegionsOf(j)' = RegionsOf(j)
      BY <2>2, <2>3 DEF RegionsOf, Open
    <3>2. QED
      BY <2>3, <3>1, StayingCounts
  <2>9. /\ \A k \in Jobs \ {with} : Spent(k)' <=> Spent(k)
        /\ Spent(with)' /\ ~Spent(with) /\ ~Spent(j) /\ ~Spent(j)'
    <3>1. \A i \in Jobs \ {j} : job'[i].pc = job[i].pc /\ job'[i].with = job[i].with
      BY <2>3
    <3>2. job[j].pc \notin Spending /\ job'[j].pc \in Spending /\ job'[j].with = with
      BY <2>2, <2>3 DEF Spending
    <3>3. \A k \in Jobs : Spent(k)' <=> (Spent(k) \/ k = with)
      BY <2>3, <3>1, <3>2 DEF Spent
    <3>4. ~Spent(with)
      <4>1. \A i \in Jobs : job[i].pc \in Spending /\ job[i].with = with => i = j
        BY <1>b, <2>2 DEF Merging, Spending
      <4>2. QED
        BY <3>2, <4>1 DEF Spent
    <3>5. ~Spent(j)
      BY <2>2, NotMerging
    <3>6. QED
      BY <2>3, <2>4, <3>3, <3>4, <3>5
  <2>10. runs = 1 => WordsTaken(j, with)
    <3> SUFFICES ASSUME runs = 1 PROVE WordsTaken(j, with)
      OBVIOUS
    <3>1. \A w : \A k \in Jobs \ {j, with} : WordsAt(w, k)' = WordsAt(w, k)
      BY <2>3, <2>9, StayingCounts
    <3>2. Cardinality(AllWords) <= TopN => Cardinality(DOMAIN all) <= TopN
      <4>1. DOMAIN all \subseteq AllWords
        BY <2>4, <2>5, <2>9, WordsOccur DEF CInv
      <4>2. IsFiniteSet(AllWords)
        BY <1>00, AllWordsFinite DEF AllWords
      <4>3. PICK D, E : D = DOMAIN all /\ E = AllWords
        OBVIOUS
      <4>4. Cardinality(D) <= Cardinality(E) /\ IsFiniteSet(D) /\ IsFiniteSet(E)
        BY <4>1, <4>2, <4>3, FS_Subset
      <4>5. PICK d \in Nat, e \in Nat : d = Cardinality(D) /\ e = Cardinality(E)
        BY <4>4, FS_CardinalityType
      <4>6. QED
        BY <4>3, <4>4, <4>5, IndexDataAssumption
    <3>3. ASSUME NEW w
          PROVE  /\ WordsAt(w, with)' = 0
                 /\ WordsAt(w, j)' \in Nat /\ WordsAt(w, j)' <= WordsAt(w, j) + WordsAt(w, with)
                 /\ Cardinality(AllWords) <= TopN => WordsAt(w, j)' = WordsAt(w, j) + WordsAt(w, with)
      <4>1. Copies(w, W) \in Nat /\ Copies(w, job[j].words) = 0 /\ Copies(w, job[with].words) = 0
        <5>1. job[j].words = EmptyBag /\ job[with].words = EmptyBag
          BY <1>0, <2>2, <2>4 DEF Counters
        <5>2. QED
          BY <2>5, <5>1, NoWords DEF Copies, IsWords
      <4>2. PICK a \in Nat, b \in Nat : a = Copies(w, disk[j].words) /\ b = Copies(w, disk[with].words)
        BY <2>4, CountersAreCounts
      <4>3. WordsAt(w, j) = a /\ WordsAt(w, with) = b
        BY <2>9, <4>1, <4>2 DEF WordsAt
      <4>4. WordsAt(w, j)' = Copies(w, W)
        <5>1. WordsAt(w, j)' = Copies(w, disk'[j].words) + Copies(w, job'[j].words)
          BY <2>9 DEF WordsAt
        <5>2. Copies(w, disk'[j].words) = Copies(w, W) /\ Copies(w, job'[j].words) = 0
          BY <2>3, <4>1
        <5>3. QED
          BY <4>1, <5>1, <5>2
      <4>5. WordsAt(w, with)' = 0
        BY <2>9 DEF WordsAt
      <4>6. Copies(w, all) = a + b
        BY <2>5, <4>2
      <4>7. QED
        BY <2>5, <3>2, <4>1, <4>2, <4>3, <4>4, <4>5, <4>6
    <3>4. QED
      BY <3>1, <3>3 DEF WordsTaken
  <2>11. runs = 1 => RegionsAgree' /\ WordsAgree'
    <3>1. PICK k \in Jobs : k = with
      BY <2>4
    <3>2. runs = 1 => WordsTaken(j, k)
      BY <2>10, <3>1
    <3>3. k /= j
      BY <2>4, <3>1
    <3>4. QED
      BY <2>2, <2>3, <2>8, <3>2, <3>3, SameRegions, WordsMove DEF CInv
  <2>12. \A k \in Jobs \ {j} : job'[k].pc \in Taking => job[k].with /= j
    BY <2>2, <2>3, NotMerging
  <2>13. QED
    BY <1>00, <2>2, <2>3, <2>6, <2>7, <2>11, <2>12, CountsOfOne
<1>6. CASE MergeRegions(j)
  <2>1. PICK R : R = disk[j].regions (+) disk[with].regions
    OBVIOUS
  <2>2. /\ job[j].pc = "regions" /\ UNCHANGED <<plan, handled, earlier, runs>>
        /\ job' = [job EXCEPT ![j].pc = "hosts"]
        /\ disk' = [disk EXCEPT ![j].regions = R, ![with].regions = EmptyBag]
    BY <1>6, <2>1 DEF MergeRegions, Go, Other, history
  <2>3. with \in Jobs /\ job[with].pc = "merging" /\ with /= j
    BY <1>0, <1>a, <2>2 DEF Merging
  <2>4. /\ Jobs' = Jobs
        /\ \A k \in Jobs : /\ {"words", "regions", "hosts"} \subseteq DOMAIN disk'[k]
                           /\ {"words", "regions"} \subseteq DOMAIN job'[k]
                           /\ disk'[k].hosts = disk[k].hosts /\ disk'[k].words = disk[k].words
                           /\ job'[k].words = job[k].words /\ job'[k].regions = job[k].regions
                           /\ job'[k].with = job[k].with
                           /\ k /= j => job'[k].pc = job[k].pc
                           /\ k \notin {j, with} => disk'[k].regions = disk[k].regions
        /\ job'[j].pc = "hosts"
        /\ disk'[j].regions = R /\ disk'[with].regions = EmptyBag
    <3>1. /\ Jobs' = Jobs /\ job'[j].pc = "hosts"
          /\ \A k \in Jobs : /\ {"words", "regions"} \subseteq DOMAIN job'[k]
                             /\ job'[k].words = job[k].words /\ job'[k].regions = job[k].regions
                             /\ job'[k].with = job[k].with
                             /\ k /= j => job'[k].pc = job[k].pc
      BY <1>0, <2>2 DEF Jobs
    <3>2. PICK wi : wi = with
      OBVIOUS
    <3>3. wi \in Jobs /\ wi /= j /\ disk' = [disk EXCEPT ![j].regions = R, ![wi].regions = EmptyBag]
      BY <2>2, <2>3, <3>2
    <3> HIDE DEF with
    <3>4. \A k \in Jobs : /\ {"words", "regions", "hosts"} \subseteq DOMAIN disk'[k]
                          /\ disk'[k].hosts = disk[k].hosts /\ disk'[k].words = disk[k].words
                          /\ k \notin {j, wi} => disk'[k].regions = disk[k].regions
      BY <1>0, <3>3
    <3>5. disk'[j].regions = R /\ disk'[wi].regions = EmptyBag
      BY <1>0, <3>3
    <3>6. QED
      BY <3>1, <3>2, <3>4, <3>5
  <2>5. IsRegions(R)
    <3>1. IsRegions(disk[j].regions) /\ IsRegions(disk[with].regions)
      BY <1>0, <2>3 DEF Counters
    <3>2. QED
      BY <2>1, <3>1, RegionsAdd
  <2>6. ASSUME NEW k \in Jobs PROVE Counters(k)'
    <3>1. Other(k)'.hosts = Other(k).hosts
      BY <1>0, <2>4 DEF Other
    <3>2. Counters(k)
      BY <1>0
    <3>3. CASE k = j
      <4>1. Other(j)'.regions = EmptyBag
        BY <2>4 DEF Other
      <4>2. /\ job'[j].words = EmptyBag /\ IsRegions(job'[j].regions)
            /\ IsWords(disk'[j].words) /\ IsWords(job'[j].words)
        BY <2>2, <2>4, <3>2, <3>3 DEF Counters
      <4>3. QED
        BY <2>4, <2>5, <3>3, <4>1, <4>2 DEF Counters
    <3>4. CASE k = with
      BY <2>3, <2>4, <3>2, <3>4, NoRegions DEF Counters, Taking
    <3>5. CASE k \notin {j, with}
      <4>1. job[k].pc \in Taking => Other(k)'.regions = Other(k).regions
        <5>1. job[k].pc \in Taking => job[k].with \notin {j, with}
          BY <1>a, <1>b, <2>2, <3>5 DEF Merging, Taking
        <5>2. QED
          BY <1>0, <2>4, <5>1 DEF Other
      <4>2. /\ job'[k].pc = job[k].pc /\ job'[k].words = job[k].words
            /\ job'[k].regions = job[k].regions /\ disk'[k].regions = disk[k].regions
            /\ disk'[k].hosts = disk[k].hosts /\ disk'[k].words = disk[k].words
        BY <2>4, <3>5
      <4>3. QED
        BY <3>1, <3>2, <4>1, <4>2 DEF Counters
    <3>6. QED
      BY <3>3, <3>4, <3>5
  <2>7. HostsAgree'
    <3>1. \A k \in Jobs : disk[k].hosts \subseteq disk'[k].hosts
      BY <2>4
    <3>2. QED
      BY <2>2, <2>4, <3>1, SameHosts
  <2>8. runs = 1 => RegionsAgree'
    <3>1. PICK k \in Jobs : k = with
      BY <2>3
    <3>2. /\ RegionsOf(j) = disk[j].regions /\ RegionsOf(j)' = R
          /\ RegionsOf(k) = disk[k].regions /\ RegionsOf(k)' = EmptyBag
      BY <2>2, <2>3, <2>4, <3>1, ZenonT(40) DEF RegionsOf, Open
    <3>3. \A l \in Jobs \ {j, k} : RegionsOf(l)' = RegionsOf(l)
      BY <2>4, <3>1 DEF RegionsOf
    <3>4. k /= j /\ RegionsOf(j)' = RegionsOf(j) (+) RegionsOf(k)
      BY <2>1, <2>3, <3>1, <3>2
    <3>5. QED
      BY <2>2, <2>4, <3>2, <3>3, <3>4, RegionsMove DEF CInv
  <2>9. runs = 1 => WordsAgree'
    <3>1. \A k \in Jobs : Spent(k)' <=> Spent(k)
      <4>1. \A i \in Jobs : job'[i].pc \in Spending <=> job[i].pc \in Spending
        BY <2>2, <2>4 DEF Spending
      <4>2. QED
        BY <2>4, <4>1 DEF Spent
    <3>2. \A w : \A k \in Jobs : WordsAt(w, k)' = WordsAt(w, k)
      BY <2>4, <3>1 DEF WordsAt
    <3>3. QED
      BY <2>2, <2>4, <3>2, SameWords DEF CInv
  <2>10. CounterFields'
    BY <2>4 DEF CounterFields
  <2>11. QED
    BY <1>00, <2>2, <2>4, <2>6, <2>7, <2>8, <2>9, <2>10 DEF CInv
<1>7. CASE MergeHosts(j)
  <2>1. PICK H : H = disk[j].hosts \cup disk[with].hosts
    OBVIOUS
  <2>2. /\ job[j].pc = "hosts" /\ UNCHANGED <<plan, handled, earlier, runs>>
        /\ job' = [job EXCEPT ![j].pc = "remove"]
        /\ disk' = [disk EXCEPT ![j].hosts = H]
    BY <1>7, <2>1 DEF MergeHosts, Go, Other, history
  <2>3. /\ Jobs' = Jobs /\ \A k \in Jobs \ {j} : CountsStay(k) /\ job'[k] = job[k] /\ disk'[k] = disk[k]
        /\ {"words", "regions"} \subseteq DOMAIN job'[j]
        /\ {"words", "regions", "hosts"} \subseteq DOMAIN disk'[j]
        /\ job'[j].pc = "remove" /\ job'[j].words = job[j].words /\ job'[j].with = with
        /\ job'[j].regions = job[j].regions
        /\ disk'[j].hosts = H /\ disk'[j].words = disk[j].words
        /\ disk'[j].regions = disk[j].regions
    <3>1. Jobs' = Jobs /\ \A k \in Jobs \ {j} : job'[k] = job[k] /\ disk'[k] = disk[k]
      BY <1>0, <2>2 DEF Jobs
    <3>2. \A k \in Jobs \ {j} : CountsStay(k)
      BY <1>0, <3>1 DEF CountsStay
    <3>3. QED
      BY <1>0, <2>2, <3>1, <3>2
  <2>4. with \in Jobs /\ job[with].pc = "merging" /\ with /= j
    BY <1>0, <1>a, <2>2 DEF Merging
  <2>5. Counters(j)'
    <3>1. Other(j)'.hosts \subseteq disk'[j].hosts /\ Other(j)' = Other(j)
      BY <2>1, <2>3, <2>4 DEF Other
    <3>2. Counters(j)
      BY <1>0
    <3>3. QED
      BY <2>2, <2>3, <3>1, <3>2 DEF Counters, Taking
  <2>6. HostsAgree'
    <3>1. \A k \in Jobs : disk[k].hosts \subseteq disk'[k].hosts
      BY <2>1, <2>3 DEF CountsStay
    <3>2. QED
      BY <2>2, <2>3, <3>1, SameHosts
  <2>7. \A k \in Jobs : RegionsOf(k)' = RegionsOf(k)
    <3>1. RegionsOf(j)' = RegionsOf(j)
      BY <2>2, <2>3 DEF RegionsOf, Open
    <3>2. QED
      BY <2>3, <3>1, StayingCounts
  <2>8. \A w : \A k \in Jobs : WordsAt(w, k)' = WordsAt(w, k)
    <3>1. \A k \in Jobs : Spent(k)' <=> Spent(k)
      <4>1. \A i \in Jobs : /\ job'[i].pc \in Spending <=> job[i].pc \in Spending
                            /\ job'[i].with = job[i].with
        BY <2>2, <2>3 DEF Spending
      <4>2. QED
        BY <2>3, <4>1 DEF Spent
    <3>2. \A w : WordsAt(w, j)' = WordsAt(w, j)
      BY <2>3, <3>1 DEF WordsAt
    <3>3. QED
      BY <2>3, <3>1, <3>2, StayingCounts
  <2>9. runs = 1 => RegionsAgree' /\ WordsAgree'
    BY <2>2, <2>3, <2>7, <2>8, SameRegions, SameWords DEF CInv
  <2>10. \A k \in Jobs \ {j} : job'[k].pc \in Taking => job[k].with /= j
    BY <2>2, <2>3, NotMerging
  <2>11. QED
    BY <1>00, <2>2, <2>3, <2>5, <2>6, <2>9, <2>10, CountsOfOne
<1>8. CASE RemoveOther(j)
  <2>1. /\ job[j].pc = "remove" /\ UNCHANGED <<plan, handled, earlier, runs>>
        /\ job' = [job EXCEPT ![j].pc = "ready", ![j].with = j, ![with].pc = "merged"]
        /\ disk' = [disk EXCEPT ![with] = NewIndex]
    BY <1>8 DEF RemoveOther, history
  <2>2. /\ with \in Jobs /\ job[with].pc = "merging" /\ with /= j
    BY <1>0, <1>a, <2>1 DEF Merging
  <2>3. PICK wi : wi = with
    OBVIOUS
  <2>4. /\ Jobs' = Jobs
        /\ \A k \in Jobs : /\ {"words", "regions", "hosts"} \subseteq DOMAIN disk'[k]
                           /\ {"words", "regions"} \subseteq DOMAIN job'[k]
                           /\ job'[k].words = job[k].words /\ job'[k].regions = job[k].regions
                           /\ k /= wi => disk'[k] = disk[k]
                           /\ k \notin {j, wi} => job'[k] = job[k]
        /\ job'[j].pc = "ready" /\ job'[wi].pc = "merged" /\ job'[wi].with = job[wi].with
        /\ disk'[wi].words = EmptyBag /\ disk'[wi].regions = EmptyBag /\ disk'[wi].hosts = {}
    BY <1>0, <2>1, <2>2, <2>3 DEF Jobs, NewIndex
  <2>5. /\ wi \in Jobs /\ job[wi].pc = "merging" /\ wi /= j /\ job[j].with = wi
        /\ disk[wi].hosts \subseteq disk[j].hosts /\ disk[wi].regions = EmptyBag
    <3>1. Other(j).hosts \subseteq disk[j].hosts /\ Other(j).regions = EmptyBag
      BY <1>0, <2>1 DEF Counters, Taking
    <3>2. QED
      BY <2>2, <2>3, <3>1 DEF Other
  <2> HIDE DEF with
  <2>6. ASSUME NEW k \in Jobs PROVE Counters(k)'
    <3>1. Counters(k)
      BY <1>0
    <3>2. CASE k = j
      BY <2>1, <2>4, <2>5, <3>1, <3>2 DEF Counters, Taking
    <3>3. CASE k = wi
      BY <2>4, <2>5, <3>1, <3>3, NoRegions, NoWords DEF Counters, Taking
    <3>4. CASE k \notin {j, wi}
      <4>1. job[k].pc \in Taking => job[k].with /= wi
        BY <1>b, <2>1, <2>5, <3>4 DEF Merging, Taking
      <4>2. job[k].pc \in Taking => Other(k)' = Other(k)
        <5> SUFFICES ASSUME job[k].pc \in Taking PROVE Other(k)' = Other(k)
          OBVIOUS
        <5>1. job'[k] = job[k] /\ job[k].with \in Jobs /\ job[k].with /= wi
          BY <1>0, <2>4, <3>4, <4>1
        <5>2. disk'[job[k].with] = disk[job[k].with]
          BY <2>4, <5>1
        <5>3. QED
          BY <5>1, <5>2 DEF Other
      <4>3. job'[k] = job[k] /\ disk'[k] = disk[k]
        BY <2>4, <3>4
      <4>4. QED
        BY <3>1, <4>2, <4>3 DEF Counters, Taking
    <3>5. QED
      BY <3>2, <3>3, <3>4
  <2>7. HostsAgree'
    <3> SUFFICES ASSUME NEW p \in DOMAIN handled \cup DOMAIN earlier PROVE HostsHere(p)'
      BY <2>1 DEF HostsAgree
    <3>1. HostsHere(p)
      BY DEF CInv, HostsAgree
    <3>2. CASE HostOf[p.url] = Unknown
      BY <3>2 DEF HostsHere
    <3>3. CASE HostOf[p.url] /= Unknown
      <4>1. PICK k \in Jobs : HostOf[p.url] \in disk[k].hosts
        BY <3>1, <3>3 DEF HostsHere
      <4>2. CASE k = wi
        <5>1. HostOf[p.url] \in disk'[j].hosts
          BY <2>4, <2>5, <4>1, <4>2
        <5>2. QED
          BY <2>4, <5>1 DEF HostsHere
      <4>3. CASE k /= wi
        <5>1. HostOf[p.url] \in disk'[k].hosts
          BY <2>4, <4>1, <4>3
        <5>2. QED
          BY <2>4, <5>1 DEF HostsHere
      <4>4. QED
        BY <4>2, <4>3
    <3>4. QED
      BY <3>2, <3>3
  <2>8. \A k \in Jobs : RegionsOf(k)' = RegionsOf(k)
    <3> SUFFICES ASSUME NEW k \in Jobs PROVE RegionsOf(k)' = RegionsOf(k)
      OBVIOUS
    <3>1. CASE k = j
      <4>1. job[j].pc \notin Open /\ job'[j].pc \notin Open /\ disk'[j] = disk[j]
        BY <2>1, <2>4, <2>5 DEF Open
      <4>2. QED
        BY <3>1, <4>1 DEF RegionsOf
    <3>2. CASE k = wi
      BY <2>4, <2>5, <3>2 DEF RegionsOf, Open
    <3>3. CASE k \notin {j, wi}
      BY <2>4, <3>3 DEF RegionsOf
    <3>4. QED
      BY <3>1, <3>2, <3>3
  <2>9. /\ \A k \in Jobs \ {wi} : Spent(k)' <=> Spent(k)
        /\ Spent(wi) /\ ~Spent(wi)'
    <3>1. \A i \in Jobs : job'[i].pc \in Spending <=> job[i].pc \in Spending /\ i /= j
      <4>1. job[j].pc \in Spending /\ job'[j].pc \notin Spending
            /\ job[wi].pc \notin Spending /\ job'[wi].pc \notin Spending
        BY <2>1, <2>4, <2>5 DEF Spending
      <4>2. QED
        BY <2>4, <2>5, <4>1
    <3>2. \A i \in Jobs : job'[i].pc \in Spending => job'[i].with = job[i].with
      <4>1. job'[j].pc \notin Spending
        BY <2>4 DEF Spending
      <4>2. QED
        BY <2>4, <4>1
    <3>3. job[j].pc \in Spending /\ job[j].with = wi
      BY <2>1, <2>5 DEF Spending
    <3>4. \A i \in Jobs : job[i].pc \in Spending /\ job[i].with = wi => i = j
      BY <1>b, <2>1, <2>5 DEF Merging, Spending
    <3>5. \A k \in Jobs \ {wi} : Spent(k)' <=> Spent(k)
      BY <2>4, <3>1, <3>2, <3>3 DEF Spent
    <3>6. ~Spent(wi)'
      BY <2>4, <3>1, <3>2, <3>4 DEF Spent
    <3>7. Spent(wi)
      BY <3>3 DEF Spent
    <3>8. QED
      BY <3>5, <3>6, <3>7
  <2>10. \A w : \A k \in Jobs : WordsAt(w, k)' = WordsAt(w, k)
    <3> SUFFICES ASSUME NEW w, NEW k \in Jobs PROVE WordsAt(w, k)' = WordsAt(w, k)
      OBVIOUS
    <3>1. CASE k = wi
      <4>1. job[wi].words = EmptyBag
        BY <1>0, <2>5 DEF Counters
      <4>2. job'[wi].words = EmptyBag /\ disk'[wi].words = EmptyBag
        BY <2>4, <2>5, <4>1
      <4>3. WordsAt(w, wi)' = 0
        BY <2>9, <4>2, NoWords DEF WordsAt
      <4>4. WordsAt(w, wi) = 0
        BY <2>9 DEF WordsAt
      <4>5. QED
        BY <3>1, <4>3, <4>4
    <3>2. CASE k /= wi
      <4>1. disk'[k].words = disk[k].words /\ job'[k].words = job[k].words
        BY <2>4, <3>2
      <4>2. QED
        BY <2>9, <3>2, <4>1 DEF WordsAt
    <3>3. QED
      BY <3>1, <3>2
  <2>11. runs = 1 => RegionsAgree' /\ WordsAgree'
    BY <2>1, <2>4, <2>8, <2>10, SameRegions, SameWords DEF CInv
  <2>12. CounterFields'
    BY <2>4 DEF CounterFields
  <2>13. QED
    BY <1>00, <2>1, <2>4, <2>6, <2>7, <2>11, <2>12 DEF CInv
<1>9. QED
  BY <1>1, <1>2, <1>3, <1>4, <1>5, <1>6, <1>7, <1>8 DEF MergeStep

\* The end of a run moves segments only; what a new one starts with is on the disk.
LEMMA FinishRunCounts ==
  ASSUME PInv, KInv, CInv, NEW j \in Jobs, FinishRun(j)
  PROVE  CInv'
<1> USE DEF pc
<1>0. /\ DOMAIN job = Jobs /\ DOMAIN disk = Jobs
      /\ \A k \in Jobs : /\ {"pc", "with", "words", "regions"} \subseteq DOMAIN job[k]
                         /\ {"words", "regions", "hosts"} \subseteq DOMAIN disk[k]
  BY DEF PInv, Shape, CInv, CounterFields
<1>1. PICK few : few = MergeIntoSegments(disk[j].segments)
  OBVIOUS
<1>2. /\ job[j].pc = "ready" /\ UNCHANGED <<plan, handled, earlier, runs>>
      /\ job' = [job EXCEPT ![j].pc = "done"]
      /\ disk' = [disk EXCEPT ![j].segments = few]
  BY <1>1 DEF FinishRun, Go, history
<1>3. Jobs' = Jobs /\ \A k \in Jobs : CountsStay(k)
  BY <1>0, <1>2 DEF Jobs, CountsStay, Spending, Open
<1>4. QED
  BY <1>2, <1>3, CalmCounts

LEMMA RunAgainCounts ==
  ASSUME PInv, KInv, CInv, RunAgain
  PROVE  CInv'
<1> USE DEF pc
<1>0. \A j \in Jobs : /\ {"words", "regions", "hosts"} \subseteq DOMAIN disk'[j]
                      /\ disk'[j].words = disk[j].words /\ disk'[j].regions = disk[j].regions
                      /\ disk'[j].hosts = disk[j].hosts
  <2>1. ASSUME NEW j \in Jobs
        PROVE  /\ {"words", "regions", "hosts"} \subseteq DOMAIN disk'[j]
               /\ disk'[j].words = disk[j].words /\ disk'[j].regions = disk[j].regions
               /\ disk'[j].hosts = disk[j].hosts
    <3>1. Intact(j) /\ {"words", "regions", "hosts"} \subseteq DOMAIN disk[j]
      BY WhatAKillLeaves DEF PInv, Shape, CInv, CounterFields
    <3>2. QED
      BY <3>1 DEF Intact
  <2>2. QED
    BY <2>1
<1>1. /\ plan' = plan /\ job' = [j \in Jobs |-> Waiting(j)]
      /\ runs' = runs + 1 /\ earlier' = earlier (+) handled /\ handled' = EmptyBag
  BY DEF RunAgain
<1>2. /\ Jobs' = Jobs
      /\ \A j \in Jobs : /\ {"words", "regions"} \subseteq DOMAIN job'[j]
                         /\ job'[j].pc = "new"
                         /\ job'[j].words = EmptyBag /\ job'[j].regions = EmptyBag
  BY <1>1 DEF Waiting, Jobs
<1>3. CounterFields'
  BY <1>0, <1>1, <1>2 DEF CInv, CounterFields
<1>4. ASSUME NEW j \in Jobs PROVE Counters(j)'
  <2>1. Counters(j)
    BY DEF CInv
  <2>2. QED
    BY <1>0, <1>1, <1>2, <2>1, NoRegions, NoWords DEF Counters, Taking
<1>5. runs \in Nat \ {0} /\ runs' \in Nat \ {0} /\ runs' /= 1
  BY <1>1 DEF CInv
<1>6. DOMAIN handled' = {} /\ IsFiniteSet(DOMAIN handled')
  BY <1>1, FS_EmptySet DEF EmptyBag, SetToBag
<1>7. HostsAgree'
  <2>1. DOMAIN earlier' = DOMAIN earlier \cup DOMAIN handled
    BY <1>1, HistoriesAdd DEF KInv
  <2>2. QED
    BY <1>0, <1>1, <1>2, <1>6, <2>1 DEF HostsAgree, HostsHere, CInv
<1>8. QED
  BY <1>2, <1>3, <1>4, <1>5, <1>6, <1>7 DEF CInv

LEMMA CountStep == PInv /\ KInv /\ CInv /\ [Next]_vars => CInv'
<1> SUFFICES ASSUME PInv, KInv, CInv, [Next]_vars PROVE CInv'
  OBVIOUS
<1>1. CASE UNCHANGED vars
  <2>1. UNCHANGED <<plan, disk, job, runs, handled, earlier>>
    BY <1>1 DEF vars
  <2>2. Jobs' = Jobs /\ \A k \in Jobs : CountsStay(k)
    BY <2>1 DEF Jobs, CountsStay, pc, CInv, CounterFields
  <2>3. QED
    BY <2>1, <2>2, CalmCounts
<1>2. QED
  BY <1>1, JobStepCounts, MergeStepCounts, FinishRunCounts, RunAgainCounts DEF Next, Work

----------------------------------------------------------------------------
\* The counters are functions: each was added up, pruned or is empty.
IsFcn(f) == f = [x \in DOMAIN f |-> f[x]]
Functional == \A j \in Jobs : /\ IsFcn(disk[j].words) /\ IsFcn(disk[j].regions)
                              /\ IsFcn(job[j].regions)

Made(k) ==
  /\ \/ disk'[k].words \in {disk[k].words, EmptyBag}
     \/ \E words : disk'[k].words = Pruned(words)
  /\ \/ disk'[k].regions \in {disk[k].regions, job[k].regions, EmptyBag}
     \/ \E a, b : disk'[k].regions = a (+) b
  /\ \/ job'[k].regions \in {disk[k].regions, job[k].regions, EmptyBag}
     \/ \E a, b : job'[k].regions = a (+) b

LEMMA FunctionsAreMade ==
  /\ IsFcn(EmptyBag)
  /\ \A words : IsFcn(Pruned(words))
  /\ \A a, b : IsFcn(a (+) b)
<1>1. IsFcn(EmptyBag)
  BY DEF IsFcn, EmptyBag, SetToBag
<1>2. ASSUME NEW words PROVE IsFcn(Pruned(words))
  BY DEF IsFcn, Pruned
<1>3. ASSUME NEW a, NEW b PROVE IsFcn(a (+) b)
  BY DEF IsFcn, (+)
<1>4. QED
  BY <1>1, <1>2, <1>3

LEMMA MadeAreFunctional ==
  ASSUME Functional, Jobs' = Jobs, \A k \in Jobs : Made(k)
  PROVE  Functional'
<1> SUFFICES ASSUME NEW k \in Jobs
             PROVE  /\ IsFcn(disk'[k].words) /\ IsFcn(disk'[k].regions)
                    /\ IsFcn(job'[k].regions)
  BY DEF Functional
<1>1. Made(k) /\ IsFcn(disk[k].words) /\ IsFcn(disk[k].regions) /\ IsFcn(job[k].regions)
  BY DEF Functional
<1>2. IsFcn(disk'[k].words)
  BY <1>1, FunctionsAreMade DEF Made
<1>3. IsFcn(disk'[k].regions)
  BY <1>1, FunctionsAreMade DEF Made
<1>4. IsFcn(job'[k].regions)
  BY <1>1, FunctionsAreMade DEF Made
<1>5. QED
  BY <1>2, <1>3, <1>4

LEMMA StepsMake ==
  ASSUME PInv, CInv, [Next]_vars
  PROVE  Jobs' = Jobs /\ \A k \in Jobs : Made(k)
<1>0. /\ DOMAIN job = Jobs /\ DOMAIN disk = Jobs
      /\ \A k \in Jobs : /\ {"pc", "with", "words", "regions"} \subseteq DOMAIN job[k]
                         /\ {"words", "regions", "hosts"} \subseteq DOMAIN disk[k]
                         /\ job[k].with \in Jobs
  BY DEF PInv, Shape, CInv, CounterFields
<1>1. Jobs' = Jobs
  <2>1. plan' = plan
    <3>1. ASSUME NEW j \in Jobs, JobStep(j) PROVE plan' = plan
      BY <3>1, ZenonT(40) DEF JobStep, StartJob, DownloadFails, NextFile, InsertPage, CommitWords,
         CommitPages, CommitRegions, FinishJob, DownloadImages
    <3>2. ASSUME NEW j \in Jobs, MergeStep(j) PROVE plan' = plan
      <4>1. CASE \E k \in Jobs : StartMerge(j, k)
        BY <4>1 DEF StartMerge
      <4>2. CASE RenameFiles(j) \/ ClearOther(j) \/ WriteMeta(j)
        BY <4>2 DEF RenameFiles, ClearOther, WriteMeta
      <4>3. CASE MergeWords(j) \/ MergeRegions(j) \/ MergeHosts(j) \/ RemoveOther(j)
        BY <4>3 DEF MergeWords, MergeRegions, MergeHosts, RemoveOther
      <4>4. QED
        BY <3>2, <4>1, <4>2, <4>3 DEF MergeStep
    <3>3. QED
      BY <3>1, <3>2 DEF Next, Work, FinishRun, RunAgain, vars
  <2>2. QED
    BY <2>1 DEF Jobs
<1>2. ASSUME NEW j \in Jobs, JobStep(j), NEW k \in Jobs PROVE Made(k)
  <2>1. CASE StartJob(j)
    BY <1>0, <2>1 DEF StartJob, Made
  <2>2. CASE \/ DownloadFails(j) \/ NextFile(j) \/ CommitPages(j)
             \/ FinishJob(j) \/ DownloadImages(j)
    <3>1. /\ disk'[k].words = disk[k].words /\ disk'[k].regions = disk[k].regions
          /\ job'[k].regions = job[k].regions
      <4>1. CASE DownloadFails(j)
        BY <1>0, <4>1 DEF DownloadFails
      <4>2. CASE NextFile(j)
        BY <1>0, <4>2, SMTT(30) DEF NextFile
      <4>3. CASE CommitPages(j)
        BY <1>0, <4>3 DEF CommitPages
      <4>4. CASE FinishJob(j) \/ DownloadImages(j)
        BY <1>0, <4>4 DEF FinishJob, DownloadImages, Go
      <4>5. QED
        BY <2>2, <4>1, <4>2, <4>3, <4>4
    <3>2. QED
      BY <3>1 DEF Made
  <2>3. CASE InsertPage(j)
    BY <1>0, <2>3 DEF InsertPage, Made
  <2>4. CASE CommitWords(j)
    BY <1>0, <2>4 DEF CommitWords, Made
  <2>5. CASE CommitRegions(j)
    BY <1>0, <2>5 DEF CommitRegions, Go, Made
  <2>6. QED
    BY <1>2, <2>1, <2>2, <2>3, <2>4, <2>5 DEF JobStep
<1>3. ASSUME NEW j \in Jobs, MergeStep(j), NEW k \in Jobs PROVE Made(k)
  <2>1. CASE \E i \in Jobs : StartMerge(j, i)
    BY <1>0, <2>1 DEF StartMerge, Made
  <2>2. CASE RenameFiles(j) \/ ClearOther(j) \/ WriteMeta(j) \/ MergeHosts(j)
    BY <1>0, <2>2 DEF RenameFiles, ClearOther, WriteMeta, MergeHosts, Go, Made
  <2>3. CASE MergeWords(j)
    BY <1>0, <2>3 DEF MergeWords, Go, Made
  <2>4. CASE MergeRegions(j)
    BY <1>0, <2>4 DEF MergeRegions, Go, Made
  <2>5. CASE RemoveOther(j)
    BY <1>0, <2>5 DEF RemoveOther, NewIndex, Made
  <2>6. QED
    BY <1>3, <2>1, <2>2, <2>3, <2>4, <2>5 DEF MergeStep
<1>4. ASSUME NEW j \in Jobs, FinishRun(j), NEW k \in Jobs PROVE Made(k)
  BY <1>0, <1>4 DEF FinishRun, Go, Made
<1>5. ASSUME RunAgain, NEW k \in Jobs PROVE Made(k)
  <2>1. Intact(k)
    BY <1>0, <1>5, WhatAKillLeaves
  <2>2. disk'[k].words = disk[k].words /\ disk'[k].regions = disk[k].regions
    BY <1>0, <2>1 DEF Intact
  <2>3. QED
    BY <1>5, <2>2 DEF RunAgain, Waiting, Made
<1>6. ASSUME UNCHANGED vars, NEW k \in Jobs PROVE Made(k)
  BY <1>6 DEF vars, Made
<1>7. QED
  BY <1>1, <1>2, <1>3, <1>4, <1>5, <1>6 DEF Next, Work

\* A sum is none when each of its parts is.
LEMMA SumOfSome ==
  ASSUME NEW c, IsCount(c)
  PROVE  Total(c) /= 0 <=> \E i \in DOMAIN c : c[i] /= 0
<1>1. ASSUME NEW i \in DOMAIN c, c[i] /= 0 PROVE Total(c) /= 0
  <2>1. PICK a \in Nat, b \in Nat : a = Total(But(c, i)) /\ b = c[i]
    BY TotalSplits DEF IsCount
  <2>2. Total(c) = a + b
    BY <2>1, TotalSplits
  <2>3. QED
    BY <1>1, <2>1, <2>2
<1>2. QED
  BY <1>1, TotalOfNone

\* When a run is done all counters are those of the index that is left.
LEMMA DoneCountsAll ==
  ASSUME KInv, CInv, NEW j \in Jobs, Done(j)
  PROVE  /\ \A k \in Jobs \ {j} : disk[k].hosts = {}
         /\ \A v : RegionsIn(v) = Copies(v, disk[j].regions)
         /\ \A w : WordsIn(w) = Copies(w, disk[j].words)
<1> USE DEF pc
<1>0. job[j].pc = "done"
  BY DEF Done
<1>1. \A k \in Jobs \ {j} : job[k].pc = "merged"
  BY <1>0 DEF KInv, Apart, Structure, OnlyOneLeft
<1>2. \A k \in Jobs \ {j} : /\ disk[k].hosts = {} /\ job[k].words = EmptyBag
                            /\ disk[k].words = EmptyBag /\ disk[k].regions = EmptyBag
  BY <1>1 DEF CInv, Counters
<1>3. job[j].words = EmptyBag
  BY <1>0 DEF CInv, Counters
<1>4. ~Spent(j)
  <2>1. \A k \in Jobs : job[k].pc \in {"merged", "done"}
    BY <1>0, <1>1
  <2>2. QED
    BY <2>1 DEF Spent, Spending
<1>5. ASSUME NEW c, IsCount(c), DOMAIN c = Jobs, \A k \in Jobs \ {j} : c[k] = 0
      PROVE  Total(c) = c[j]
  <2>1. Total(But(c, j)) = 0
    BY <1>5, TotalOfNone DEF But
  <2>2. PICK n \in Nat : n = c[j]
    BY <1>5 DEF IsCount
  <2>3. QED
    BY <1>5, <2>1, <2>2, TotalSplits
<1>6. ASSUME NEW v PROVE RegionsIn(v) = Copies(v, disk[j].regions)
  <2>1. PICK c : c = RegionHoldings(v)
    OBVIOUS
  <2>2. IsCount(c) /\ DOMAIN c = Jobs /\ \A k \in Jobs : c[k] = Copies(v, RegionsOf(k))
    BY <2>1, CountersAreCounts
  <2>3. \A k \in Jobs : RegionsOf(k) = disk[k].regions
    BY <1>0, <1>1 DEF RegionsOf, Open
  <2>4. \A k \in Jobs \ {j} : c[k] = 0
    BY <1>2, <2>2, <2>3, NoWords
  <2>5. Total(c) = c[j]
    BY <1>5, <2>2, <2>4
  <2>6. QED
    BY <2>1, <2>2, <2>3, <2>5 DEF RegionsIn
<1>7. ASSUME NEW w PROVE WordsIn(w) = Copies(w, disk[j].words)
  <2>1. PICK c : c = WordHoldings(w)
    OBVIOUS
  <2>2. IsCount(c) /\ DOMAIN c = Jobs /\ \A k \in Jobs : c[k] = WordsAt(w, k)
    BY <2>1, CountersAreCounts
  <2>3. \A k \in Jobs \ {j} : c[k] = 0
    BY <1>2, <2>2, NoWords DEF WordsAt
  <2>4. Copies(w, disk[j].words) \in Nat
    BY CountersAreCounts
  <2>5. c[j] = Copies(w, disk[j].words)
    BY <1>3, <1>4, <2>2, <2>4, NoWords DEF WordsAt
  <2>6. Total(c) = c[j]
    BY <1>5, <2>2, <2>3
  <2>7. QED
    BY <2>1, <2>5, <2>6 DEF WordsIn
<1>8. QED
  BY <1>2, <1>6, <1>7

LEMMA HostsAreKnown ==
  ASSUME KInv, CInv
  PROVE  SubdomainsAreKnown
<1> SUFFICES ASSUME NEW j \in Jobs, Done(j), NEW page \in DOMAIN Indexed(j)
             PROVE  HostOf[page.url] \in disk[j].hosts \cup {Unknown}
  BY DEF SubdomainsAreKnown
<1>1. page \in DOMAIN (handled (+) earlier)
  BY StayingIsThere DEF EveryPageIsThere, Searchable, \sqsubseteq
<1>2. page \in DOMAIN handled \cup DOMAIN earlier
  BY <1>1, HistoriesAdd DEF KInv
<1>3. HostsHere(page)
  BY <1>2 DEF CInv, HostsAgree
<1>4. QED
  BY <1>3, DoneCountsAll DEF HostsHere

LEMMA RegionsAreTold ==
  ASSUME KInv, CInv, Functional
  PROVE  RegionsTellThePages
<1> SUFFICES ASSUME runs = 1, NEW j \in Jobs, Done(j)
             PROVE  disk[j].regions
                      = [v \in {RegionOf[p.body] : p \in DOMAIN handled} \ {Unknown} |-> PagesWith(v, handled)]
  BY DEF RegionsTellThePages
<1>1. PICK r, V : r = disk[j].regions /\ V = {RegionOf[p.body] : p \in DOMAIN handled} \ {Unknown}
  OBVIOUS
<1>2. IsRegions(r) /\ IsFcn(r)
  BY <1>1 DEF CInv, Counters, Functional
<1>3. \A v : v /= Unknown => Copies(v, r) = PagesWith(v, handled)
  BY <1>1, DoneCountsAll DEF CInv, RegionsAgree
<1>4. ASSUME NEW v PROVE PagesWith(v, handled) /= 0 <=> \E p \in DOMAIN handled : RegionOf[p.body] = v
  <2>1. PICK c : c = [p \in {q \in DOMAIN handled : RegionOf[q.body] = v} |-> handled[p]]
    OBVIOUS
  <2>2. DOMAIN c = {p \in DOMAIN handled : RegionOf[p.body] = v} /\ \A p \in DOMAIN c : c[p] = handled[p]
    BY <2>1
  <2>3. IsFiniteSet(DOMAIN c)
    BY <2>2, FS_Subset DEF CInv
  <2>4. \A p \in DOMAIN c : c[p] \in Nat /\ c[p] /= 0
    BY <2>2 DEF KInv, IsHistory
  <2>5. Total(c) /= 0 <=> DOMAIN c /= {}
    BY <2>3, <2>4, SumOfSome DEF IsCount
  <2>6. PagesWith(v, handled) = Total(c)
    BY <2>1 DEF PagesWith
  <2>7. QED
    BY <2>2, <2>5, <2>6
<1>5. DOMAIN r = V
  <2>1. \A v : v \in DOMAIN r <=> v /= Unknown /\ Copies(v, r) /= 0
    BY <1>2 DEF IsRegions, IsHistory, Copies
  <2>2. \A v : v \in V <=> v /= Unknown /\ PagesWith(v, handled) /= 0
    BY <1>1, <1>4
  <2>3. QED
    BY <1>3, <2>1, <2>2
<1>6. \A v \in DOMAIN r : r[v] = PagesWith(v, handled)
  BY <1>2, <1>3 DEF IsRegions, Copies
<1>7. r = [v \in V |-> PagesWith(v, handled)]
  BY <1>2, <1>5, <1>6 DEF IsFcn
<1>8. QED
  BY <1>1, <1>7

LEMMA WordsAreTold ==
  ASSUME KInv, CInv, Functional
  PROVE  WordsTellThePages
<1> SUFFICES ASSUME runs = 1, NEW j \in Jobs, Done(j)
             PROVE  /\ \A w \in DOMAIN disk[j].words : disk[j].words[w] <= Occurrences(w, handled)
                    /\ Cardinality(AllWords) <= TopN =>
                         disk[j].words = [w \in AllWords |-> Occurrences(w, handled)]
  BY DEF WordsTellThePages, AllWords
<1>1. PICK d : d = disk[j].words
  OBVIOUS
<1>2. IsWords(d) /\ IsFcn(d)
  BY <1>1 DEF CInv, Counters, Functional
<1>3. \A w : /\ Copies(w, d) <= Occurrences(w, handled)
             /\ Cardinality(AllWords) <= TopN => Copies(w, d) = Occurrences(w, handled)
  BY <1>1, DoneCountsAll DEF CInv, WordsAgree
<1>4. \A w \in DOMAIN d : d[w] <= Occurrences(w, handled)
  BY <1>3 DEF Copies
<1>5. ASSUME NEW w PROVE Occurrences(w, handled) /= 0 <=> w \in AllWords
  <2>1. PICK c : c = [p \in DOMAIN handled |-> handled[p] * Copies(w, WordsOn(p))]
    OBVIOUS
  <2>2. ASSUME NEW p \in DOMAIN handled
        PROVE  c[p] \in Nat /\ (c[p] /= 0 <=> w \in DOMAIN WordsOn(p))
    <3>1. IsWords(WordsOn(p))
      BY WordsOnAreWords
    <3>2. /\ Copies(w, WordsOn(p)) \in Nat
          /\ Copies(w, WordsOn(p)) /= 0 <=> w \in DOMAIN WordsOn(p)
      BY <3>1 DEF IsWords, Copies
    <3>3. PICK m \in Nat \ {0}, n \in Nat : m = handled[p] /\ n = Copies(w, WordsOn(p))
      BY <3>2 DEF KInv, IsHistory
    <3>4. m * n \in Nat /\ (m * n /= 0 <=> n /= 0)
      <4>1. CASE n = 0
        BY <4>1
      <4>2. CASE n /= 0
        <5>1. PICK a \in Nat, b \in Nat : m = a + 1 /\ n = b + 1
          <6>1. m - 1 \in Nat /\ n - 1 \in Nat
            BY <4>2
          <6>2. m = (m - 1) + 1 /\ n = (n - 1) + 1
            OBVIOUS
          <6>3. QED
            BY <6>1, <6>2
        <5>2. m * n = a * b + a + b + 1 /\ a * b \in Nat
          BY <5>1
        <5>3. QED
          BY <4>2, <5>2
      <4>3. QED
        BY <4>1, <4>2
    <3>5. c[p] = m * n
      BY <2>1, <3>3
    <3>6. QED
      BY <3>2, <3>3, <3>4, <3>5
  <2>3. DOMAIN c = DOMAIN handled /\ IsCount(c)
    <3>1. DOMAIN c = DOMAIN handled
      BY <2>1
    <3>2. QED
      BY <2>2, <3>1 DEF CInv, IsCount
  <2>4. Total(c) /= 0 <=> \E p \in DOMAIN handled : w \in DOMAIN WordsOn(p)
    BY <2>2, <2>3, SumOfSome
  <2>5. Occurrences(w, handled) = Total(c)
    BY <2>1 DEF Occurrences
  <2>6. QED
    BY <2>4, <2>5 DEF AllWords
<1>6. ASSUME Cardinality(AllWords) <= TopN PROVE d = [w \in AllWords |-> Occurrences(w, handled)]
  <2>1. \A w : Copies(w, d) = Occurrences(w, handled)
    BY <1>3, <1>6
  <2>2. \A w : w \in DOMAIN d <=> Copies(w, d) /= 0
    BY <1>2 DEF IsWords, Copies
  <2>3. DOMAIN d = AllWords
    BY <1>5, <2>1, <2>2
  <2>4. \A w \in DOMAIN d : d[w] = Occurrences(w, handled)
    BY <2>1 DEF Copies
  <2>5. QED
    BY <1>2, <2>3, <2>4 DEF IsFcn
<1>7. QED
  BY <1>1, <1>4, <1>6

LEMMA CountersHold == Spec => [](PInv /\ KInv /\ CInv /\ Functional)
<1>1. Init => PInv /\ KInv /\ CInv /\ Functional
  <2> SUFFICES ASSUME Init PROVE Functional
    BY PanicInit, StayInit, CountInit
  <2>1. \A j \in Jobs : disk[j].words = EmptyBag /\ disk[j].regions = EmptyBag
                        /\ job[j].regions = EmptyBag
    BY DEF Init, NewIndex, Waiting
  <2>2. QED
    BY <2>1, FunctionsAreMade DEF Functional
<1>2. PInv /\ KInv /\ CInv /\ Functional /\ [Next]_vars
        => PInv' /\ KInv' /\ CInv' /\ Functional'
  BY PanicStep, StayStep, CountStep, StepsMake, MadeAreFunctional
<1>3. QED
  BY <1>1, <1>2, PTL DEF Spec

\* Whatever was interrupted and however the indexes are merged, the finished index
\* knows the subdomain of each of its pages.  In a run that was not interrupted each
\* of its regions has as many pages as were handled of it, and no region is without
\* any; and the dictionary, pruned at every commit and every merge, counts no word
\* too often, and exactly as often as it was handled while there are no more words
\* than a dictionary keeps.
THEOREM CountersAreRight == Spec => []CountersTellThePages
<1>1. PInv /\ KInv /\ CInv /\ Functional => SubdomainsAreKnown
  BY HostsAreKnown
<1>2. PInv /\ KInv /\ CInv /\ Functional => RegionsTellThePages
  BY RegionsAreTold
<1>3. PInv /\ KInv /\ CInv /\ Functional => WordsTellThePages
  BY WordsAreTold
<1>4. PInv /\ KInv /\ CInv /\ Functional => CountersTellThePages
  BY <1>1, <1>2, <1>3 DEF CountersTellThePages
<1>5. QED
  BY <1>4, CountersHold, PTL

----------------------------------------------------------------------------
\* What a job takes out of its files: of a sequence the elements that are good.
OnePicked(out, x, good) == IF x \in good THEN Append(out, x) ELSE out
Picks(f, seq, good, n) ==
  f = [i \in 0 .. n |-> IF i = 0 THEN <<>> ELSE OnePicked(f[i - 1], seq[i], good)]

\* The recursive definition of Selected defines something.
LEMMA PicksExist ==
  ASSUME NEW seq, NEW good, NEW n \in Nat
  PROVE  \E f : Picks(f, seq, good, n)
<1> DEFINE S == {i \in Nat : \E f : Picks(f, seq, good, i)}
<1>1. 0 \in S
  <2>1. PICK f : f = [i \in 0 .. 0 |-> <<>>]
    OBVIOUS
  <2>2. \A i \in 0 .. 0 : i = 0
    OBVIOUS
  <2>3. f = [i \in 0 .. 0 |->
               IF i = 0 THEN <<>> ELSE OnePicked(f[i - 1], seq[i], good)]
    BY <2>1, <2>2
  <2>4. QED
    BY <2>3 DEF Picks
<1>2. ASSUME NEW i \in Nat, i \in S PROVE i + 1 \in S
  <2>1. PICK f : Picks(f, seq, good, i)
    BY <1>2
  <2>2. PICK g : g = [k \in 0 .. i + 1 |->
                        IF k = 0 THEN <<>> ELSE OnePicked(f[k - 1], seq[k], good)]
    OBVIOUS
  <2>3. \A k \in 0 .. i : g[k] = f[k]
    BY <2>1, <2>2 DEF Picks
  <2>4. \A k \in 0 .. i + 1 : k /= 0 => k - 1 \in 0 .. i
    OBVIOUS
  <2>5. \A k \in 0 .. i + 1 : k /= 0 => g[k - 1] = f[k - 1]
    BY <2>3, <2>4
  <2>6. g = [k \in 0 .. i + 1 |->
               IF k = 0 THEN <<>> ELSE OnePicked(g[k - 1], seq[k], good)]
    BY <2>2, <2>5
  <2>7. QED
    BY <2>6 DEF Picks
<1> HIDE DEF S
<1>3. n \in S
  BY <1>1, <1>2, SetInduction
<1>4. QED
  BY <1>3 DEF S

\* What is selected was in the sequence, and is good.
LEMMA SelectedFacts ==
  ASSUME NEW S, NEW seq \in Seq(S), NEW good
  PROVE  Selected(seq, good) \in Seq(S \cap good)
<1>1. PICK n \in Nat : n = Len(seq)
  BY LenProperties
<1>2. PICK f : f = CHOOSE g : Picks(g, seq, good, n)
  OBVIOUS
<1>3. Picks(f, seq, good, n)
  BY <1>2, PicksExist
<1>4. Selected(seq, good) = f[n]
  BY <1>1, <1>2 DEF Selected, Picks, OnePicked
<1>5. f[0] = <<>> /\ \A i \in 1 .. n : f[i] = OnePicked(f[i - 1], seq[i], good)
  BY <1>3 DEF Picks
<1> DEFINE T == {i \in Nat : i <= n => f[i] \in Seq(S \cap good)}
<1>6. 0 \in T
  <2>1. <<>> \in Seq(S \cap good)
    BY EmptySeq
  <2>2. QED
    BY <1>5, <2>1
<1>7. ASSUME NEW i \in Nat, i \in T PROVE i + 1 \in T
  <2> SUFFICES ASSUME i + 1 <= n PROVE f[i + 1] \in Seq(S \cap good)
    OBVIOUS
  <2>1. i <= n /\ i + 1 \in 1 .. n /\ (i + 1) - 1 = i
    OBVIOUS
  <2>2. f[i] \in Seq(S \cap good)
    BY <1>7, <2>1
  <2>3. f[i + 1] = OnePicked(f[i], seq[i + 1], good)
    BY <1>5, <2>1
  <2>4. seq[i + 1] \in S
    BY <1>1, <2>1, ElementOfSeq
  <2>5. QED
    BY <2>2, <2>3, <2>4, AppendProperties DEF OnePicked
<1> HIDE DEF T
<1>8. n \in T
  BY <1>6, <1>7, SetInduction
<1>9. QED
  BY <1>4, <1>8 DEF T

----------------------------------------------------------------------------
\* A buffer that the file begins with.
Begins(buf, file) ==
  /\ \E S : buf \in Seq(S)
  /\ Len(buf) <= Len(file)
  /\ \A i \in 1 .. Len(buf) : buf[i] = file[i]

\* What an attempt writes over the rest of an earlier one begins the file too.
LEMMA OverwriteFacts ==
  ASSUME NEW S, NEW file \in Seq(S), NEW buf, Begins(buf, file), NEW bytes, Begins(bytes, file)
  PROVE  /\ Begins(Overwrite(buf, bytes), file)
         /\ Len(bytes) = Len(file) => Overwrite(buf, bytes) = file
<1>1. PICK R : buf \in Seq(R) /\ bytes \in Seq(R) /\ file \in Seq(R)
  <2>1. PICK A, B : buf \in Seq(A) /\ bytes \in Seq(B)
    BY DEF Begins
  <2>2. \A C, D : C \subseteq D => Seq(C) \subseteq Seq(D)
    OBVIOUS
  <2>3. PICK D : D = A \cup B \cup S
    OBVIOUS
  <2>4. A \subseteq D /\ B \subseteq D /\ S \subseteq D
    BY <2>3
  <2>5. buf \in Seq(D) /\ bytes \in Seq(D) /\ file \in Seq(D)
    BY <2>1, <2>2, <2>4
  <2>6. QED
    BY <2>5
<1>2. PICK m \in Nat, n \in Nat, l \in Nat : m = Len(buf) /\ n = Len(bytes) /\ l = Len(file)
  BY <1>1, LenProperties
<1>3. m <= l /\ n <= l /\ (\A i \in 1 .. m : buf[i] = file[i]) /\ \A i \in 1 .. n : bytes[i] = file[i]
  BY <1>2 DEF Begins
<1>4. PICK rest : rest = SubSeq(buf, n + 1, m)
  OBVIOUS
<1>5. /\ rest \in Seq(R) /\ Len(rest) = IF n < m THEN m - n ELSE 0
      /\ \A i \in 1 .. m - n : rest[i] = buf[n + i]
  BY <1>1, <1>2, <1>4, SMTT(30)
<1>6. PICK out : out = bytes \o rest
  OBVIOUS
<1>7. /\ out \in Seq(R) /\ Len(out) = IF n < m THEN m ELSE n
      /\ \A i \in 1 .. n : out[i] = bytes[i]
      /\ \A i \in n + 1 .. m : out[i] = rest[i - n]
  BY <1>1, <1>2, <1>5, <1>6, ConcatProperties, SMTT(30)
<1>8. \A i \in 1 .. Len(out) : out[i] = file[i]
  <2> SUFFICES ASSUME NEW i \in 1 .. Len(out) PROVE out[i] = file[i]
    OBVIOUS
  <2>1. CASE i <= n
    BY <1>3, <1>7, <2>1
  <2>2. CASE i > n
    <3>1. i \in n + 1 .. m /\ i - n \in 1 .. m - n /\ n + (i - n) = i /\ i \in 1 .. m
      BY <1>2, <1>7, <2>2
    <3>2. QED
      BY <1>3, <1>5, <1>7, <3>1
  <2>3. QED
    BY <1>2, <1>7, <2>1, <2>2
<1>9. Overwrite(buf, bytes) = out
  BY <1>2, <1>4, <1>6 DEF Overwrite
<1>10. Begins(out, file)
  BY <1>2, <1>3, <1>7, <1>8 DEF Begins
<1>11. ASSUME n = l PROVE out = file
  <2>1. Len(out) = Len(file)
    BY <1>2, <1>3, <1>7, <1>11
  <2>2. QED
    BY <1>1, <1>7, <1>8, <2>1, SeqEqual
<1>12. QED
  BY <1>2, <1>9, <1>10, <1>11

\* The recursive definition of Partial defines something.
Tried(bufs, file) == {Overwrite(buf, SubSeq(file, 1, n)) : buf \in bufs, n \in 0 .. Len(file)}
Tries(f, file, m) ==
  f = [k \in 0 .. m |-> IF k = 0 THEN {<<>>} ELSE Tried(f[k - 1], file)]

LEMMA TriesExist ==
  ASSUME NEW file, NEW m \in Nat
  PROVE  \E f : Tries(f, file, m)
<1> DEFINE S == {i \in Nat : \E f : Tries(f, file, i)}
<1>1. 0 \in S
  <2>1. PICK f : f = [i \in 0 .. 0 |-> {<<>>}]
    OBVIOUS
  <2>2. \A i \in 0 .. 0 : i = 0
    OBVIOUS
  <2>3. f = [i \in 0 .. 0 |-> IF i = 0 THEN {<<>>} ELSE Tried(f[i - 1], file)]
    BY <2>1, <2>2
  <2>4. QED
    BY <2>3 DEF Tries
<1>2. ASSUME NEW i \in Nat, i \in S PROVE i + 1 \in S
  <2>1. PICK f : Tries(f, file, i)
    BY <1>2
  <2>2. PICK g : g = [k \in 0 .. i + 1 |->
                        IF k = 0 THEN {<<>>} ELSE Tried(f[k - 1], file)]
    OBVIOUS
  <2>3. ASSUME NEW k \in 0 .. i PROVE g[k] = f[k]
    <3>1. f[k] = IF k = 0 THEN {<<>>} ELSE Tried(f[k - 1], file)
      BY <2>1, Zenon DEF Tries
    <3>2. k \in 0 .. i + 1
      OBVIOUS
    <3>3. QED
      BY <2>2, <3>1, <3>2, Zenon
  <2>4. \A k \in 0 .. i + 1 : k /= 0 => k - 1 \in 0 .. i
    OBVIOUS
  <2>5. \A k \in 0 .. i + 1 : k /= 0 => g[k - 1] = f[k - 1]
    BY <2>3, <2>4
  <2>6. g = [k \in 0 .. i + 1 |-> IF k = 0 THEN {<<>>} ELSE Tried(g[k - 1], file)]
    BY <2>2, <2>5
  <2>7. QED
    BY <2>6 DEF Tries
<1> HIDE DEF S
<1>3. m \in S
  BY <1>1, <1>2, SetInduction
<1>4. QED
  BY <1>3 DEF S

\* What failed attempts leave is what the file begins with.
LEMMA PartialFacts ==
  ASSUME NEW S, NEW file \in Seq(S), NEW buf \in Partial(file)
  PROVE  Begins(buf, file)
<1>1. PICK m \in Nat : m = Attempts - 1
  BY AttemptsAssumption
<1>2. PICK f : f = CHOOSE g : Tries(g, file, m)
  OBVIOUS
<1>3. Tries(f, file, m)
  BY <1>2, TriesExist
<1>4. Partial(file) = UNION {f[k] : k \in 0 .. m}
  BY <1>1, <1>2 DEF Partial, Tries, Tried
<1>5. f[0] = {<<>>} /\ \A k \in 1 .. m : f[k] = Tried(f[k - 1], file)
  <2>1. \A k \in 0 .. m : f[k] = IF k = 0 THEN {<<>>} ELSE Tried(f[k - 1], file)
    BY <1>3, Zenon DEF Tries
  <2>2. 0 \in 0 .. m /\ \A k \in 1 .. m : k \in 0 .. m /\ k /= 0
    OBVIOUS
  <2>3. QED
    BY <2>1, <2>2, Zenon
<1>6. PICK l \in Nat : l = Len(file)
  BY LenProperties
<1> DEFINE T == {k \in Nat : k <= m => \A b \in f[k] : Begins(b, file)}
<1>7. 0 \in T
  <2>1. <<>> \in Seq(S) /\ Len(<<>>) = 0
    BY EmptySeq
  <2>2. Begins(<<>>, file)
    BY <1>6, <2>1 DEF Begins
  <2>3. QED
    BY <1>5, <2>2
<1>8. ASSUME NEW k \in Nat, k \in T PROVE k + 1 \in T
  <2> SUFFICES ASSUME k + 1 <= m, NEW b \in f[k + 1] PROVE Begins(b, file)
    OBVIOUS
  <2>1. k <= m /\ k + 1 \in 1 .. m /\ (k + 1) - 1 = k
    OBVIOUS
  <2>2. f[k + 1] = Tried(f[k], file)
    BY <1>5, <2>1
  <2>3. PICK a \in f[k], n \in 0 .. l : b = Overwrite(a, SubSeq(file, 1, n))
    BY <1>6, <2>2 DEF Tried
  <2>4. Begins(a, file)
    BY <1>8, <2>1
  <2>5. PICK bytes : bytes = SubSeq(file, 1, n)
    OBVIOUS
  <2>6. \A i \in 1 .. n : file[i] \in S
    BY <1>6, ElementOfSeq
  <2>7. bytes \in Seq(S) /\ Len(bytes) = n /\ \A i \in 1 .. n : bytes[i] = file[i]
    BY <2>5, <2>6, SubSeqProperties
  <2>8. Begins(bytes, file)
    BY <1>6, <2>7 DEF Begins
  <2>9. QED
    BY <2>3, <2>4, <2>5, <2>8, OverwriteFacts
<1> HIDE DEF T
<1>9. \A k \in 0 .. m : \A b \in f[k] : Begins(b, file)
  <2>1. \A k \in Nat : k \in T
    BY <1>7, <1>8, SetInduction
  <2>2. QED
    BY <2>1 DEF T
<1>10. QED
  BY <1>4, <1>9

LEMMA FirstOfBoth ==
  ASSUME NEW S, NEW s \in Seq(S), NEW t \in Seq(S), Len(s) = 1
  PROVE  s \o t \in Seq(S) /\ s \o t /= <<>> /\ (s \o t)[1] = s[1]
<1>1. PICK n \in Nat : n = Len(t)
  BY LenProperties
<1>2. s \o t \in Seq(S) /\ Len(s \o t) = Len(s) + Len(t)
  BY ConcatProperties, Zenon
<1>3. PICK both : both = s \o t
  OBVIOUS
<1>4. both \in Seq(S) /\ Len(both) = 1 + n
  BY <1>1, <1>2, <1>3
<1>5. both /= <<>>
  BY <1>4, EmptySeq
<1>6. (s \o t)[1] = s[1]
  BY <1>1, ConcatProperties, SMTT(30)
<1>7. QED
  BY <1>3, <1>4, <1>5, <1>6

\* A download leaves the file, or something that cannot be read.
LEMMA DownloadFacts ==
  ASSUME NEW S, NEW file \in Seq(S), NEW buf \in Downloads(file)
  PROVE  \/ buf = file
         \/ \E R : buf \in Seq(R) /\ buf /= <<>> /\ buf[1] = NoGzip
<1>1. PICK a \in Partial(file), body \in {file, <<NoGzip>>} : buf = Overwrite(a, body)
  BY DEF Downloads
<1>2. Begins(a, file)
  BY PartialFacts
<1>3. CASE body = file
  <2>1. Begins(file, file)
    <3>1. Len(file) \in Nat
      BY LenProperties
    <3>2. QED
      BY <3>1 DEF Begins
  <2>2. QED
    BY <1>1, <1>2, <1>3, <2>1, OverwriteFacts
<1>4. CASE body = <<NoGzip>>
  <2>1. PICK A : a \in Seq(A)
    BY <1>2 DEF Begins
  <2>2. PICK R : R = A \cup {NoGzip}
    OBVIOUS
  <2>3. a \in Seq(R) /\ body \in Seq(R) /\ Len(body) = 1 /\ body[1] = NoGzip
    <3>1. a \in Seq(R)
      BY <2>1, <2>2, SeqMonotonic
    <3>2. QED
      BY <1>4, <2>2, <3>1
  <2>4. PICK m \in Nat : m = Len(a)
    BY <2>3, LenProperties
  <2>5. PICK rest : rest = SubSeq(a, 2, m)
    OBVIOUS
  <2>6. rest \in Seq(R)
    <3>1. \A i \in 2 .. m : a[i] \in R
      BY <2>3, <2>4, ElementOfSeq
    <3>2. QED
      BY <2>5, <3>1, SubSeqProperties
  <2>7. buf = body \o rest
    BY <1>1, <2>3, <2>4, <2>5 DEF Overwrite
  <2>8. QED
    BY <2>3, <2>6, <2>7, FirstOfBoth
<1>5. QED
  BY <1>1, <1>3, <1>4

----------------------------------------------------------------------------
\* The url of the page is its own, or the page comes out of a damaged file.
IsApt(page) ==
  page.url /= page.body =>
    \E f \in DOMAIN Content :
      Damaged(Content[f]) /\ Member("response", page.body) \in ToSet(Content[f])

ApartOrApt(file, page) ==
  page.url = page.body \/ (Damaged(file) /\ Member("response", page.body) \in ToSet(file))

\* What is read of something that cannot be read.
LEMMA NothingIsRead ==
  ASSUME NEW R, NEW buf \in Seq(R), buf /= <<>>, buf[1] = NoGzip
  PROVE  Records(buf) = <<>>
<1>1. PICK n \in Nat : n = Len(buf) /\ DOMAIN buf = 1 .. n /\ n /= 0
  BY EmptySeq, LenProperties
<1>2. PICK ends : ends = {k \in DOMAIN buf : buf[k] = NoGzip}
  OBVIOUS
<1>3. 1 \in ends /\ \A k \in ends : k \in Nat /\ 1 <= k
  BY <1>1, <1>2
<1>4. Min(ends) = 1
  <2>1. PICK x \in ends : x = Min(ends) /\ \A y \in ends : x =< y
    BY <1>3 DEF Min
  <2>2. QED
    BY <1>3, <2>1
<1>5. Reads(buf) = SubSeq(buf, 1, 1 - 1)
  BY <1>2, <1>3, <1>4 DEF Reads
<1>6. Reads(buf) = <<>>
  BY <1>5, SubSeqEmpty
<1>7. QED
  BY <1>6 DEF Records

\* And of a file: pages under their own urls, unless the file is damaged.
LEMMA FilesHoldPages ==
  ASSUME NEW file, IsFile(file)
  PROVE  \E P : /\ Records(file) \in Seq(P)
                /\ \A page \in P : ApartOrApt(file, page)
<1>1. PICK n \in Nat : n = Len(file) /\ DOMAIN file = 1 .. n /\ file \in Seq(ToSet(file))
  BY LenProperties DEF IsFile
<1>2. Reads(file) = file
  <2>1. {k \in DOMAIN file : file[k] = NoGzip} = {}
    BY DEF IsFile, IsMember, ToSet
  <2>2. QED
    BY <2>1 DEF Reads
<1>3. CASE file = <<>> \/ Head(file) = Junk
  <2>1. Records(file) = <<>>
    BY <1>2, <1>3 DEF Records
  <2>2. <<>> \in Seq({})
    BY EmptySeq
  <2>3. QED
    BY <2>1, <2>2
<1>4. CASE ~(file = <<>> \/ Head(file) = Junk)
  <2>1. PICK q \in Nat : q = (n - 1) \div 3 /\ 3 * q <= n - 1
    BY <1>1, <1>4
  <2>2. PICK triples : triples = [k \in 1 .. q |-> SubSeq(file, 3 * k - 1, 3 * k + 1)]
    OBVIOUS
  <2>3. PICK T : T = {triples[k] : k \in 1 .. q}
    OBVIOUS
  <2>4. triples \in Seq(T)
    <3>1. triples \in [1 .. q -> T]
      BY <2>2, <2>3
    <3>2. QED
      BY <3>1, SeqDef
  <2>5. PICK good : good = {t \in ToSet(triples) : IsRecord(t)}
    OBVIOUS
  <2>6. PICK records : records = Selected(triples, good)
    OBVIOUS
  <2>7. records \in Seq(T \cap good)
    BY <2>4, <2>6, SelectedFacts
  <2>8. Records(file) = [k \in DOMAIN records |-> PageOf(records[k])]
    BY <1>1, <1>2, <1>4, <2>1, <2>2, <2>5, <2>6 DEF Records
  <2>9. PICK P : P = {PageOf(t) : t \in T \cap good}
    OBVIOUS
  <2>10. Records(file) \in Seq(P)
    <3>1. PICK l \in Nat : l = Len(records) /\ DOMAIN records = 1 .. l
      BY <2>7, LenProperties
    <3>2. \A k \in 1 .. l : PageOf(records[k]) \in P
      BY <2>7, <2>9, <3>1, ElementOfSeq
    <3>3. PICK out : out = [k \in 1 .. l |-> PageOf(records[k])]
      OBVIOUS
    <3>4. out \in [1 .. l -> P]
      BY <3>2, <3>3
    <3>5. out \in Seq(P)
      BY <3>4, SeqDef
    <3>6. QED
      BY <2>8, <3>1, <3>3, <3>5
  <2>11. ASSUME NEW page \in P PROVE ApartOrApt(file, page)
    <3>1. PICK k \in 1 .. q : IsRecord(triples[k]) /\ page = PageOf(triples[k])
      BY <2>3, <2>5, <2>9, <2>11
    <3>2. PICK t : t = triples[k]
      OBVIOUS
    <3>3. PICK s \in Nat : s = 3 * k - 1 /\ s >= 1 /\ s + 2 <= n
      BY <2>1
    <3>4. t = SubSeq(file, s, s + 2)
      <4>1. s + 2 = 3 * k + 1
        BY <3>3
      <4>2. QED
        BY <2>2, <3>2, <3>3, <4>1
    <3>5. t[1] = file[s] /\ t[2] = file[s + 1] /\ t[3] = file[s + 2]
      <4>1. \A i \in s .. s + 2 : file[i] \in ToSet(file)
        BY <1>1, <3>3, ElementOfSeq
      <4>2. \A i \in 1 .. (s + 2) - s + 1 : t[i] = file[s + i - 1]
        BY <3>3, <3>4, <4>1, SubSeqProperties
      <4>3. t[1] = file[s + 1 - 1] /\ t[2] = file[s + 2 - 1] /\ t[3] = file[s + 3 - 1]
        BY <3>3, <4>2
      <4>4. QED
        BY <3>3, <4>3
    <3>6. PICK i \in 1 .. 3, j \in 1 .. 3 :
            /\ t[i].type = "request" /\ t[j].type = "response"
            /\ page = [url |-> t[i].of, body |-> t[j].of]
      <4>1. \E i \in 1 .. 3 : t[i].type = "request"
        BY <3>1, <3>2 DEF IsRecord
      <4>2. \E i \in 1 .. 3 : t[i].type = "response"
        BY <3>1, <3>2 DEF IsRecord
      <4>3. PICK i, j : /\ i = CHOOSE m \in 1 .. 3 : t[m].type = "request"
                        /\ j = CHOOSE m \in 1 .. 3 : t[m].type = "response"
        OBVIOUS
      <4>4. i \in 1 .. 3 /\ t[i].type = "request" /\ j \in 1 .. 3 /\ t[j].type = "response"
        BY <4>1, <4>2, <4>3
      <4>5. page = [url |-> t[i].of, body |-> t[j].of]
        BY <3>1, <3>2, <4>3 DEF PageOf
      <4>6. QED
        BY <4>4, <4>5
    <3>7. page.url = t[i].of /\ page.body = t[j].of
      BY <3>6
    <3>8. CASE Damaged(file)
      <4>1. t[j] \in ToSet(file)
        <5>1. file[s] \in ToSet(file) /\ file[s + 1] \in ToSet(file) /\ file[s + 2] \in ToSet(file)
          BY <1>1, <3>3, ElementOfSeq
        <5>2. QED
          BY <3>5, <3>6, <5>1
      <4>2. t[j] = Member("response", t[j].of)
        BY <3>6, <4>1 DEF IsFile, IsMember
      <4>3. QED
        BY <3>7, <3>8, <4>1, <4>2 DEF ApartOrApt
    <3>9. CASE ~Damaged(file)
      <4>1. IsGrouped(file)
        BY <3>9 DEF IsFile
      <4>2. file[3 * k - 1].of = file[3 * k].of /\ file[3 * k].of = file[3 * k + 1].of
        BY <1>1, <2>1, <4>1 DEF IsGrouped
      <4>3. 3 * k = s + 1 /\ 3 * k + 1 = s + 2 /\ 3 * k - 1 = s
        BY <3>3
      <4>4. t[1].of = t[2].of /\ t[2].of = t[3].of
        BY <3>5, <4>2, <4>3
      <4>5. t[i].of = t[j].of
        BY <3>6, <4>4
      <4>6. QED
        BY <3>7, <4>5 DEF ApartOrApt
    <3>10. QED
      BY <3>8, <3>9
  <2>12. QED
    BY <2>10, <2>11
<1>5. QED
  BY <1>3, <1>4

\* So all that a job has to insert is apt.
AreApt(pages) == \E P : pages \in Seq(P) /\ \A page \in P : IsApt(page)

LEMMA DownloadsAreApt ==
  ASSUME NEW f \in DOMAIN Content, NEW buf \in Downloads(Content[f])
  PROVE  AreApt(WantedPages(buf))
<1>1. IsFile(Content[f])
  BY IndexingAssumption
<1>2. PICK P : Records(buf) \in Seq(P) /\ \A page \in P : ApartOrApt(Content[f], page)
  <2>1. CASE buf = Content[f]
    BY <1>1, <2>1, FilesHoldPages
  <2>2. CASE \E R : buf \in Seq(R) /\ buf /= <<>> /\ buf[1] = NoGzip
    <3>1. Records(buf) = <<>>
      BY <2>2, NothingIsRead
    <3>2. <<>> \in Seq({})
      BY EmptySeq
    <3>3. QED
      BY <3>1, <3>2
  <2>3. QED
    BY <1>1, <2>1, <2>2, DownloadFacts DEF IsFile
<1>3. PICK pages, good : /\ pages = Records(buf)
                         /\ good = {page \in ToSet(pages) : page.body \in Wanted}
  OBVIOUS
<1>4. Selected(pages, good) \in Seq(P \cap good)
  BY <1>2, <1>3, SelectedFacts
<1>5. WantedPages(buf) = Selected(pages, good)
  BY <1>3 DEF WantedPages
<1>6. \A page \in P \cap good : IsApt(page)
  BY <1>2 DEF ApartOrApt, IsApt
<1>7. QED
  BY <1>4, <1>5, <1>6 DEF AreApt

----------------------------------------------------------------------------
\* What the jobs have to insert and what was handled is apt.
TodoIsApt(j) ==
  /\ {"todo", "files"} \subseteq DOMAIN job[j]
  /\ job[j].files \subseteq DOMAIN Content /\ AreApt(job[j].todo)
HandledAreApt == \A page \in DOMAIN handled \cup DOMAIN earlier : IsApt(page)
UrlInv == HandledAreApt /\ \A j \in Jobs : TodoIsApt(j)

LEMMA NothingIsApt == AreApt(<<>>)
<1>1. PICK P : P = {}
  OBVIOUS
<1>2. <<>> \in Seq(P) /\ \A page \in P : IsApt(page)
  BY <1>1, EmptySeq
<1>3. QED
  BY <1>2, Zenon DEF AreApt

LEMMA PlannedFiles ==
  ASSUME plan \in Plans, NEW j \in Jobs
  PROVE  plan.jobs[j] \subseteq DOMAIN Content
<1>1. plan.jobs \in Seq(SUBSET DOMAIN Content)
  BY IndexingAssumption
<1>2. j \in 1 .. Len(plan.jobs)
  BY <1>1, LenProperties DEF Jobs
<1>3. QED
  BY <1>1, <1>2, ElementOfSeq

LEMMA WaitingIsApt ==
  ASSUME plan \in Plans, NEW j \in Jobs
  PROVE  /\ {"todo", "files"} \subseteq DOMAIN Waiting(j)
         /\ Waiting(j).files \subseteq DOMAIN Content /\ AreApt(Waiting(j).todo)
  BY PlannedFiles, NothingIsApt DEF Waiting

LEMMA UrlInit == Init => UrlInv
<1> SUFFICES ASSUME Init PROVE UrlInv
  OBVIOUS
<1>1. plan \in Plans /\ \A j \in Jobs : job[j] = Waiting(j)
  BY DEF Init
<1>2. DOMAIN handled = {} /\ DOMAIN earlier = {}
  BY DEF Init, EmptyBag, SetToBag
<1>3. \A j \in Jobs : TodoIsApt(j)
  BY <1>1, WaitingIsApt DEF TodoIsApt
<1>4. QED
  BY <1>2, <1>3 DEF UrlInv, HandledAreApt

\* The steps that insert nothing and come to no new file.
KeepsTodo == /\ UNCHANGED <<plan, handled, earlier>>
             /\ \A k \in Jobs : /\ DOMAIN job'[k] = DOMAIN job[k]
                                /\ job'[k].todo = job[k].todo
                                /\ job'[k].files \subseteq job[k].files

LEMMA KeptTodoIsApt ==
  ASSUME UrlInv, KeepsTodo
  PROVE  UrlInv'
<1>1. Jobs' = Jobs
  BY DEF KeepsTodo, Jobs
<1>2. \A j \in Jobs : TodoIsApt(j)'
  BY DEF UrlInv, TodoIsApt, KeepsTodo
<1>3. QED
  BY <1>1, <1>2 DEF UrlInv, HandledAreApt, KeepsTodo

LEMMA UrlStep == PInv /\ KInv /\ UrlInv /\ [Next]_vars => UrlInv'
<1> SUFFICES ASSUME PInv, KInv, UrlInv, [Next]_vars PROVE UrlInv'
  OBVIOUS
<1> USE DEF pc
<1>1. /\ DOMAIN job = Jobs
      /\ \A j \in Jobs : {"pc", "with", "todo", "files"} \subseteq DOMAIN job[j]
      /\ \A j \in Jobs : job[j].with \in Jobs
  BY DEF PInv, Shape, UrlInv, TodoIsApt
<1>2. CASE UNCHANGED vars
  BY <1>2, KeptTodoIsApt DEF KeepsTodo, vars
<1>3. ASSUME NEW j \in Jobs, NextFile(j) PROVE UrlInv'
  <2>1. PICK f \in job[j].files : \E buf \in Downloads(Content[f]) :
          job' = [job EXCEPT ![j].pc = "pages", ![j].files = @ \ {f},
                             ![j].todo = WantedPages(buf)]
    BY <1>3 DEF NextFile
  <2>2. PICK buf \in Downloads(Content[f]) :
          job' = [job EXCEPT ![j].pc = "pages", ![j].files = @ \ {f},
                             ![j].todo = WantedPages(buf)]
    BY <2>1
  <2>3. UNCHANGED <<plan, disk, handled, earlier>>
    BY <1>3 DEF NextFile, history
  <2>4. AreApt(WantedPages(buf))
    BY DownloadsAreApt DEF UrlInv, TodoIsApt
  <2>5. /\ \A k \in Jobs : DOMAIN job'[k] = DOMAIN job[k] /\ job'[k].files \subseteq job[k].files
        /\ \A k \in Jobs \ {j} : job'[k].todo = job[k].todo
        /\ job'[j].todo = WantedPages(buf)
    BY <1>1, <2>2
  <2>6. \A k \in Jobs : TodoIsApt(k)'
    BY <2>4, <2>5 DEF UrlInv, TodoIsApt
  <2>7. QED
    BY <2>3, <2>6 DEF UrlInv, HandledAreApt, Jobs
<1>4. ASSUME NEW j \in Jobs, InsertPage(j) PROVE UrlInv'
  <2>1. PICK P : job[j].todo \in Seq(P) /\ \A page \in P : IsApt(page)
    BY DEF UrlInv, TodoIsApt, AreApt
  <2>2. PICK page : page = Head(job[j].todo)
    OBVIOUS
  <2>3. job[j].todo /= <<>> /\ page \in P /\ Tail(job[j].todo) \in Seq(P)
    BY <1>4, <2>1, <2>2, HeadTailProperties DEF InsertPage
  <2>4. /\ UNCHANGED <<plan, earlier>> /\ handled' = handled (+) SetToBag({page})
        /\ \A k \in Jobs : DOMAIN job'[k] = DOMAIN job[k] /\ job'[k].files = job[k].files
        /\ \A k \in Jobs \ {j} : job'[k].todo = job[k].todo
        /\ job'[j].todo = Tail(job[j].todo)
    BY <1>1, <1>4, <2>2 DEF InsertPage
  <2>5. DOMAIN handled' = DOMAIN handled \cup {page}
    BY <2>4 DEF (+), SetToBag
  <2>6. HandledAreApt'
    BY <2>1, <2>3, <2>4, <2>5 DEF UrlInv, HandledAreApt
  <2>7. AreApt(job'[j].todo)
    BY <2>1, <2>3, <2>4 DEF AreApt
  <2>8. \A k \in Jobs : TodoIsApt(k)'
    BY <2>4, <2>7 DEF UrlInv, TodoIsApt
  <2>9. QED
    BY <2>4, <2>6, <2>8 DEF UrlInv, Jobs
<1>5. ASSUME NEW j \in Jobs, JobStep(j) PROVE UrlInv'
  <2>1. CASE StartJob(j) \/ DownloadFails(j) \/ FinishJob(j) \/ DownloadImages(j)
    <3>1. KeepsTodo
      BY <1>1, <2>1 DEF StartJob, DownloadFails, FinishJob, DownloadImages, Go, KeepsTodo, history
    <3>2. QED
      BY <3>1, KeptTodoIsApt
  <2>2. CASE CommitWords(j)
    <3>1. KeepsTodo
      BY <1>1, <2>2 DEF CommitWords, KeepsTodo, history
    <3>2. QED
      BY <3>1, KeptTodoIsApt
  <2>3. CASE CommitPages(j)
    <3>1. KeepsTodo
      BY <1>1, <2>3 DEF CommitPages, KeepsTodo, history
    <3>2. QED
      BY <3>1, KeptTodoIsApt
  <2>4. CASE CommitRegions(j)
    <3>1. KeepsTodo
      BY <1>1, <2>4 DEF CommitRegions, Go, KeepsTodo, history
    <3>2. QED
      BY <3>1, KeptTodoIsApt
  <2>5. QED
    BY <1>3, <1>4, <1>5, <2>1, <2>2, <2>3, <2>4 DEF JobStep
<1>6. ASSUME NEW j \in Jobs, MergeStep(j) PROVE UrlInv'
  <2>1. CASE \E k \in Jobs : StartMerge(j, k)
    <3>1. PICK k \in Jobs : StartMerge(j, k)
      BY <2>1
    <3>2. KeepsTodo
      BY <1>1, <3>1 DEF StartMerge, KeepsTodo, history
    <3>3. QED
      BY <3>2, KeptTodoIsApt
  <2>2. CASE RenameFiles(j) \/ ClearOther(j) \/ WriteMeta(j) \/ MergeWords(j)
    <3>1. KeepsTodo
      BY <1>1, <2>2 DEF RenameFiles, ClearOther, WriteMeta, MergeWords, Go, KeepsTodo, history
    <3>2. QED
      BY <3>1, KeptTodoIsApt
  <2>3. CASE MergeRegions(j) \/ MergeHosts(j) \/ RemoveOther(j)
    <3>1. KeepsTodo
      BY <1>1, <2>3 DEF MergeRegions, MergeHosts, RemoveOther, Go, KeepsTodo, history
    <3>2. QED
      BY <3>1, KeptTodoIsApt
  <2>4. QED
    BY <1>6, <2>1, <2>2, <2>3 DEF MergeStep
<1>7. ASSUME NEW j \in Jobs, FinishRun(j) PROVE UrlInv'
  <2>1. KeepsTodo
    BY <1>1, <1>7 DEF FinishRun, Go, KeepsTodo, history
  <2>2. QED
    BY <2>1, KeptTodoIsApt
<1>8. CASE RunAgain
  <2>1. /\ plan' = plan /\ job' = [j \in Jobs |-> Waiting(j)]
        /\ earlier' = earlier (+) handled /\ handled' = EmptyBag
    BY <1>8 DEF RunAgain
  <2>2. DOMAIN handled' = {} /\ DOMAIN earlier' = DOMAIN earlier \cup DOMAIN handled
    BY <2>1 DEF (+), EmptyBag, SetToBag
  <2>3. HandledAreApt'
    BY <2>2 DEF UrlInv, HandledAreApt
  <2>4. Jobs' = Jobs
    BY <2>1 DEF Jobs
  <2>5. \A j \in Jobs : TodoIsApt(j)'
    BY <2>1, WaitingIsApt DEF TodoIsApt, KInv, Apart
  <2>6. QED
    BY <2>3, <2>4, <2>5 DEF UrlInv
<1>9. QED
  BY <1>2, <1>5, <1>6, <1>7, <1>8 DEF Next, Work

\* A page of an index is held, and so was handled in this or an earlier run.
LEMMA IndexedAreApt == PInv /\ KInv /\ UrlInv => PagesKeepTheirUrls
<1> SUFFICES ASSUME PInv, KInv, UrlInv, NEW j \in Jobs, NEW page \in DOMAIN Indexed(j)
             PROVE  IsApt(page)
  BY DEF PagesKeepTheirUrls, IsApt
<1>1. PICK f : f = disk[j].segments /\ AreSegments(f)
  BY DEF KInv, Apart, Structure
<1>2. CopiesAmong(page, f) /= 0
  <2>1. SegmentsOn(f)
    BY <1>1, SegmentsAre
  <2>2. /\ page \in DOMAIN PagesIn(f) /\ IsSegment(PagesIn(f))
        /\ Copies(page, PagesIn(f)) = CopiesAmong(page, f)
    BY <1>1, <2>1, PagesInFacts DEF Indexed
  <2>3. QED
    BY <2>2 DEF IsSegment, Copies
<1>3. Has(j, page) /= 0
  <2>1. PICK a \in Nat, b \in Nat : a = CopiesAmong(page, f) /\ b = Copies(page, job[j].added)
    BY <1>1, HoldingsAreCounts DEF KInv
  <2>2. Has(j, page) = a + b \/ \E c \in Nat : Has(j, page) = a + b + c
    BY <1>1, <2>1, HoldingsAreCounts DEF KInv, Has
  <2>3. QED
    BY <1>2, <2>1, <2>2
<1>4. Held(page) /= 0
  <2>1. PICK h : h = Holdings(page)
    OBVIOUS
  <2>2. IsCount(h) /\ DOMAIN h = Jobs /\ h[j] = Has(j, page)
    BY <2>1, HoldingsAreCounts DEF KInv
  <2>3. Total(h) /= 0
    BY <1>3, <2>2, SumOfSome
  <2>4. QED
    BY <2>1, <2>3 DEF Held
<1>5. ~(Copies(page, handled) = 0 /\ Copies(page, earlier) = 0)
  <2>1. Held(page) <= Copies(page, handled) + Copies(page, earlier)
    BY DEF KInv, PagesStay
  <2>2. PICK n \in Nat : n = Held(page)
    BY HoldingsAreCounts DEF KInv
  <2>3. QED
    BY <1>4, <2>1, <2>2
<1>6. page \in DOMAIN handled \cup DOMAIN earlier
  BY <1>5 DEF Copies
<1>7. QED
  BY <1>6 DEF UrlInv, HandledAreApt

\* Whatever is downloaded over the rest of an earlier attempt, and however the
\* indexes are merged: no page of an intact file is stored under another's url.
THEOREM UrlsAreKept == Spec => []PagesKeepTheirUrls
<1>1. Init => PInv /\ KInv /\ UrlInv
  BY PanicInit, StayInit, UrlInit
<1>2. PInv /\ KInv /\ UrlInv /\ [Next]_vars => PInv' /\ KInv' /\ UrlInv'
  BY StayStep, UrlStep
<1>3. PInv /\ KInv /\ UrlInv => PagesKeepTheirUrls
  BY IndexedAreApt
<1>4. QED
  BY <1>1, <1>2, <1>3, PTL DEF Spec
=============================================================================
