------------------------- MODULE VideoSidebarProofs -------------------------
(***************************************************************************)
(* The web application and the sidebar, for any number of videos, jobs,    *)
(* seconds and clicks: while no two jobs share a directory, the library    *)
(* leads from a video to its own results and to media that exist, and the  *)
(* sidebar shows no video the page was not at; it follows one job at a     *)
(* time in any case; and what the web application saves stays saved.       *)
(***************************************************************************)
EXTENDS VideoSidebar, FiniteSetTheorems, WellFoundedInduction, TLAPS

MediaKinds == {"wav", "download"}
ResultKinds == {"srt", "json"}
ItemParts == {"dir"} \cup MediaKinds

DirOrNone == Dirs \cup {None}
VideoOrNone == Videos \cup {None}
Item == [dir : DirOrNone, wav : DirOrNone, download : DirOrNone]

\* Where a job no longer removes anything.
Over == {"opening", "storing", "replacing", "ended", "exited"}

At == {"queued", "downloading", "extracting", "transcribing", "writing", "recording"}
        \cup Over

Statuses == {"queued", "downloading", "extracting", "transcribing", "validating",
             "writing-results", "done", "failed"}

Job == [src : Videos, dir : JobDirs, keep : BOOLEAN, status : Statuses, at : At,
        reused : [wav : DirOrNone, download : DirOrNone],
        seen : [Videos -> Item],
        handle : {"none", "tmp", "index"}]

-----------------------------------------------------------------------------
(* What is said of jobs js and media med, now and after a step.            *)

\* Whose a directory is: the life of the server before, or a job's.
Owner(js, d, v) ==
  \/ d = Earlier /\ v \in Known
  \/ \E i \in DOMAIN js : js[i].dir = d /\ js[i].src = v

\* No job that may still remove its media works in the directory.
Settled(js, d) == \A i \in DOMAIN js : js[i].dir = d => js[i].at \in Over

\* A directory that is on record for a video, and for media in it.
GoodRef(js, med, d, v, part) ==
  d # None => /\ Owner(js, d, v)
              /\ Settled(js, d)
              /\ part \in MediaKinds => med[d][part] # None

GoodItems(js, med, items) ==
  \A v \in Videos : \A part \in ItemParts : GoodRef(js, med, items[v][part], v, part)

Unshared(js) == \A i, j \in DOMAIN js : js[i].dir = js[j].dir => i = j

FilesGood(js, med, res) ==
  /\ \A d \in Dirs : \A kind \in MediaKinds :
       med[d][kind] # None => Owner(js, d, med[d][kind])
  /\ \A d \in Dirs : \A kind \in ResultKinds :
       res[d][kind] # None => Owner(js, d, res[d][kind])

RecordsGood(js, med, inLibrary, inTmp) ==
  /\ GoodItems(js, med, inLibrary) /\ GoodItems(js, med, inTmp)
  /\ \A i \in DOMAIN js : GoodItems(js, med, js[i].seen)
  /\ \A i \in DOMAIN js : \A kind \in MediaKinds :
       GoodRef(js, med, js[i].reused[kind], js[i].src, kind)

-----------------------------------------------------------------------------
(* The inductive invariant.                                                *)

WebTypes ==
  /\ now \in 0 .. MaxSecond
  /\ jobs \in Seq(Job) /\ Len(jobs) <= MaxJobs
  /\ \A d \in made : d = Earlier \/ \E i \in DOMAIN jobs : jobs[i].dir = d
  /\ media \in [Dirs -> [wav : VideoOrNone, download : VideoOrNone]]
  /\ results \in [Dirs -> [srt : VideoOrNone, json : VideoOrNone]]
  /\ index.items \in [Videos -> Item]
  /\ tmp.items \in [Videos -> Item]

WebInv ==
  /\ WebTypes
  /\ Unshared(jobs) => /\ FilesGood(jobs, media, results)
                       /\ RecordsGood(jobs, media, index.items, tmp.items)

PageTypes ==
  /\ page \in VideoOrNone
  /\ visited \subseteq Videos
  /\ IF page = None THEN visited = {} ELSE page \in visited
  /\ button \in BOOLEAN
  /\ analysis \in {"idle", "posting"}
  /\ polls \in [1 .. MaxJobs -> {"none", "polling", "loading", "over", "lost"}]
  /\ cached \in visited \cup {None}
  /\ restoring \in [at : {"lookup", "transcript", "over"}, src : VideoOrNone]
  /\ restoring.at = "lookup" \/ button \/ analysis = "posting" => page # None
  /\ restoring.at = "transcript" => restoring.src \in visited
  /\ \A j \in DOMAIN polls :
       polls[j] # "none" => j \in DOMAIN jobs /\ jobs[j].src \in visited

OneAtATime ==
  /\ \A j, k \in DOMAIN polls : polls[j] = "polling" /\ polls[k] = "polling" => j = k
  /\ button \/ analysis = "posting" => \A j \in DOMAIN polls : polls[j] # "polling"
  /\ ~ (button /\ analysis = "posting")

SidebarInv ==
  /\ WebInv
  /\ PageTypes
  /\ OneAtATime
  /\ Unshared(jobs) => shown \in visited \cup {None}

-----------------------------------------------------------------------------
(***************************************************************************)
(* Directories, owners and records.                                        *)
(***************************************************************************)

(* How many suffixes there are, and how many jobs.                          *)
LEMMA CountFrom ==
    ASSUME NEW n \in Nat
    PROVE  /\ IsFiniteSet(0 .. n) /\ Cardinality(0 .. n) = n + 1
           /\ IsFiniteSet(1 .. n) /\ Cardinality(1 .. n) = n
<1> DEFINE C == Cardinality(0 .. n)
           D == Cardinality(1 .. n)
<1>1. 0 \in Int /\ 1 \in Int /\ n \in Int
  OBVIOUS
<1>2. IsFiniteSet(0 .. n) /\ C = IF 0 > n THEN 0 ELSE n - 0 + 1
  BY <1>1, FS_Interval, Zenon
<1>3. IsFiniteSet(1 .. n) /\ D = IF 1 > n THEN 0 ELSE n - 1 + 1
  BY <1>1, FS_Interval, Zenon
<1> HIDE DEF C, D
<1>4. C = n + 1 /\ D = n
  BY <1>2, <1>3
<1> QED  BY <1>2, <1>3, <1>4 DEF C, D

(* _new_job_dir finds a name: fewer directories are taken than there are   *)
(* suffixes.                                                               *)
LEMMA NewDirIsFree ==
    ASSUME WebTypes, Len(jobs) < MaxJobs, NEW s \in 0 .. MaxSecond
    PROVE  NewDir(s) \in JobDirs /\ NewDir(s) \notin made
<1> DEFINE Suffixes == 0 .. MaxJobs
           Free     == {k \in Suffixes : <<s, k>> \notin made}
<1>1. Len(jobs) \in Nat /\ MaxJobs \in Nat /\ DOMAIN jobs = 1 .. Len(jobs)
  BY WebBoundsAssumption DEF WebTypes
<1>2. Free # {}
  <2> SUFFICES ASSUME \A k \in Suffixes : <<s, k>> \in made
               PROVE  FALSE
    OBVIOUS
  <2>1. \A k \in Suffixes : <<s, k>> \in JobDirs
    BY DEF JobDirs
  <2>2. \A k \in Suffixes : \E i \in 1 .. Len(jobs) : jobs[i].dir = <<s, k>>
    BY <1>1, <2>1, WebBoundsAssumption DEF WebTypes
  <2> DEFINE f == [k \in Suffixes |-> CHOOSE i \in 1 .. Len(jobs) : jobs[i].dir = <<s, k>>]
  <2>3. \A k \in Suffixes : f[k] \in 1 .. Len(jobs) /\ jobs[f[k]].dir = <<s, k>>
    BY <2>2
  <2>4. f \in [Suffixes -> 1 .. Len(jobs)]
    BY <2>3
  <2>5. /\ IsFiniteSet(Suffixes) /\ Cardinality(Suffixes) = MaxJobs + 1
        /\ IsFiniteSet(1 .. Len(jobs)) /\ Cardinality(1 .. Len(jobs)) = Len(jobs)
    BY <1>1, CountFrom
  <2>6. Cardinality(1 .. Len(jobs)) < Cardinality(Suffixes)
    BY <1>1, <2>5
  <2> HIDE DEF f, Suffixes
  <2>7. PICK k, m \in Suffixes : k # m /\ f[k] = f[m]
    BY <2>4, <2>5, <2>6, FS_PigeonHole
  <2>8. <<s, k>> = <<s, m>>
    BY <2>3, <2>7
  <2> QED  BY <2>7, <2>8
<1>3. PICK k \in Free : \A i \in Free : ~ (<<i, k>> \in OpToRel(<, Nat))
  <2>1. Free \subseteq Nat
    BY <1>1
  <2> QED  BY <1>2, <2>1, NatLessThanWellFounded, WFMin
<1>4. k \in Suffixes /\ <<s, k>> \notin made /\ \A i \in 0 .. k - 1 : <<s, i>> \in made
  <2>1. k \in Suffixes /\ <<s, k>> \notin made
    OBVIOUS
  <2>2. ASSUME NEW i \in 0 .. k - 1
        PROVE  <<s, i>> \in made
    <3>1. i \in Suffixes /\ i \in Nat /\ k \in Nat /\ i < k
      BY <1>1, <2>1
    <3>2. <<i, k>> \in OpToRel(<, Nat)
      BY <3>1 DEF OpToRel
    <3> QED  BY <1>3, <3>1, <3>2
  <2> QED  BY <2>1, <2>2
<1> DEFINE c == CHOOSE n \in 0 .. MaxJobs :
                  /\ <<s, n>> \notin made
                  /\ \A i \in 0 .. n - 1 : <<s, i>> \in made
<1>5. c \in 0 .. MaxJobs /\ <<s, c>> \notin made
  BY <1>4
<1>6. NewDir(s) = <<s, c>>
  BY DEF NewDir
<1> HIDE DEF c
<1>7. <<s, c>> \in JobDirs
  BY <1>5 DEF JobDirs
<1> QED  BY <1>5, <1>6, <1>7

\* Jobs are only added, keep what they were submitted with, and stay settled.
GoOn(js, next) ==
  \A i \in DOMAIN js : /\ i \in DOMAIN next
                       /\ next[i].src = js[i].src /\ next[i].dir = js[i].dir
                       /\ js[i].at \in Over => next[i].at \in Over

KeepsMedia(js, med, after) ==
  \A d \in Dirs : \A kind \in MediaKinds :
    Settled(js, d) /\ med[d][kind] # None => after[d][kind] # None

(* No job works where the life of the server before left its results.      *)
LEMMA JobDirsAreNew ==
    ASSUME NEW js \in Seq(Job), NEW i \in DOMAIN js
    PROVE  js[i] \in Job /\ js[i].dir \in JobDirs /\ js[i].dir # Earlier
<1>1. js[i] \in Job
  OBVIOUS
<1>2. js[i].dir \in JobDirs
  BY <1>1 DEF Job
<1> QED  BY <1>1, <1>2, WebBoundsAssumption

(* Where no two jobs share a directory, each belongs to one video.         *)
LEMMA OneOwner ==
    ASSUME NEW js \in Seq(Job), Unshared(js), NEW d, NEW v, NEW w,
           Owner(js, d, v), Owner(js, d, w)
    PROVE  v = w
<1>1. \A i \in DOMAIN js : js[i].dir # Earlier
  BY JobDirsAreNew
<1> QED  BY <1>1, WebBoundsAssumption DEF Owner, Unshared

(* A directory stays whose it is.                                           *)
LEMMA OwnersStay ==
    ASSUME NEW js, NEW next, GoOn(js, next), NEW d, NEW v, Owner(js, d, v)
    PROVE  Owner(next, d, v)
BY DEF GoOn, Owner

(* Two jobs that share a directory share it for good.                       *)
LEMMA SharedForGood ==
    ASSUME NEW js, NEW next, GoOn(js, next), Unshared(next)
    PROVE  Unshared(js)
BY DEF GoOn, Unshared

(* What is on record stays good while media that are settled stay.         *)
LEMMA RefStays ==
    ASSUME NEW js \in Seq(Job), NEW next \in Seq(Job), GoOn(js, next), Unshared(next),
           NEW med, NEW after, KeepsMedia(js, med, after),
           NEW d \in DirOrNone, NEW v, NEW part, GoodRef(js, med, d, v, part)
    PROVE  GoodRef(next, after, d, v, part)
<1> SUFFICES ASSUME d # None
             PROVE  GoodRef(next, after, d, v, part)
  BY DEF GoodRef
<1>1. Owner(js, d, v) /\ Settled(js, d) /\ (part \in MediaKinds => med[d][part] # None)
  BY DEF GoodRef
<1>2. Owner(next, d, v)
  BY <1>1, OwnersStay
<1>3. Settled(next, d)
  <2> SUFFICES ASSUME NEW i \in DOMAIN next, next[i].dir = d
               PROVE  next[i].at \in Over
    BY DEF Settled
  <2>1. d # Earlier
    BY JobDirsAreNew
  <2>2. PICK k \in DOMAIN js : js[k].dir = d
    BY <1>1, <2>1 DEF Owner
  <2>3. k \in DOMAIN next /\ next[k].dir = d /\ next[k].at \in Over
    BY <1>1, <2>2 DEF GoOn, Settled
  <2> QED  BY <2>3 DEF Unshared
<1>4. part \in MediaKinds => after[d][part] # None
  BY <1>1 DEF KeepsMedia, DirOrNone
<1> QED  BY <1>2, <1>3, <1>4 DEF GoodRef

(* The same of all that an index says.                                      *)
LEMMA ItemsStay ==
    ASSUME NEW js \in Seq(Job), NEW next \in Seq(Job), GoOn(js, next), Unshared(next),
           NEW med, NEW after, KeepsMedia(js, med, after),
           NEW items \in [Videos -> Item], GoodItems(js, med, items)
    PROVE  GoodItems(next, after, items)
<1> SUFFICES ASSUME NEW v \in Videos, NEW part \in ItemParts
             PROVE  GoodRef(next, after, items[v][part], v, part)
  BY DEF GoodItems
<1>1. items[v][part] \in DirOrNone
  <2>1. items[v] \in Item
    OBVIOUS
  <2> QED  BY <2>1 DEF Item, ItemParts, MediaKinds
<1>2. GoodRef(js, med, items[v][part], v, part)
  BY DEF GoodItems
<1> QED  BY <1>1, <1>2, RefStays

(* An empty library is right of everything.                                 *)
LEMMA NoItemsAreGood ==
    ASSUME NEW js, NEW med
    PROVE  NoItems \in [Videos -> Item] /\ GoodItems(js, med, NoItems)
BY DEF NoItems, NoItem, Item, DirOrNone, GoodItems, GoodRef, ItemParts, MediaKinds

-----------------------------------------------------------------------------
(***************************************************************************)
(* A step of a job.                                                        *)
(***************************************************************************)

\* A job with new values where a step may change it.
Changed(r, at, status, reused, seen, handle) ==
  [src |-> r.src, dir |-> r.dir, keep |-> r.keep, status |-> status, at |-> at,
   reused |-> reused, seen |-> seen, handle |-> handle]

(* Enter changes what it says, and nothing else of the job.                 *)
LEMMA JobEnters ==
    ASSUME jobs \in Seq(Job), NEW j \in DOMAIN jobs, NEW at, NEW status,
           Enter(j, at, status)
    PROVE  jobs' = [jobs EXCEPT ![j] =
                      Changed(jobs[j], at, status, jobs[j].reused, jobs[j].seen, jobs[j].handle)]
<1>1. jobs[j] \in Job
  OBVIOUS
<1>2. ASSUME NEW r, r = [jobs[j] EXCEPT !.at = at, !.status = status]
      PROVE  r = Changed(jobs[j], at, status, jobs[j].reused, jobs[j].seen, jobs[j].handle)
  BY <1>1, <1>2 DEF Job, Changed
<1> QED  BY <1>2 DEF Enter

(* A job that changes leaves the others alone.                              *)
LEMMA JobMoves ==
    ASSUME NEW js \in Seq(Job), NEW j \in DOMAIN js, NEW r \in Job, NEW next,
           next = [js EXCEPT ![j] = r],
           r.src = js[j].src, r.dir = js[j].dir, js[j].at \in Over => r.at \in Over
    PROVE  /\ next \in Seq(Job) /\ Len(next) = Len(js) /\ DOMAIN next = DOMAIN js
           /\ next[j] = r /\ \A i \in DOMAIN js : i # j => next[i] = js[i]
           /\ GoOn(js, next)
<1>1. /\ DOMAIN next = DOMAIN js /\ next[j] = r
      /\ \A i \in DOMAIN js : i # j => next[i] = js[i]
  OBVIOUS
<1>2. next \in Seq(Job) /\ Len(next) = Len(js)
  OBVIOUS
<1>3. GoOn(js, next)
  <2> SUFFICES ASSUME NEW i \in DOMAIN js
               PROVE  /\ next[i].src = js[i].src /\ next[i].dir = js[i].dir
                      /\ js[i].at \in Over => next[i].at \in Over
    BY <1>1 DEF GoOn
  <2> QED  BY <1>1
<1> QED  BY <1>1, <1>2, <1>3

(* What the invariant asks of a step of the server.                        *)
LEMMA WebGoesOn ==
    ASSUME WebInv, now' \in 0 .. MaxSecond,
           jobs' \in Seq(Job), Len(jobs') <= MaxJobs, GoOn(jobs, jobs'),
           \A d \in made' : d \in made \/ \E i \in DOMAIN jobs' : jobs'[i].dir = d,
           media' \in [Dirs -> [wav : VideoOrNone, download : VideoOrNone]],
           results' \in [Dirs -> [srt : VideoOrNone, json : VideoOrNone]],
           index'.items \in [Videos -> Item], tmp'.items \in [Videos -> Item],
           Unshared(jobs') =>
             /\ KeepsMedia(jobs, media, media')
             /\ \A d \in Dirs : \A kind \in MediaKinds :
                  \/ media'[d][kind] \in {None, media[d][kind]}
                  \/ Owner(jobs, d, media'[d][kind])
             /\ \A d \in Dirs : \A kind \in ResultKinds :
                  \/ results'[d][kind] \in {None, results[d][kind]}
                  \/ Owner(jobs, d, results'[d][kind])
             /\ GoodItems(jobs, media, index'.items) /\ GoodItems(jobs, media, tmp'.items)
             /\ \A i \in DOMAIN jobs' : \/ GoodItems(jobs, media, jobs'[i].seen)
                                       \/ GoodItems(jobs', media', jobs'[i].seen)
             /\ \A i \in DOMAIN jobs' : \A kind \in MediaKinds :
                  GoodRef(jobs, media, jobs'[i].reused[kind], jobs'[i].src, kind)
    PROVE  WebInv'
<1>1. WebTypes'
  <2> SUFFICES ASSUME NEW d \in made
               PROVE  d = Earlier \/ \E i \in DOMAIN jobs' : jobs'[i].dir = d
    BY DEF WebTypes
  <2> QED  BY DEF WebInv, WebTypes, GoOn
<1>2. ASSUME Unshared(jobs')
      PROVE  FilesGood(jobs', media', results')
  <2>1. FilesGood(jobs, media, results)
    BY <1>2, SharedForGood DEF WebInv
  <2>2. ASSUME NEW d \in Dirs, NEW kind \in MediaKinds, media'[d][kind] # None
        PROVE  Owner(jobs', d, media'[d][kind])
    <3>1. Owner(jobs, d, media'[d][kind])
      BY <1>2, <2>1, <2>2 DEF FilesGood
    <3> QED  BY <3>1, OwnersStay
  <2>3. ASSUME NEW d \in Dirs, NEW kind \in ResultKinds, results'[d][kind] # None
        PROVE  Owner(jobs', d, results'[d][kind])
    <3>1. Owner(jobs, d, results'[d][kind])
      BY <1>2, <2>1, <2>3 DEF FilesGood
    <3> QED  BY <3>1, OwnersStay
  <2> QED  BY <2>2, <2>3 DEF FilesGood
<1>3. ASSUME Unshared(jobs')
      PROVE  RecordsGood(jobs', media', index'.items, tmp'.items)
  <2>1. jobs \in Seq(Job) /\ KeepsMedia(jobs, media, media')
    BY <1>3 DEF WebInv, WebTypes
  <2>2. \A items \in [Videos -> Item] :
          GoodItems(jobs, media, items) => GoodItems(jobs', media', items)
    BY <1>3, <2>1, ItemsStay
  <2>3. \A i \in DOMAIN jobs' : /\ jobs'[i].seen \in [Videos -> Item]
                                /\ jobs'[i].reused \in [wav : DirOrNone, download : DirOrNone]
    <3>1. ASSUME NEW i \in DOMAIN jobs'
          PROVE  jobs'[i] \in Job
      OBVIOUS
    <3> QED  BY <3>1 DEF Job
  <2>4. ASSUME NEW i \in DOMAIN jobs', NEW kind \in MediaKinds
        PROVE  GoodRef(jobs', media', jobs'[i].reused[kind], jobs'[i].src, kind)
    <3>1. jobs'[i].reused[kind] \in DirOrNone
      BY <2>3 DEF MediaKinds
    <3>2. GoodRef(jobs, media, jobs'[i].reused[kind], jobs'[i].src, kind)
      BY <1>3
    <3> QED  BY <1>3, <2>1, <3>1, <3>2, RefStays
  <2>5. /\ GoodItems(jobs', media', index'.items) /\ GoodItems(jobs', media', tmp'.items)
        /\ \A i \in DOMAIN jobs' : GoodItems(jobs', media', jobs'[i].seen)
    BY <1>3, <2>2, <2>3
  <2> QED  BY <2>4, <2>5 DEF RecordsGood
<1> QED  BY <1>1, <1>2, <1>3 DEF WebInv

OneGoesOn(j, at, status, reused, seen, handle) ==
  /\ now' \in 0 .. MaxSecond /\ jobs' \in Seq(Job) /\ Len(jobs') <= MaxJobs
  /\ GoOn(jobs, jobs')
  /\ \A d \in made' : d \in made \/ \E i \in DOMAIN jobs' : jobs'[i].dir = d
  /\ DOMAIN jobs' = DOMAIN jobs /\ jobs[j] \in Job
  /\ jobs'[j] = Changed(jobs[j], at, status, reused, seen, handle)
  /\ \A i \in DOMAIN jobs : i # j => jobs'[i] = jobs[i]
  /\ Unshared(jobs') =>
       /\ \A i \in DOMAIN jobs' :
            i # j \/ seen = jobs[j].seen => GoodItems(jobs, media, jobs'[i].seen)
       /\ \A i \in DOMAIN jobs' : \A kind \in MediaKinds :
            i # j \/ reused = jobs[j].reused =>
              GoodRef(jobs, media, jobs'[i].reused[kind], jobs'[i].src, kind)

(* What it asks of a step of one job that changes no media or results.     *)
LEMMA JobGoesOn ==
    ASSUME WebInv, NEW j \in DOMAIN jobs,
           NEW at \in At, NEW status \in Statuses, NEW handle \in {"none", "tmp", "index"},
           NEW reused \in [wav : DirOrNone, download : DirOrNone],
           NEW seen \in [Videos -> Item],
           jobs[j].at \in Over => at \in Over,
           jobs' = [jobs EXCEPT ![j] = Changed(jobs[j], at, status, reused, seen, handle)],
           UNCHANGED now,
           \A d \in made' : d \in made \/ d = jobs[j].dir
    PROVE  OneGoesOn(j, at, status, reused, seen, handle)
<1> DEFINE r == Changed(jobs[j], at, status, reused, seen, handle)
<1>1. jobs \in Seq(Job) /\ Len(jobs) <= MaxJobs /\ now \in 0 .. MaxSecond
  BY DEF WebInv, WebTypes
<1>2. jobs[j] \in Job
  BY <1>1
<1>3. /\ r \in Job /\ r.src = jobs[j].src /\ r.dir = jobs[j].dir /\ r.at = at
      /\ r.reused = reused /\ r.seen = seen
  BY <1>2 DEF Changed, Job, At, Statuses
<1>4. jobs' = [jobs EXCEPT ![j] = r]
  OBVIOUS
<1> HIDE DEF r
<1>5. /\ jobs' \in Seq(Job) /\ Len(jobs') = Len(jobs) /\ DOMAIN jobs' = DOMAIN jobs
      /\ jobs'[j] = r /\ \A i \in DOMAIN jobs : i # j => jobs'[i] = jobs[i]
      /\ GoOn(jobs, jobs')
  BY <1>1, <1>3, <1>4, JobMoves
<1>6. \A d \in made' : d \in made \/ \E i \in DOMAIN jobs' : jobs'[i].dir = d
  BY <1>3, <1>5
<1>7. ASSUME Unshared(jobs'), NEW i \in DOMAIN jobs'
      PROVE  /\ i # j \/ seen = jobs[j].seen => GoodItems(jobs, media, jobs'[i].seen)
             /\ \A kind \in MediaKinds :
                  i # j \/ reused = jobs[j].reused =>
                    GoodRef(jobs, media, jobs'[i].reused[kind], jobs'[i].src, kind)
  <2>1. RecordsGood(jobs, media, index.items, tmp.items)
    BY <1>5, <1>7, SharedForGood DEF WebInv
  <2>2. /\ GoodItems(jobs, media, jobs[i].seen)
        /\ \A kind \in MediaKinds : GoodRef(jobs, media, jobs[i].reused[kind], jobs[i].src, kind)
    BY <1>5, <1>7, <2>1 DEF RecordsGood
  <2>3. CASE i # j
    BY <1>5, <2>2, <2>3
  <2>4. CASE i = j
    BY <1>3, <1>5, <2>2, <2>4
  <2> QED  BY <2>3, <2>4
<1>8. now' \in 0 .. MaxSecond /\ Len(jobs') <= MaxJobs
  BY <1>1, <1>5
<1>9. jobs'[j] = Changed(jobs[j], at, status, reused, seen, handle)
  BY <1>5 DEF r
<1> QED  BY <1>2, <1>5, <1>6, <1>7, <1>8, <1>9 DEF OneGoesOn

(* What a job keeps when it gets on.                                        *)
LEMMA EnteringGoesOn ==
    ASSUME WebInv, NEW j \in DOMAIN jobs,
           NEW at \in At, NEW status \in Statuses,
           jobs[j].at \in Over => at \in Over,
           Enter(j, at, status), UNCHANGED <<now, made>>
    PROVE  OneGoesOn(j, at, status, jobs[j].reused, jobs[j].seen, jobs[j].handle)
<1> DEFINE reused == jobs[j].reused
           seen   == jobs[j].seen
           handle == jobs[j].handle
<1>1. jobs \in Seq(Job) /\ jobs[j] \in Job
  BY DEF WebInv, WebTypes
<1>2. /\ reused \in [wav : DirOrNone, download : DirOrNone]
      /\ seen \in [Videos -> Item] /\ handle \in {"none", "tmp", "index"}
  BY <1>1 DEF Job
<1>3. jobs' = [jobs EXCEPT ![j] = Changed(jobs[j], at, status, reused, seen, handle)]
  BY <1>1, JobEnters
<1> HIDE DEF reused, seen, handle
<1>4. UNCHANGED now /\ \A d \in made' : d \in made \/ d = jobs[j].dir
  OBVIOUS
<1>5. OneGoesOn(j, at, status, reused, seen, handle)
  <2>1. WebInv /\ at \in At /\ status \in Statuses /\ (jobs[j].at \in Over => at \in Over)
    OBVIOUS
  <2> QED  BY ONLY ZenonT(40), <1>2, <1>3, <1>4, <2>1, JobGoesOn
<1> QED  BY <1>5 DEF reused, seen, handle

(* A job gets on, and may have made, used or removed files.                *)
LEMMA EnteringKeeps ==
    ASSUME WebInv, NEW j \in DOMAIN jobs,
           NEW at \in At, NEW status \in Statuses,
           jobs[j].at \in Over => at \in Over,
           Enter(j, at, status), UNCHANGED <<now, made, libraryVars>>,
           media' \in [Dirs -> [wav : VideoOrNone, download : VideoOrNone]],
           results' \in [Dirs -> [srt : VideoOrNone, json : VideoOrNone]],
           Unshared(jobs) =>
             /\ KeepsMedia(jobs, media, media')
             /\ \A d \in Dirs : \A kind \in MediaKinds :
                  \/ media'[d][kind] \in {None, media[d][kind]}
                  \/ Owner(jobs, d, media'[d][kind])
             /\ \A d \in Dirs : \A kind \in ResultKinds :
                  \/ results'[d][kind] \in {None, results[d][kind]}
                  \/ Owner(jobs, d, results'[d][kind])
    PROVE  WebInv' /\ GoOn(jobs, jobs')
<1> DEFINE reused == jobs[j].reused
           seen   == jobs[j].seen
<1>1. OneGoesOn(j, at, status, reused, seen, jobs[j].handle)
  BY EnteringGoesOn
<1> HIDE DEF reused, seen
<1>2. index.items \in [Videos -> Item] /\ tmp.items \in [Videos -> Item]
  BY DEF WebInv, WebTypes
<1>3. UNCHANGED <<index, tmp>>
  BY DEF libraryVars
<1>4. GoOn(jobs, jobs')
  BY <1>1 DEF OneGoesOn
<1>5. ASSUME Unshared(jobs')
      PROVE  Unshared(jobs) /\ RecordsGood(jobs, media, index.items, tmp.items)
  BY <1>4, <1>5, SharedForGood DEF WebInv
<1>6. WebInv'
  BY <1>1, <1>2, <1>3, <1>5, WebGoesOn DEF OneGoesOn, RecordsGood, reused, seen
<1> QED  BY <1>4, <1>6

(* The types of files, for steps that change none.                          *)
LEMMA FilesAsTheyAre ==
    ASSUME WebInv
    PROVE  /\ media \in [Dirs -> [wav : VideoOrNone, download : VideoOrNone]]
           /\ results \in [Dirs -> [srt : VideoOrNone, json : VideoOrNone]]
           /\ KeepsMedia(jobs, media, media)
BY DEF WebInv, WebTypes, KeepsMedia

(* SystemExit, or a failed command.                                         *)
LEMMA FailingKeeps ==
    ASSUME WebInv, NEW j \in DOMAIN jobs, StartExits(j) \/ JobFails(j)
    PROVE  WebInv' /\ GoOn(jobs, jobs')
<1>1. PICK at \in {"exited", "ended"}, status \in {"validating", "failed"} : Enter(j, at, status)
  BY DEF StartExits, JobFails
<1>2. UNCHANGED <<now, media, results, made, libraryVars>>
  BY DEF StartExits, JobFails, workVars
<1>3. at \in At /\ at \in Over /\ status \in Statuses
  BY DEF At, Over, Statuses
<1> QED  BY <1>1, <1>2, <1>3, FilesAsTheyAre, EnteringKeeps

(* What a job works on is of its video, wherever it comes from.            *)
LEMMA InputIsOfSrc ==
    ASSUME WebInv, NEW j \in DOMAIN jobs, NEW kind \in MediaKinds,
           KeptIn(InputDir(j, kind), kind)
    PROVE  /\ InputDir(j, kind) \in Dirs
           /\ media[InputDir(j, kind)][kind] \in Videos
           /\ Unshared(jobs) => media[InputDir(j, kind)][kind] = jobs[j].src
<1> DEFINE d == InputDir(j, kind)
           v == media[d][kind]
<1>1. jobs \in Seq(Job) /\ jobs[j] \in Job
  BY DEF WebInv, WebTypes
<1>2. d \in Dirs
  <2>1. jobs[j].dir \in Dirs /\ jobs[j].reused[kind] \in DirOrNone
    BY <1>1 DEF Job, Dirs, MediaKinds
  <2> QED  BY <2>1 DEF InputDir, DirOrNone
<1>3. v \in VideoOrNone
  BY <1>2, FilesAsTheyAre DEF MediaKinds
<1>4. v # None
  BY DEF KeptIn
<1>5. ASSUME Unshared(jobs)
      PROVE  v = jobs[j].src
  <2>1. FilesGood(jobs, media, results) /\ RecordsGood(jobs, media, index.items, tmp.items)
    BY <1>5 DEF WebInv
  <2>2. Owner(jobs, d, v)
    BY <1>2, <1>4, <2>1 DEF FilesGood
  <2>3. Owner(jobs, d, jobs[j].src)
    <3>1. CASE jobs[j].reused[kind] # None
      <4>1. d = jobs[j].reused[kind]
        BY <3>1 DEF InputDir
      <4>2. GoodRef(jobs, media, jobs[j].reused[kind], jobs[j].src, kind)
        BY <2>1 DEF RecordsGood
      <4> QED  BY <3>1, <4>1, <4>2 DEF GoodRef
    <3>2. CASE jobs[j].reused[kind] = None
      BY <3>2 DEF InputDir, Owner
    <3> QED  BY <3>1, <3>2
  <2> QED  BY <1>1, <1>5, <2>2, <2>3, OneOwner
<1> QED  BY <1>2, <1>3, <1>4, <1>5 DEF VideoOrNone

(* A job works in a directory of its own video.                             *)
LEMMA OwnDir ==
    ASSUME WebInv, NEW j \in DOMAIN jobs
    PROVE  /\ jobs[j] \in Job /\ jobs[j].dir \in Dirs /\ jobs[j].src \in Videos
           /\ jobs[j].at \notin Over => ~Settled(jobs, jobs[j].dir)
           /\ Owner(jobs, jobs[j].dir, jobs[j].src)
<1>1. jobs[j] \in Job
  BY DEF WebInv, WebTypes
<1> QED  BY <1>1 DEF Job, Dirs, Settled, Owner

(* The job's directory gets media of its video.                             *)
LEMMA MakingWavKeeps ==
    ASSUME WebInv, NEW j \in DOMAIN jobs, MakeWav(j)
    PROVE  WebInv' /\ GoOn(jobs, jobs')
<1> DEFINE d     == jobs[j].dir
           v     == jobs[j].src
           fresh == jobs[j].at = "downloading"
           from  == media[InputDir(j, "download")].download
           input == IF fresh THEN v ELSE from
<1>1. /\ jobs[j].at \in {"downloading", "extracting"} /\ input # None
      /\ media' = [media EXCEPT ![d].download = IF fresh THEN v ELSE @, ![d].wav = input]
      /\ Enter(j, "transcribing", "transcribing")
      /\ UNCHANGED <<now, made, results, libraryVars>>
  BY DEF MakeWav
<1>2. d \in Dirs /\ v \in Videos /\ ~Settled(jobs, d) /\ Owner(jobs, d, v)
  BY <1>1, OwnDir DEF Over
<1>3. input \in Videos /\ (Unshared(jobs) => input = v)
  <2>1. CASE fresh
    BY <1>2, <2>1
  <2>2. CASE ~fresh
    <3>1. from # None
      BY <1>1, <2>2
    <3>2. InputDir(j, "download") # None
      BY <1>2, WebBoundsAssumption DEF InputDir
    <3>3. KeptIn(InputDir(j, "download"), "download")
      BY <3>1, <3>2 DEF KeptIn
    <3>4. from \in Videos /\ (Unshared(jobs) => from = v)
      BY <3>3, InputIsOfSrc DEF MediaKinds
    <3> QED  BY <2>2, <3>4
  <2> QED  BY <2>1, <2>2
<1> HIDE DEF d, v, fresh, from, input
<1>4. /\ media' \in [Dirs -> [wav : VideoOrNone, download : VideoOrNone]]
      /\ \A e \in Dirs : e # d => media'[e] = media[e]
      /\ media'[d].wav = input
      /\ media'[d].download \in {v, media[d].download}
  BY <1>1, <1>2, <1>3, FilesAsTheyAre DEF VideoOrNone
<1>5. KeepsMedia(jobs, media, media')
  BY <1>2, <1>4 DEF KeepsMedia
<1>6. ASSUME Unshared(jobs), NEW e \in Dirs, NEW kind \in MediaKinds
      PROVE  media'[e][kind] \in {None, media[e][kind]} \/ Owner(jobs, e, media'[e][kind])
  <2>1. CASE e # d
    BY <1>4, <2>1
  <2>2. CASE e = d
    BY <1>2, <1>3, <1>4, <1>6, <2>2 DEF MediaKinds
  <2> QED  BY <2>1, <2>2
<1>7. /\ "transcribing" \in At /\ "transcribing" \in Statuses /\ jobs[j].at \notin Over
      /\ results' = results
      /\ results \in [Dirs -> [srt : VideoOrNone, json : VideoOrNone]]
  BY <1>1, FilesAsTheyAre DEF At, Statuses, Over
<1> QED  BY <1>1, <1>4, <1>5, <1>6, <1>7, EnteringKeeps

(* The job's directory gets subtitles of its video.                         *)
LEMMA TranscribingKeeps ==
    ASSUME WebInv, NEW j \in DOMAIN jobs, Transcribe(j)
    PROVE  WebInv' /\ GoOn(jobs, jobs')
<1> DEFINE d == jobs[j].dir
           v == media[InputDir(j, "wav")].wav
<1>1. /\ jobs[j].at = "transcribing" /\ KeptIn(InputDir(j, "wav"), "wav")
      /\ results' = [results EXCEPT ![d].srt = v]
      /\ Enter(j, "writing", "writing-results")
      /\ UNCHANGED <<now, made, media, libraryVars>>
  BY DEF Transcribe
<1>2. d \in Dirs /\ v \in Videos /\ (Unshared(jobs) => Owner(jobs, d, v))
  BY <1>1, OwnDir, InputIsOfSrc DEF MediaKinds
<1> HIDE DEF d, v
<1>3. /\ results' \in [Dirs -> [srt : VideoOrNone, json : VideoOrNone]]
      /\ \A e \in Dirs : e # d => results'[e] = results[e]
      /\ results'[d].srt = v /\ results'[d].json = results[d].json
  BY <1>1, <1>2, FilesAsTheyAre DEF VideoOrNone
<1>4. ASSUME Unshared(jobs), NEW e \in Dirs, NEW kind \in ResultKinds
      PROVE  results'[e][kind] \in {None, results[e][kind]} \/ Owner(jobs, e, results'[e][kind])
  <2>1. CASE e # d
    BY <1>3, <2>1
  <2>2. CASE e = d
    BY <1>2, <1>3, <1>4, <2>2 DEF ResultKinds
  <2> QED  BY <2>1, <2>2
<1>5. "writing" \in At /\ "writing-results" \in Statuses /\ jobs[j].at \notin Over
  BY <1>1 DEF At, Statuses, Over
<1>6. /\ media' = media /\ KeepsMedia(jobs, media, media)
      /\ media \in [Dirs -> [wav : VideoOrNone, download : VideoOrNone]]
  BY <1>1, FilesAsTheyAre
<1> QED  BY <1>1, <1>3, <1>4, <1>5, <1>6, EnteringKeeps

(* The media that go are nobody's but the job's.                            *)
LEMMA FinishingKeeps ==
    ASSUME WebInv, NEW j \in DOMAIN jobs, Finish(j)
    PROVE  WebInv' /\ GoOn(jobs, jobs')
<1> DEFINE d == jobs[j].dir
           v == results[d].srt
<1>1. /\ jobs[j].at = "writing"
      /\ results' = [results EXCEPT ![d].json = v]
      /\ media' = IF jobs[j].keep THEN media ELSE [media EXCEPT ![d] = NoMedia]
      /\ Enter(j, "recording", "done")
      /\ UNCHANGED <<now, made, libraryVars>>
  BY DEF Finish
<1>2. d \in Dirs /\ ~Settled(jobs, d)
  BY <1>1, OwnDir DEF Over
<1>3. /\ v \in VideoOrNone
      /\ Unshared(jobs) => v = None \/ Owner(jobs, d, v)
  BY <1>2, FilesAsTheyAre DEF WebInv, FilesGood, ResultKinds
<1> HIDE DEF d, v
<1>4. /\ results' \in [Dirs -> [srt : VideoOrNone, json : VideoOrNone]]
      /\ \A e \in Dirs : e # d => results'[e] = results[e]
      /\ results'[d].json = v /\ results'[d].srt = results[d].srt
  BY <1>1, <1>2, <1>3, FilesAsTheyAre
<1>5. ASSUME Unshared(jobs), NEW e \in Dirs, NEW kind \in ResultKinds
      PROVE  results'[e][kind] \in {None, results[e][kind]} \/ Owner(jobs, e, results'[e][kind])
  <2>1. CASE e # d
    BY <1>4, <2>1
  <2>2. CASE e = d
    BY <1>3, <1>4, <1>5, <2>2 DEF ResultKinds
  <2> QED  BY <2>1, <2>2
<1>6. NoMedia = [wav |-> None, download |-> None]
  BY DEF NoMedia
<1>7. /\ media' \in [Dirs -> [wav : VideoOrNone, download : VideoOrNone]]
      /\ \A e \in Dirs : e # d => media'[e] = media[e]
      /\ media'[d] \in {media[d], NoMedia}
  BY <1>1, <1>2, <1>6, FilesAsTheyAre DEF VideoOrNone
<1>8. KeepsMedia(jobs, media, media')
  BY <1>2, <1>7 DEF KeepsMedia
<1>9. ASSUME NEW e \in Dirs, NEW kind \in MediaKinds
      PROVE  media'[e][kind] \in {None, media[e][kind]}
  BY <1>6, <1>7 DEF MediaKinds
<1>10. "recording" \in At /\ "done" \in Statuses /\ jobs[j].at \notin Over
  BY <1>1 DEF At, Statuses, Over
<1> QED  BY <1>1, <1>4, <1>5, <1>7, <1>8, <1>9, <1>10, EnteringKeeps

(* What the index and the temporary file say.                               *)
LEMMA LibraryAsItIs ==
    ASSUME WebInv
    PROVE  /\ index.items \in [Videos -> Item] /\ tmp.items \in [Videos -> Item]
           /\ Unshared(jobs) => /\ GoodItems(jobs, media, index.items)
                                /\ GoodItems(jobs, media, tmp.items)
BY DEF WebInv, WebTypes, RecordsGood

(* What is taken over from the library is on record there.                 *)
LEMMA ReusableIsGood ==
    ASSUME WebInv, NEW v \in Videos
    PROVE  /\ Reusable(v) \in [wav : DirOrNone, download : DirOrNone]
           /\ Unshared(jobs) => \A kind \in MediaKinds :
                                  GoodRef(jobs, media, Reusable(v)[kind], v, kind)
<1> DEFINE item == index.items[v]
           r    == Reusable(v)
<1>1. item \in Item /\ NoItem \in Item
  BY LibraryAsItIs DEF NoItem, Item, DirOrNone
<1>2. Lookup(v) \in {item, NoItem}
  BY DEF Lookup, LibraryItems
<1>3. r = [wav      |-> IF KeptIn(Lookup(v).wav, "wav") THEN Lookup(v).wav ELSE None,
           download |-> IF KeptIn(Lookup(v).download, "download") THEN Lookup(v).download
                                                                    ELSE None]
  BY DEF Reusable
<1>4. /\ Lookup(v).wav \in {item.wav, None} /\ Lookup(v).download \in {item.download, None}
      /\ item.wav \in DirOrNone /\ item.download \in DirOrNone
  BY <1>1, <1>2 DEF NoItem, Item
<1> HIDE DEF item, r
<1>5. /\ r.wav \in {item.wav, None} /\ r.download \in {item.download, None}
      /\ r \in [wav : DirOrNone, download : DirOrNone]
  BY <1>3, <1>4 DEF DirOrNone
<1>6. ASSUME Unshared(jobs), NEW kind \in MediaKinds
      PROVE  GoodRef(jobs, media, r[kind], v, kind)
  <2>1. GoodRef(jobs, media, item[kind], v, kind)
    BY <1>6, LibraryAsItIs DEF GoodItems, ItemParts, item
  <2>2. r[kind] \in {item[kind], None}
    BY <1>5 DEF MediaKinds
  <2> QED  BY <2>1, <2>2 DEF GoodRef
<1> QED  BY <1>5, <1>6 DEF r

(* The job takes over what is on record.                                    *)
LEMMA StartingKeeps ==
    ASSUME WebInv, NEW j \in DOMAIN jobs, Start(j)
    PROVE  WebInv' /\ GoOn(jobs, jobs')
<1> DEFINE r      == Reusable(jobs[j].src)
           next   == IF r.wav # None THEN "transcribing"
                     ELSE IF r.download # None THEN "extracting" ELSE "downloading"
           seen   == jobs[j].seen
           handle == jobs[j].handle
<1>1. /\ jobs[j].at = "queued" /\ made' = made \cup {jobs[j].dir}
      /\ jobs' = [jobs EXCEPT ![j].reused = r, ![j].at = next, ![j].status = next]
      /\ UNCHANGED <<now, media, results, libraryVars>>
  BY DEF Start
<1>2. jobs \in Seq(Job) /\ jobs[j] \in Job /\ jobs[j].src \in Videos
  BY OwnDir DEF WebInv, WebTypes
<1>3. r \in [wav : DirOrNone, download : DirOrNone]
  BY <1>2, ReusableIsGood
<1>4. next \in At /\ next \in Statuses /\ jobs[j].at \notin Over
  BY <1>1 DEF At, Statuses, Over
<1>5. seen \in [Videos -> Item] /\ handle \in {"none", "tmp", "index"}
  BY <1>2 DEF Job
<1> HIDE DEF r, next
<1>6. jobs' = [jobs EXCEPT ![j] = Changed(jobs[j], next, next, r, seen, handle)]
  <2>1. ASSUME NEW q, q = [jobs[j] EXCEPT !.reused = r, !.at = next, !.status = next]
        PROVE  q = Changed(jobs[j], next, next, r, seen, handle)
    BY <1>2, <2>1 DEF Job, Changed
  <2> QED  BY <1>1, <2>1
<1> HIDE DEF seen, handle
<1>7. UNCHANGED now /\ \A d \in made' : d \in made \/ d = jobs[j].dir
  BY <1>1
<1>8. OneGoesOn(j, next, next, r, seen, handle)
  <2>1. next \in At /\ next \in Statuses /\ (jobs[j].at \in Over => next \in Over)
    BY <1>4
  <2> QED  BY <1>3, <1>5, <1>6, <1>7, <2>1, JobGoesOn
<1>9. GoOn(jobs, jobs') /\ (Unshared(jobs') => Unshared(jobs))
  BY <1>8, SharedForGood DEF OneGoesOn
<1>10. /\ jobs'[j].reused = r /\ jobs'[j].src = jobs[j].src
       /\ Unshared(jobs) => \A kind \in MediaKinds : GoodRef(jobs, media, r[kind], jobs[j].src, kind)
  BY <1>2, <1>8, ReusableIsGood DEF OneGoesOn, Changed, r
<1>11. ASSUME Unshared(jobs'), NEW i \in DOMAIN jobs'
       PROVE  /\ GoodItems(jobs, media, jobs'[i].seen)
              /\ \A kind \in MediaKinds :
                   GoodRef(jobs, media, jobs'[i].reused[kind], jobs'[i].src, kind)
  <2>1. GoodItems(jobs, media, jobs'[i].seen)
    BY <1>8, <1>11 DEF OneGoesOn, seen
  <2>2. CASE i = j
    BY <1>9, <1>10, <1>11, <2>1, <2>2
  <2>3. CASE i # j
    BY <1>8, <1>11, <2>1, <2>3 DEF OneGoesOn
  <2> QED  BY <2>2, <2>3
<1>12. UNCHANGED <<media, results, index, tmp>>
  BY <1>1 DEF libraryVars
<1>13. WebInv'
  BY <1>8, <1>9, <1>11, <1>12, FilesAsTheyAre, LibraryAsItIs, WebGoesOn DEF OneGoesOn
<1> QED  BY <1>9, <1>13

(* What a job puts on record is in its own directory, or was on record.    *)
LEMMA ItemIsGood ==
    ASSUME WebInv, NEW j \in DOMAIN jobs, jobs' \in Seq(Job), GoOn(jobs, jobs'),
           j \in DOMAIN jobs', jobs'[j].at \in Over, UNCHANGED media
    PROVE  Unshared(jobs') => \A part \in ItemParts :
             GoodRef(jobs', media', ItemOf(j)[part], jobs[j].src, part)
<1> DEFINE d    == jobs[j].dir
           item == ItemOf(j)
           Place(kind) == IF jobs[j].reused[kind] # None THEN jobs[j].reused[kind]
                          ELSE IF media[d][kind] # None THEN d ELSE None
<1>1. jobs[j] \in Job /\ d \in Dirs /\ Owner(jobs, d, jobs[j].src)
  BY OwnDir
<1>2. jobs[j].reused.wav \in DirOrNone /\ jobs[j].reused.download \in DirOrNone
  BY <1>1 DEF Job
<1>3. item = [dir |-> d, wav |-> Place("wav"), download |-> Place("download")]
  BY DEF ItemOf
<1>4. item.dir = d /\ \A kind \in MediaKinds : item[kind] = Place(kind)
  BY <1>3 DEF MediaKinds
<1>5. ASSUME Unshared(jobs')
      PROVE  /\ Owner(jobs', d, jobs[j].src) /\ Settled(jobs', d)
             /\ \A kind \in MediaKinds :
                  GoodRef(jobs', media', jobs[j].reused[kind], jobs[j].src, kind)
  <2>1. Owner(jobs', d, jobs[j].src)
    BY <1>1, OwnersStay
  <2>2. Settled(jobs', d)
    BY <1>5 DEF Settled, Unshared, GoOn
  <2>3. Unshared(jobs) /\ jobs \in Seq(Job) /\ KeepsMedia(jobs, media, media')
    BY <1>5, SharedForGood, FilesAsTheyAre DEF WebInv, WebTypes
  <2>4. ASSUME NEW kind \in MediaKinds
        PROVE  GoodRef(jobs', media', jobs[j].reused[kind], jobs[j].src, kind)
    <3>1. GoodRef(jobs, media, jobs[j].reused[kind], jobs[j].src, kind)
      BY <2>3 DEF WebInv, RecordsGood
    <3>2. jobs[j].reused[kind] \in DirOrNone
      BY <1>2 DEF MediaKinds
    <3> QED  BY <1>5, <2>3, <3>1, <3>2, RefStays
  <2> QED  BY <2>1, <2>2, <2>4
<1>6. ASSUME Unshared(jobs'), NEW part \in ItemParts
      PROVE  GoodRef(jobs', media', item[part], jobs[j].src, part)
  <2> HIDE DEF item, d
  <2>1. CASE part = "dir"
    BY <1>4, <1>5, <1>6, <2>1 DEF GoodRef, MediaKinds
  <2>2. CASE part \in MediaKinds
    <3>1. CASE jobs[j].reused[part] # None
      BY <1>4, <1>5, <1>6, <2>2, <3>1
    <3>2. CASE jobs[j].reused[part] = None
      BY <1>4, <1>5, <1>6, <2>2, <3>2 DEF GoodRef
    <3> QED  BY <3>1, <3>2
  <2> QED  BY <2>1, <2>2 DEF ItemParts
<1> QED  BY <1>6

(* The job adds its item to what it read.                                   *)
LEMMA ReadingKeeps ==
    ASSUME WebInv, NEW j \in DOMAIN jobs, ReadIndex(j)
    PROVE  WebInv' /\ GoOn(jobs, jobs')
<1> DEFINE v      == jobs[j].src
           item   == ItemOf(j)
           seen   == [index.items EXCEPT ![v] = item]
           status == jobs[j].status
           reused == jobs[j].reused
           handle == jobs[j].handle
<1>1. /\ jobs[j].at = "recording"
      /\ jobs' = [jobs EXCEPT ![j].at = "opening", ![j].seen = seen]
      /\ UNCHANGED <<now, workVars, libraryVars>>
  BY DEF ReadIndex, LibraryItems
<1>2. jobs \in Seq(Job) /\ jobs[j] \in Job /\ v \in Videos
  BY OwnDir DEF WebInv, WebTypes
<1>3. /\ reused \in [wav : DirOrNone, download : DirOrNone] /\ handle \in {"none", "tmp", "index"}
      /\ status \in Statuses
  BY <1>2 DEF Job, Statuses
<1>4. item \in Item
  <2>1. jobs[j].dir \in Dirs /\ reused.wav \in DirOrNone /\ reused.download \in DirOrNone
    BY <1>3, OwnDir
  <2> QED  BY <2>1 DEF ItemOf, Item, DirOrNone
<1> HIDE DEF item
<1>5. /\ seen \in [Videos -> Item] /\ seen[v] = item
      /\ \A w \in Videos : w # v => seen[w] = index.items[w]
  BY <1>2, <1>4, LibraryAsItIs
<1> HIDE DEF seen
<1>6. jobs' = [jobs EXCEPT ![j] = Changed(jobs[j], "opening", status, reused, seen, handle)]
  <2>1. ASSUME NEW q, q = [jobs[j] EXCEPT !.at = "opening", !.seen = seen]
        PROVE  q = Changed(jobs[j], "opening", status, reused, seen, handle)
    BY <1>2, <2>1 DEF Job, Changed
  <2> QED  BY <1>1, <2>1
<1> HIDE DEF status, reused, handle
<1>7. /\ UNCHANGED now /\ \A d \in made' : d \in made \/ d = jobs[j].dir
  BY <1>1 DEF workVars
<1>8. OneGoesOn(j, "opening", status, reused, seen, handle)
  <2>1. "opening" \in At /\ (jobs[j].at \in Over => "opening" \in Over)
    BY DEF At, Over
  <2> QED  BY ZenonT(40), <1>3, <1>5, <1>6, <1>7, <2>1, JobGoesOn
<1>9. GoOn(jobs, jobs') /\ (Unshared(jobs') => Unshared(jobs)) /\ UNCHANGED <<media, results, index, tmp>>
  BY <1>1, <1>8, SharedForGood DEF OneGoesOn, workVars, libraryVars
<1>10. /\ jobs'[j].seen = seen /\ jobs'[j].at = "opening" /\ j \in DOMAIN jobs'
       /\ jobs' \in Seq(Job)
  BY <1>8 DEF OneGoesOn, Changed
<1>11. ASSUME Unshared(jobs')
       PROVE  GoodItems(jobs', media', seen)
  <2>1. \A part \in ItemParts : GoodRef(jobs', media', item[part], v, part)
    BY <1>9, <1>10, <1>11, ItemIsGood DEF Over, item
  <2>2. GoodItems(jobs', media', index.items)
    <3>1. jobs \in Seq(Job) /\ KeepsMedia(jobs, media, media')
      BY <1>2, <1>9, FilesAsTheyAre
    <3> QED  BY <1>9, <1>10, <1>11, <3>1, LibraryAsItIs, ItemsStay
  <2> HIDE DEF v
  <2>3. ASSUME NEW w \in Videos, NEW part \in ItemParts
        PROVE  GoodRef(jobs', media', seen[w][part], w, part)
    <3>1. CASE w = v
      BY <1>5, <2>1, <3>1
    <3>2. CASE w # v
      BY <1>5, <2>2, <3>2 DEF GoodItems
    <3> QED  BY <3>1, <3>2
  <2> QED  BY <2>3 DEF GoodItems
<1>12. ASSUME Unshared(jobs'), NEW i \in DOMAIN jobs'
       PROVE  /\ \/ GoodItems(jobs, media, jobs'[i].seen)
                 \/ GoodItems(jobs', media', jobs'[i].seen)
              /\ \A kind \in MediaKinds :
                   GoodRef(jobs, media, jobs'[i].reused[kind], jobs'[i].src, kind)
  <2>1. \A kind \in MediaKinds : GoodRef(jobs, media, jobs'[i].reused[kind], jobs'[i].src, kind)
    BY <1>8, <1>12 DEF OneGoesOn, reused
  <2>2. CASE i = j
    BY <1>10, <1>11, <1>12, <2>1, <2>2
  <2>3. CASE i # j
    BY <1>8, <1>12, <2>1, <2>3 DEF OneGoesOn
  <2> QED  BY <2>2, <2>3
<1>13. WebInv'
  BY <1>8, <1>9, <1>12, FilesAsTheyAre, LibraryAsItIs, WebGoesOn DEF OneGoesOn
<1> QED  BY <1>9, <1>13

(* A job that writes the library, or fails to: what it writes is what it   *)
(* read, or does not parse.                                                *)
LEMMA WritingKeeps ==
    ASSUME WebInv, NEW j \in DOMAIN jobs,
           OpenTemporary(j) \/ StoreItems(j) \/ RecordFails(j)
    PROVE  WebInv' /\ GoOn(jobs, jobs')
<1> DEFINE reused == jobs[j].reused
           seen   == jobs[j].seen
<1>1. jobs \in Seq(Job) /\ jobs[j] \in Job
  BY DEF WebInv, WebTypes
<1>2. /\ reused \in [wav : DirOrNone, download : DirOrNone] /\ jobs[j].status \in Statuses
      /\ seen \in [Videos -> Item]
  BY <1>1 DEF Job, Statuses
<1>3. PICK at \in {"storing", "replacing", "ended"}, status \in Statuses,
           handle \in {"none", "tmp", "index"} :
        /\ jobs' = [jobs EXCEPT ![j] = Changed(jobs[j], at, status, reused, seen, handle)]
        /\ UNCHANGED <<now, workVars>>
        /\ index'.items \in {index.items, tmp.items, seen, NoItems}
        /\ tmp'.items \in {index.items, tmp.items, seen, NoItems}
  <2>1. CASE OpenTemporary(j)
    <3>1. /\ jobs' = [jobs EXCEPT ![j].at = "storing", ![j].handle = "tmp"]
          /\ UNCHANGED <<now, workVars>> /\ index' = index /\ tmp'.items = NoItems
      BY <2>1 DEF OpenTemporary, TornFile, File
    <3>2. ASSUME NEW q, q = [jobs[j] EXCEPT !.at = "storing", !.handle = "tmp"]
          PROVE  q = Changed(jobs[j], "storing", jobs[j].status, reused, seen, "tmp")
      BY <1>1, <3>2 DEF Job, Changed
    <3>3. jobs' = [jobs EXCEPT ![j] = Changed(jobs[j], "storing", jobs[j].status, reused, seen, "tmp")]
      BY <3>1, <3>2
    <3> HIDE DEF reused, seen
    <3> QED  BY <1>2, <3>1, <3>3
  <2>2. CASE StoreItems(j)
    <3>1. /\ jobs' = [jobs EXCEPT ![j].at = "replacing", ![j].handle = "none"]
          /\ UNCHANGED <<now, workVars>>
      BY <2>2 DEF StoreItems
    <3>2. PICK f \in {File("whole", seen), TornFile} :
            IF jobs[j].handle = "tmp" THEN tmp' = f /\ UNCHANGED index
                                     ELSE index' = f /\ UNCHANGED tmp
      BY <2>2 DEF StoreItems
    <3>3. f.items \in {seen, NoItems}
      BY <3>2 DEF File, TornFile
    <3>4. /\ index'.items \in {index.items, tmp.items, seen, NoItems}
          /\ tmp'.items \in {index.items, tmp.items, seen, NoItems}
      BY <3>2, <3>3
    <3>5. ASSUME NEW q, q = [jobs[j] EXCEPT !.at = "replacing", !.handle = "none"]
          PROVE  q = Changed(jobs[j], "replacing", jobs[j].status, reused, seen, "none")
      BY <1>1, <3>5 DEF Job, Changed
    <3>6. jobs' = [jobs EXCEPT ![j] = Changed(jobs[j], "replacing", jobs[j].status, reused, seen, "none")]
      BY <3>1, <3>5
    <3> HIDE DEF reused, seen
    <3> QED  BY <1>2, <3>1, <3>4, <3>6
  <2>3. CASE RecordFails(j)
    <3>1. /\ jobs' = [jobs EXCEPT ![j].at = "ended", ![j].status = "failed", ![j].handle = "none"]
          /\ UNCHANGED <<now, workVars>>
      BY <2>3 DEF RecordFails
    <3>2. index'.items \in {index.items, NoItems} /\ tmp'.items \in {tmp.items, NoItems}
      BY <2>3 DEF RecordFails, TornFile, File
    <3>3. ASSUME NEW q, q = [jobs[j] EXCEPT !.at = "ended", !.status = "failed", !.handle = "none"]
          PROVE  q = Changed(jobs[j], "ended", "failed", reused, seen, "none")
      BY <1>1, <3>3 DEF Job, Changed
    <3>4. jobs' = [jobs EXCEPT ![j] = Changed(jobs[j], "ended", "failed", reused, seen, "none")]
      BY <3>1, <3>3
    <3>5. "failed" \in Statuses
      BY DEF Statuses
    <3> HIDE DEF reused, seen
    <3> QED  BY <3>1, <3>2, <3>4, <3>5
  <2> QED  BY <2>1, <2>2, <2>3
<1> HIDE DEF reused, seen
<1>4. UNCHANGED now /\ \A d \in made' : d \in made \/ d = jobs[j].dir
  BY <1>3 DEF workVars
<1>5. OneGoesOn(j, at, status, reused, seen, handle)
  <2>1. at \in At /\ (jobs[j].at \in Over => at \in Over)
    BY DEF At, Over
  <2> QED  BY ZenonT(40), <1>2, <1>3, <1>4, <2>1, JobGoesOn
<1>6. GoOn(jobs, jobs') /\ (Unshared(jobs') => Unshared(jobs)) /\ UNCHANGED <<media, results>>
  BY <1>3, <1>5, SharedForGood DEF OneGoesOn, workVars
<1>7. index'.items \in [Videos -> Item] /\ tmp'.items \in [Videos -> Item]
  BY <1>2, <1>3, LibraryAsItIs, NoItemsAreGood
<1>8. ASSUME Unshared(jobs')
      PROVE  GoodItems(jobs, media, index'.items) /\ GoodItems(jobs, media, tmp'.items)
  <2>1. GoodItems(jobs, media, seen)
    BY <1>6, <1>8 DEF WebInv, RecordsGood, seen
  <2>2. GoodItems(jobs, media, index.items) /\ GoodItems(jobs, media, tmp.items)
    BY <1>6, <1>8, LibraryAsItIs
  <2> QED  BY <1>3, <2>1, <2>2, NoItemsAreGood
<1>9. ASSUME Unshared(jobs'), NEW i \in DOMAIN jobs'
       PROVE  /\ GoodItems(jobs, media, jobs'[i].seen)
              /\ \A kind \in MediaKinds :
                   GoodRef(jobs, media, jobs'[i].reused[kind], jobs'[i].src, kind)
  BY <1>5, <1>9 DEF OneGoesOn, reused, seen
<1>10. WebInv'
  BY <1>5, <1>6, <1>7, <1>8, <1>9, FilesAsTheyAre, WebGoesOn DEF OneGoesOn
<1> QED  BY <1>6, <1>10

(* The rename, seen by every thread that has the file open.                *)
LEMMA ReplacingKeeps ==
    ASSUME WebInv, NEW j \in DOMAIN jobs, ReplaceIndex(j)
    PROVE  WebInv' /\ GoOn(jobs, jobs')
<1>1. /\ jobs[j].at = "replacing" /\ index' = tmp /\ tmp' = NoFile
      /\ jobs' = [i \in DOMAIN jobs |->
                    IF i = j THEN [jobs[i] EXCEPT !.at = "ended"]
                    ELSE IF jobs[i].handle = "tmp" THEN [jobs[i] EXCEPT !.handle = "index"]
                    ELSE jobs[i]]
      /\ UNCHANGED <<now, workVars>>
  BY DEF ReplaceIndex
<1>2. jobs \in Seq(Job) /\ Len(jobs) <= MaxJobs /\ now \in 0 .. MaxSecond
  BY DEF WebInv, WebTypes
<1>3. ASSUME NEW i \in DOMAIN jobs
      PROVE  /\ jobs'[i] \in Job
             /\ jobs'[i].src = jobs[i].src /\ jobs'[i].dir = jobs[i].dir
             /\ jobs'[i].seen = jobs[i].seen /\ jobs'[i].reused = jobs[i].reused
             /\ jobs[i].at \in Over => jobs'[i].at \in Over
  <2>1. jobs[i] \in Job
    BY <1>2
  <2>2. CASE i = j
    <3>1. jobs'[i] = [jobs[i] EXCEPT !.at = "ended"]
      BY <1>1, <2>2
    <3> QED  BY <2>1, <3>1 DEF Job, At, Over
  <2>3. CASE i # j /\ jobs[i].handle = "tmp"
    <3>1. jobs'[i] = [jobs[i] EXCEPT !.handle = "index"]
      BY <1>1, <2>3
    <3> QED  BY <2>1, <3>1 DEF Job
  <2>4. CASE i # j /\ jobs[i].handle # "tmp"
    BY <1>1, <2>1, <2>4
  <2> QED  BY <2>2, <2>3, <2>4
<1>4. jobs' \in Seq(Job) /\ Len(jobs') = Len(jobs) /\ DOMAIN jobs' = DOMAIN jobs
  <2>1. DOMAIN jobs' = 1 .. Len(jobs) /\ Len(jobs) \in Nat
    BY <1>1, <1>2
  <2>2. jobs' \in [1 .. Len(jobs) -> Job]
    <3>1. jobs' = [i \in DOMAIN jobs |-> jobs'[i]]
      BY <1>1
    <3> QED  BY <1>2, <1>3, <3>1
  <2> QED  BY <1>2, <2>1, <2>2
<1>5. GoOn(jobs, jobs')
  BY <1>3, <1>4 DEF GoOn
<1>6. Unshared(jobs') => Unshared(jobs)
  BY <1>5, SharedForGood
<1>7. UNCHANGED <<made, media, results>> /\ now' \in 0 .. MaxSecond /\ Len(jobs') <= MaxJobs
  BY <1>1, <1>2, <1>4 DEF workVars
<1>8. /\ index'.items \in [Videos -> Item] /\ tmp'.items \in [Videos -> Item]
      /\ Unshared(jobs) => /\ GoodItems(jobs, media, index'.items)
                           /\ GoodItems(jobs, media, tmp'.items)
  <2>1. index'.items = tmp.items /\ tmp'.items = NoItems
    BY <1>1 DEF NoFile, File
  <2> QED  BY <2>1, LibraryAsItIs, NoItemsAreGood
<1>9. ASSUME Unshared(jobs'), NEW i \in DOMAIN jobs'
      PROVE  /\ GoodItems(jobs, media, jobs'[i].seen)
             /\ \A kind \in MediaKinds :
                  GoodRef(jobs, media, jobs'[i].reused[kind], jobs'[i].src, kind)
  BY <1>3, <1>4, <1>6, <1>9 DEF WebInv, RecordsGood
<1>10. WebInv'
  BY <1>4, <1>5, <1>6, <1>7, <1>8, <1>9, FilesAsTheyAre, WebGoesOn
<1> QED  BY <1>5, <1>10

(* One case for every step of a job.                                        *)
LEMMA JobStepKeeps ==
    ASSUME WebInv, NEW j \in DOMAIN jobs, JobStep(j)
    PROVE  WebInv' /\ GoOn(jobs, jobs')
<1>1. CASE Start(j)
  BY <1>1, StartingKeeps
<1>2. CASE StartExits(j) \/ JobFails(j)
  BY <1>2, FailingKeeps
<1>3. CASE MakeWav(j)
  BY <1>3, MakingWavKeeps
<1>4. CASE Transcribe(j)
  BY <1>4, TranscribingKeeps
<1>5. CASE Finish(j)
  BY <1>5, FinishingKeeps
<1>6. CASE ReadIndex(j)
  BY <1>6, ReadingKeeps
<1>7. CASE OpenTemporary(j) \/ StoreItems(j) \/ RecordFails(j)
  BY <1>7, WritingKeeps
<1>8. CASE ReplaceIndex(j)
  BY <1>8, ReplacingKeeps
<1> QED  BY <1>1, <1>2, <1>3, <1>4, <1>5, <1>6, <1>7, <1>8 DEF JobStep

(* A new job has a directory nobody has made; another job may have chosen  *)
(* it as well.                                                             *)
LEMMA SubmittingKeeps ==
    ASSUME WebInv, NEW v \in Videos, NEW keep \in BOOLEAN, CreateJob(v, keep)
    PROVE  /\ WebInv' /\ GoOn(jobs, jobs') /\ Len(jobs) + 1 \in DOMAIN jobs'
           /\ jobs'[Len(jobs) + 1].src = v
<1> DEFINE r == [src |-> v, dir |-> NewDir(now'), keep |-> keep, status |-> "queued",
                 at |-> "queued", reused |-> NoMedia, seen |-> NoItems, handle |-> "none"]
<1>1. /\ Len(jobs) < MaxJobs /\ now' \in now .. MaxSecond /\ jobs' = Append(jobs, r)
      /\ UNCHANGED <<workVars, libraryVars>>
  BY DEF CreateJob
<1>2. /\ jobs \in Seq(Job) /\ now \in 0 .. MaxSecond /\ MaxJobs \in Nat /\ MaxSecond \in Nat
      /\ WebTypes
  BY WebBoundsAssumption DEF WebInv, WebTypes
<1>3. now' \in 0 .. MaxSecond
  BY <1>1, <1>2
<1>4. NewDir(now') \in JobDirs
  BY <1>1, <1>2, <1>3, NewDirIsFree
<1>5. /\ NoMedia = [wav |-> None, download |-> None] /\ None \in DirOrNone
      /\ NoItems \in [Videos -> Item]
  BY NoItemsAreGood DEF NoMedia, DirOrNone
<1>6. /\ r \in Job /\ r.src = v /\ r.reused = NoMedia /\ r.seen = NoItems
  BY <1>4, <1>5 DEF Job, At, Statuses
<1> HIDE DEF r
<1>7. /\ jobs' \in Seq(Job) /\ Len(jobs') = Len(jobs) + 1 /\ Len(jobs') <= MaxJobs
      /\ \A i \in DOMAIN jobs : i \in DOMAIN jobs' /\ jobs'[i] = jobs[i]
      /\ \A i \in DOMAIN jobs' : i \in DOMAIN jobs \/ i = Len(jobs) + 1
      /\ Len(jobs) + 1 \in DOMAIN jobs' /\ jobs'[Len(jobs) + 1] = r
  BY <1>1, <1>2, <1>6
<1>8. GoOn(jobs, jobs')
  BY <1>7 DEF GoOn
<1>9. Unshared(jobs') => Unshared(jobs)
  BY <1>8, SharedForGood
<1>10. UNCHANGED <<made, media, results, index, tmp>>
  BY <1>1 DEF workVars, libraryVars
<1>11. ASSUME Unshared(jobs'), NEW i \in DOMAIN jobs'
       PROVE  /\ GoodItems(jobs, media, jobs'[i].seen)
              /\ \A kind \in MediaKinds :
                   GoodRef(jobs, media, jobs'[i].reused[kind], jobs'[i].src, kind)
  <2>1. CASE i \in DOMAIN jobs
    BY <1>7, <1>9, <1>11, <2>1 DEF WebInv, RecordsGood
  <2>2. CASE i = Len(jobs) + 1
    <3>1. jobs'[i].seen = NoItems /\ \A kind \in MediaKinds : jobs'[i].reused[kind] = None
      BY <1>5, <1>6, <1>7, <2>2 DEF MediaKinds
    <3> QED  BY <3>1, NoItemsAreGood DEF GoodRef
  <2> QED  BY <1>7, <1>11, <2>1, <2>2
<1>12. WebInv'
  BY <1>3, <1>7, <1>8, <1>9, <1>10, <1>11, FilesAsTheyAre, LibraryAsItIs, WebGoesOn
<1> QED  BY <1>6, <1>7, <1>8, <1>12

(* Steps that leave jobs, files and library alone.                          *)
LEMMA IdleKeeps ==
    ASSUME WebInv, UNCHANGED <<now, jobs, workVars, libraryVars>>
    PROVE  WebInv' /\ GoOn(jobs, jobs')
<1>1. WebInv'
  BY DEF WebInv, WebTypes, Unshared, FilesGood, RecordsGood, GoodItems, GoodRef, Owner, Settled,
         workVars, libraryVars
<1>2. GoOn(jobs, jobs')
  BY DEF GoOn
<1> QED  BY <1>1, <1>2

(* Questions and answers are such steps.                                    *)
LEMMA TurnKeeps ==
    ASSUME WebInv, NEW t, TurnStep(t)
    PROVE  WebInv' /\ GoOn(jobs, jobs')
BY IdleKeeps DEF TurnStep, ReadSession, AnswerFails, SaveTurn, SaveTurnFails

-----------------------------------------------------------------------------
(***************************************************************************)
(* A step of the sidebar.                                                  *)
(***************************************************************************)

(* What is served of a video, by the library or by a job, is of it.        *)
LEMMA ResultsAreOfSrc ==
    ASSUME WebInv, Unshared(jobs)
    PROVE  /\ \A v \in Videos : ServedTranscript(v) \in {None, v}
           /\ \A j \in DOMAIN jobs : \A kind \in ResultKinds :
                results[jobs[j].dir][kind] \in {None, jobs[j].src}
<1>1. jobs \in Seq(Job) /\ FilesGood(jobs, media, results)
  BY DEF WebInv, WebTypes
<1>2. ASSUME NEW v \in Videos
      PROVE  ServedTranscript(v) \in {None, v}
  <2> DEFINE d == index.items[v].dir
  <2>1. d \in DirOrNone
    BY LibraryAsItIs DEF Item
  <2>2. d # None => Owner(jobs, d, v)
    BY LibraryAsItIs DEF GoodItems, GoodRef, ItemParts
  <2>3. ASSUME d # None, results[d].json # None
        PROVE  results[d].json = v
    <3>1. Owner(jobs, d, results[d].json)
      BY <1>1, <2>1, <2>3 DEF FilesGood, ResultKinds, DirOrNone
    <3> QED  BY <1>1, <2>2, <2>3, <3>1, OneOwner
  <2> QED  BY <2>3 DEF ServedTranscript, LibraryItems
<1>3. ASSUME NEW j \in DOMAIN jobs, NEW kind \in ResultKinds,
             results[jobs[j].dir][kind] # None
      PROVE  results[jobs[j].dir][kind] = jobs[j].src
  <2>1. jobs[j].dir \in Dirs /\ Owner(jobs, jobs[j].dir, jobs[j].src)
    BY OwnDir
  <2>2. Owner(jobs, jobs[j].dir, results[jobs[j].dir][kind])
    BY <1>1, <1>3, <2>1 DEF FilesGood
  <2> QED  BY <1>1, <2>1, <2>2, OneOwner
<1> QED  BY <1>2, <1>3

(* The server or another client goes on.                                   *)
LEMMA ServerKeeps ==
    ASSUME SidebarInv, WebInv', GoOn(jobs, jobs'), UNCHANGED <<page, visited, scriptVars>>
    PROVE  SidebarInv'
<1>1. UNCHANGED <<page, visited, button, analysis, polls, cached, restoring, shown>>
  BY DEF scriptVars
<1>2. PageTypes' /\ OneAtATime'
  BY <1>1 DEF SidebarInv, PageTypes, OneAtATime, GoOn
<1>3. Unshared(jobs') => Unshared(jobs)
  BY SharedForGood
<1> QED  BY <1>1, <1>2, <1>3 DEF SidebarInv

(* A page is opened, or goes on to another video.                          *)
LEMMA BrowsingKeeps ==
    ASSUME SidebarInv, NEW v \in Videos, OpenPage(v) \/ Navigate(v)
    PROVE  SidebarInv'
<1>1. UNCHANGED webVars
  BY DEF OpenPage, Navigate
<1>2. WebInv' /\ jobs' = jobs
  BY <1>1, IdleKeeps DEF SidebarInv, webVars
<1>3. v # None
  BY WebBoundsAssumption
<1>4. CASE OpenPage(v)
  BY <1>2, <1>3, <1>4 DEF OpenPage, SidebarInv, PageTypes, OneAtATime, VideoOrNone
<1>5. CASE Navigate(v)
  <2>1. /\ page # None /\ page' = v /\ visited' = visited \cup {v}
        /\ UNCHANGED <<button, analysis, polls, cached, restoring, shown>>
    BY <1>5 DEF Navigate, scriptVars
  <2>2. PageTypes'
    BY <1>2, <1>3, <2>1 DEF SidebarInv, PageTypes, VideoOrNone
  <2>3. OneAtATime' /\ (Unshared(jobs) => shown' \in visited' \cup {None})
    BY <2>1 DEF SidebarInv, OneAtATime
  <2> QED  BY <1>2, <2>2, <2>3 DEF SidebarInv
<1> QED  BY <1>4, <1>5

(* What was saved is looked up and brought back.                           *)
LEMMA RestoringKeeps ==
    ASSUME SidebarInv, FindCached \/ RestoreTranscript \/ LoadCached
    PROVE  SidebarInv'
<1>1. UNCHANGED <<webVars, page, visited, button, analysis, polls>>
  BY DEF FindCached, RestoreTranscript, LoadCached
<1>2. WebInv' /\ jobs' = jobs
  BY <1>1, IdleKeeps DEF SidebarInv, webVars
<1>3. visited \subseteq Videos /\ cached \in visited \cup {None}
      /\ (restoring.at = "transcript" => restoring.src \in visited)
      /\ (restoring.at = "lookup" => page \in visited)
  BY DEF SidebarInv, PageTypes
<1>4. /\ cached' \in visited \cup {None}
      /\ restoring' \in [at : {"lookup", "transcript", "over"}, src : VideoOrNone]
      /\ restoring'.at = "lookup" => restoring.at = "lookup"
      /\ restoring'.at = "transcript" => restoring'.src \in visited
  BY <1>3 DEF FindCached, RestoreTranscript, LoadCached, SidebarInv, PageTypes, VideoOrNone
<1>5. PageTypes' /\ OneAtATime'
  BY <1>1, <1>2, <1>4 DEF SidebarInv, PageTypes, OneAtATime
<1>6. ASSUME Unshared(jobs)
      PROVE  shown' \in visited \cup {None}
  <2>1. \A v \in visited : ServedTranscript(v) \in visited \cup {None}
    BY <1>3, <1>6, ResultsAreOfSrc DEF SidebarInv
  <2>2. shown \in visited \cup {None}
    BY <1>6 DEF SidebarInv
  <2>3. CASE FindCached
    BY <2>2, <2>3 DEF FindCached
  <2>4. CASE RestoreTranscript
    BY <1>3, <2>1, <2>2, <2>4 DEF RestoreTranscript
  <2>5. CASE LoadCached
    BY <1>3, <2>1, <2>2, <2>5 DEF LoadCached
  <2> QED  BY <2>3, <2>4, <2>5
<1> QED  BY <1>1, <1>2, <1>5, <1>6 DEF SidebarInv

(* An analysis is asked for, and perhaps refused.                          *)
LEMMA AskingKeeps ==
    ASSUME SidebarInv, ClickAnalyze \/ PostFails
    PROVE  SidebarInv'
<1>1. UNCHANGED <<webVars, page, visited, polls, cached, restoring>>
  BY DEF ClickAnalyze, PostFails
<1>2. WebInv' /\ jobs' = jobs
  BY <1>1, IdleKeeps DEF SidebarInv, webVars
<1>3. /\ button' \in BOOLEAN /\ analysis' \in {"idle", "posting"}
      /\ button' \/ analysis' = "posting" => button \/ analysis = "posting"
      /\ ~ (button' /\ analysis' = "posting")
      /\ shown' \in {shown, None}
  BY DEF ClickAnalyze, PostFails, SidebarInv, PageTypes, OneAtATime
<1>4. PageTypes'
  BY <1>1, <1>2, <1>3 DEF SidebarInv, PageTypes
<1>5. OneAtATime'
  BY <1>1, <1>3 DEF SidebarInv, OneAtATime
<1> QED  BY <1>1, <1>2, <1>3, <1>4, <1>5 DEF SidebarInv

(* A job is submitted for the page.                                        *)
LEMMA PostingKeeps ==
    ASSUME SidebarInv, PostJob
    PROVE  SidebarInv'
<1>1. /\ analysis = "posting" /\ CreateJob(page, TRUE) /\ analysis' = "idle"
      /\ UNCHANGED <<page, visited, restoring, shown>>
  BY DEF PostJob
<1>2. page \in Videos /\ page \in visited /\ button = FALSE
  BY <1>1 DEF SidebarInv, PageTypes, OneAtATime
<1>3. /\ WebInv' /\ GoOn(jobs, jobs')
      /\ Len(jobs) + 1 \in DOMAIN jobs' /\ jobs'[Len(jobs) + 1].src = page
  BY <1>1, <1>2, SubmittingKeeps DEF SidebarInv
<1> DEFINE n == Len(jobs) + 1
<1>4. n \in 1 .. MaxJobs
  <2>1. jobs' \in Seq(Job) /\ Len(jobs') <= MaxJobs /\ MaxJobs \in Nat
    BY <1>3, WebBoundsAssumption DEF WebInv, WebTypes
  <2>2. n \in DOMAIN jobs'
    BY <1>3
  <2> HIDE DEF n
  <2> QED  BY <2>1, <2>2
<1> HIDE DEF n
<1>5. \/ /\ polls' = [polls EXCEPT ![n] = "polling"]
         /\ cached' = None /\ button' = FALSE
      \/ button' = TRUE /\ UNCHANGED <<polls, cached>>
  BY <1>2 DEF PostJob, n
<1>6. /\ polls \in [1 .. MaxJobs -> {"none", "polling", "loading", "over", "lost"}]
      /\ \A j \in DOMAIN polls : polls[j] # "polling"
  BY <1>1 DEF SidebarInv, PageTypes, OneAtATime
<1>7. OneAtATime'
  <2>1. CASE polls' = [polls EXCEPT ![n] = "polling"] /\ button' = FALSE
    <3>1. \A j \in DOMAIN polls' : polls'[j] = "polling" => j = n
      BY <1>4, <1>6, <2>1
    <3> QED  BY <1>1, <2>1, <3>1 DEF OneAtATime
  <2>2. CASE button' = TRUE /\ UNCHANGED polls
    BY <1>1, <1>6, <2>2 DEF OneAtATime
  <2> QED  BY <1>5, <2>1, <2>2
<1>8. ASSUME NEW j \in DOMAIN polls', polls'[j] # "none"
      PROVE  j \in DOMAIN jobs' /\ jobs'[j].src \in visited
  <2>1. CASE j = n
    BY <1>2, <1>3, <2>1 DEF n
  <2>2. CASE j # n
    <3>1. j \in DOMAIN polls /\ polls[j] # "none"
      BY <1>4, <1>5, <1>6, <1>8, <2>2
    <3>2. j \in DOMAIN jobs /\ jobs[j].src \in visited
      BY <3>1 DEF SidebarInv, PageTypes
    <3> QED  BY <1>3, <3>2 DEF GoOn
  <2> QED  BY <2>1, <2>2
<1>9. /\ polls' \in [1 .. MaxJobs -> {"none", "polling", "loading", "over", "lost"}]
      /\ cached' \in visited \cup {None} /\ button' \in BOOLEAN
  BY <1>4, <1>5, <1>6 DEF SidebarInv, PageTypes
<1>10. PageTypes'
  BY <1>1, <1>2, <1>8, <1>9 DEF SidebarInv, PageTypes
<1>11. Unshared(jobs') => shown' \in visited' \cup {None}
  BY <1>1, <1>3, SharedForGood DEF SidebarInv
<1> QED  BY <1>3, <1>7, <1>10, <1>11 DEF SidebarInv

(* A poll is answered or lost, and a job that is done is shown.            *)
LEMMA PollingKeeps ==
    ASSUME SidebarInv, NEW j \in DOMAIN polls,
           PollPartial(j) \/ PollEnds(j) \/ PollLost(j) \/ ShowTranscript(j)
    PROVE  SidebarInv'
<1>1. UNCHANGED <<webVars, page, visited, analysis, cached, restoring>>
  BY DEF PollPartial, PollEnds, PollLost, ShowTranscript
<1>2. WebInv' /\ jobs' = jobs
  BY <1>1, IdleKeeps DEF SidebarInv, webVars
<1>3. polls[j] # "none"
  BY DEF PollPartial, PollEnds, PollLost, ShowTranscript
<1>4. j \in DOMAIN jobs /\ jobs[j].src \in visited /\ page # None
  BY <1>3 DEF SidebarInv, PageTypes
<1>5. polls \in [1 .. MaxJobs -> {"none", "polling", "loading", "over", "lost"}]
  BY DEF SidebarInv, PageTypes
<1>6. /\ polls' \in [1 .. MaxJobs -> {"none", "polling", "loading", "over", "lost"}]
      /\ \A k \in DOMAIN polls : k # j => polls'[k] = polls[k]
      /\ polls'[j] = "polling" => polls[j] = "polling" /\ button' = button
      /\ button' \in {button, TRUE}
      /\ button' # button => polls[j] = "polling" /\ polls'[j] # "polling"
  BY <1>5 DEF PollPartial, PollEnds, PollLost, ShowTranscript
<1>7. PageTypes'
  BY <1>1, <1>2, <1>4, <1>5, <1>6 DEF SidebarInv, PageTypes
<1>8. OneAtATime'
  BY <1>1, <1>5, <1>6 DEF SidebarInv, OneAtATime
<1>9. ASSUME Unshared(jobs)
      PROVE  shown' \in visited \cup {None}
  <2>1. /\ results[jobs[j].dir].srt \in visited \cup {None}
        /\ results[jobs[j].dir].json \in visited \cup {None}
    BY <1>4, <1>9, ResultsAreOfSrc DEF SidebarInv, ResultKinds
  <2>2. shown \in visited \cup {None}
    BY <1>9 DEF SidebarInv
  <2> QED  BY <2>1, <2>2 DEF PollPartial, PollEnds, PollLost, ShowTranscript, ShownAfterPoll
<1> QED  BY <1>1, <1>2, <1>7, <1>8, <1>9 DEF SidebarInv

(* Notes and questions change nothing the invariant speaks of.             *)
LEMMA NotesKeep ==
    ASSUME SidebarInv, Ask \/ Clear \/ \E k \in Kinds : Order(k)
    PROVE  SidebarInv'
<1>1. /\ UNCHANGED <<now, jobs, workVars, libraryVars>>
      /\ UNCHANGED <<page, visited, button, analysis, polls, cached, restoring, shown>>
  BY DEF Ask, Clear, Order, AskQuestion, ClearSession, SaveExtra, scriptVars
<1>2. WebInv' /\ jobs' = jobs
  BY <1>1, IdleKeeps DEF SidebarInv
<1> QED  BY <1>1, <1>2 DEF SidebarInv, PageTypes, OneAtATime

-----------------------------------------------------------------------------
(***************************************************************************)
(* The theorems.                                                           *)
(***************************************************************************)

(* The invariant holds.                                                     *)
LEMMA SidebarInvariant == Spec => []SidebarInv
<1>1. Init => SidebarInv
  <2> SUFFICES ASSUME Init
               PROVE  SidebarInv
    OBVIOUS
  <2> DEFINE v0 == IF Known # {} THEN CHOOSE v \in Known : TRUE ELSE None
  <2>1. v0 \in VideoOrNone /\ (v0 # None => v0 \in Known) /\ (Known # {} => v0 \in Known)
    BY WebBoundsAssumption DEF VideoOrNone
  <2>2. \A d \in Dirs : LeftIn(d) = IF d = Earlier THEN v0 ELSE None
    BY DEF LeftIn
  <2> HIDE DEF v0
  <2>3. /\ now = 0 /\ jobs = <<>> /\ made = {Earlier}
        /\ media = [d \in Dirs |-> [wav |-> LeftIn(d), download |-> LeftIn(d)]]
        /\ results = [d \in Dirs |-> [srt |-> LeftIn(d), json |-> LeftIn(d)]]
        /\ tmp.items = NoItems
        /\ index.items = IF Known = {} THEN NoItems
                         ELSE [v \in Videos |-> IF v \in Known THEN EarlierItem ELSE NoItem]
    BY DEF Init, WebInit, NoFile, File
  <2>4. \A d \in Dirs : /\ LeftIn(d) \in VideoOrNone
                        /\ LeftIn(d) # None => Owner(jobs, d, LeftIn(d))
    BY <2>1, <2>2 DEF Owner, VideoOrNone
  <2>5. /\ media \in [Dirs -> [wav : VideoOrNone, download : VideoOrNone]]
        /\ results \in [Dirs -> [srt : VideoOrNone, json : VideoOrNone]]
        /\ FilesGood(jobs, media, results)
    BY <2>3, <2>4 DEF FilesGood, MediaKinds, ResultKinds
  <2>6. /\ EarlierItem \in Item /\ NoItem \in Item /\ Earlier \in Dirs /\ Earlier # None
        /\ \A part \in ItemParts : EarlierItem[part] = Earlier /\ NoItem[part] = None
    BY WebBoundsAssumption DEF EarlierItem, NoItem, Item, DirOrNone, ItemParts, MediaKinds, Dirs
  <2>7. /\ index.items \in [Videos -> Item]
        /\ GoodItems(jobs, media, index.items)
    <3>1. CASE Known = {}
      BY <2>3, <3>1, NoItemsAreGood
    <3>2. CASE Known # {}
      <4>1. \A kind \in MediaKinds : media[Earlier][kind] # None
        BY <2>1, <2>2, <2>3, <2>6, <3>2, WebBoundsAssumption DEF MediaKinds
      <4>2. Settled(jobs, Earlier)
        BY <2>3 DEF Settled
      <4>3. ASSUME NEW v \in Videos, NEW part \in ItemParts
            PROVE  GoodRef(jobs, media, index.items[v][part], v, part)
        BY <2>3, <2>6, <3>2, <4>1, <4>2 DEF GoodRef, Owner
      <4> QED  BY <2>3, <2>6, <3>2, <4>3 DEF GoodItems
    <3> QED  BY <3>1, <3>2
  <2>8. WebTypes
    <3>1. 0 \in 0 .. MaxSecond /\ 0 <= MaxJobs
      BY WebBoundsAssumption
    <3>2. <<>> \in Seq(Job) /\ Len(<<>>) = 0
      OBVIOUS
    <3>3. tmp.items \in [Videos -> Item]
      BY <2>3, NoItemsAreGood
    <3> QED  BY <2>3, <2>5, <2>7, <3>1, <3>2, <3>3 DEF WebTypes
  <2>9. RecordsGood(jobs, media, index.items, tmp.items)
    BY <2>3, <2>7, NoItemsAreGood DEF RecordsGood
  <2>10. PageTypes /\ OneAtATime /\ shown = None
    BY DEF Init, PageTypes, OneAtATime, VideoOrNone
  <2> QED  BY <2>5, <2>8, <2>9, <2>10 DEF SidebarInv, WebInv
<1>2. SidebarInv /\ [Next]_vars => SidebarInv'
  <2> SUFFICES ASSUME SidebarInv, [Next]_vars
               PROVE  SidebarInv'
    OBVIOUS
  <2> USE DEF SidebarInv
  <2>1. CASE Server
    <3>1. WebInv' /\ GoOn(jobs, jobs')
      BY <2>1, JobStepKeeps, TurnKeeps DEF Server, WebStep
    <3> QED  BY <2>1, <3>1, ServerKeeps DEF Server, sidebarVars
  <2>2. CASE Script
    <3>1. CASE FindCached \/ RestoreTranscript
      BY <3>1, RestoringKeeps
    <3>2. CASE PostJob
      BY <3>2, PostingKeeps
    <3>3. CASE PostFails
      BY <3>3, AskingKeeps
    <3>4. CASE \E j \in DOMAIN polls : PollEnds(j) \/ ShowTranscript(j)
      BY <3>4, PollingKeeps
    <3> QED  BY <2>2, <3>1, <3>2, <3>3, <3>4 DEF Script
  <2>3. CASE User
    <3>1. CASE LoadCached
      BY <3>1, RestoringKeeps
    <3>2. CASE ClickAnalyze
      BY <3>2, AskingKeeps
    <3>3. CASE Ask \/ Clear \/ \E k \in Kinds : Order(k)
      BY <3>3, NotesKeep
    <3>4. CASE \E v \in Videos : OpenPage(v) \/ Navigate(v)
      BY <3>4, BrowsingKeeps
    <3> QED  BY <2>3, <3>1, <3>2, <3>3, <3>4 DEF User
  <2>4. CASE OtherClientSubmits
    <3>1. WebInv' /\ GoOn(jobs, jobs')
      BY <2>4, SubmittingKeeps DEF OtherClientSubmits
    <3> QED  BY <2>4, <3>1, ServerKeeps DEF OtherClientSubmits
  <2>5. CASE \E j \in DOMAIN polls : PollPartial(j) \/ PollLost(j)
    BY <2>5, PollingKeeps
  <2>6. CASE UNCHANGED vars
    <3>1. WebInv' /\ GoOn(jobs, jobs')
      BY <2>6, IdleKeeps DEF vars, webVars
    <3> QED  BY <2>6, <3>1, ServerKeeps DEF vars, sidebarVars
  <2> QED  BY <2>1, <2>2, <2>3, <2>4, <2>5, <2>6 DEF Next
<1> QED  BY <1>1, <1>2, PTL DEF Spec

(* analyzeCurrentVideo, pollJob: the script never follows two jobs, and    *)
(* the button starts none while one is posted or polled.                   *)
THEOREM OneAnalysis == Spec => []OneAnalysisAtATime
<1>1. SidebarInv => OneAnalysisAtATime
  <2> SUFFICES ASSUME SidebarInv
               PROVE  OneAnalysisAtATime
    OBVIOUS
  <2> DEFINE polling == {j \in DOMAIN polls : polls[j] = "polling"}
             n       == Cardinality(polling)
  <2>1. n \in {0, 1} /\ (polling = {} => n = 0)
    <3>1. CASE polling = {}
      BY <3>1, FS_EmptySet
    <3>2. CASE polling # {}
      <4>1. PICK j \in polling : TRUE
        BY <3>2
      <4>2. polling = {j}
        BY <4>1 DEF SidebarInv, OneAtATime
      <4> HIDE DEF polling
      <4> QED  BY <3>2, <4>2, FS_Singleton
    <3> QED  BY <3>1, <3>2
  <2>2. polling # {} => analysis = "idle" /\ ~button
    BY DEF SidebarInv, PageTypes, OneAtATime
  <2>3. analysis # "idle" => ~button
    BY DEF SidebarInv, PageTypes, OneAtATime
  <2> HIDE DEF n, polling
  <2>4. n + (IF analysis = "idle" THEN 0 ELSE 1) + (IF button THEN 1 ELSE 0) <= 1
    BY <2>1, <2>2, <2>3
  <2> QED  BY <2>4 DEF OneAnalysisAtATime, n, polling
<1> QED  BY <1>1, SidebarInvariant, PTL

(* While no two jobs share a directory.                                    *)
LEMMA NothingShared ==
    ASSUME SidebarInv, \A d \in Dirs : ~DirShared(d)
    PROVE  Unshared(jobs)
<1>1. \A i \in DOMAIN jobs : jobs[i].dir \in Dirs
  BY OwnDir DEF SidebarInv
<1> QED  BY <1>1 DEF DirShared, Unshared

(* record_library_item and lookup_library_item, loadTranscript and         *)
(* autoRestoreCachedResult: what is found of a video, and shown, is of it. *)
THEOREM ResultsAreRight == Spec => []RightResults
<1>1. SidebarInv => RightResults
  <2> SUFFICES ASSUME SidebarInv, \A d \in Dirs : ~DirShared(d)
               PROVE  /\ \A v \in Videos : Found(v) => results[Lookup(v).dir].json = v
                      /\ shown \in visited \cup {None}
    BY DEF RightResults
  <2>1. Unshared(jobs) /\ WebInv
    BY NothingShared DEF SidebarInv
  <2>2. ASSUME NEW v \in Videos, Found(v)
        PROVE  results[Lookup(v).dir].json = v
    <3>1. NoItem.dir = None
      BY DEF NoItem
    <3>2. Lookup(v) = index.items[v] /\ results[index.items[v].dir].json # None
          /\ index.items[v].dir # None
      BY <2>2, <3>1 DEF Found, Lookup, LibraryItems
    <3>3. ServedTranscript(v) = results[index.items[v].dir].json
      BY <3>2 DEF ServedTranscript, LibraryItems
    <3> QED  BY <2>1, <3>2, <3>3, ResultsAreOfSrc
  <2> QED  BY <2>1, <2>2 DEF SidebarInv
<1> QED  BY <1>1, SidebarInvariant, PTL

(* _cleanup_media removes nothing that is on record, or that a job has     *)
(* taken over from there.                                                  *)
THEOREM MediaStay == Spec => []RecordedMediaStay
<1>1. SidebarInv => RecordedMediaStay
  <2> SUFFICES ASSUME SidebarInv, \A d \in Dirs : ~DirShared(d), NEW kind \in MediaKinds
               PROVE  /\ \A v \in Videos : LET d == LibraryItems[v][kind]
                                           IN  d # None => KeptIn(d, kind)
                      /\ \A j \in DOMAIN jobs : LET d == jobs[j].reused[kind]
                                                IN  d # None => KeptIn(d, kind)
    BY DEF RecordedMediaStay, MediaKinds
  <2>1. RecordsGood(jobs, media, index.items, tmp.items)
    BY NothingShared DEF SidebarInv, WebInv
  <2>2. ASSUME NEW v \in Videos, LibraryItems[v][kind] # None
        PROVE  KeptIn(LibraryItems[v][kind], kind)
    BY <2>1, <2>2 DEF RecordsGood, GoodItems, GoodRef, ItemParts, KeptIn, LibraryItems
  <2>3. ASSUME NEW j \in DOMAIN jobs, jobs[j].reused[kind] # None
        PROVE  KeptIn(jobs[j].reused[kind], kind)
    BY <2>1, <2>3 DEF RecordsGood, GoodRef, KeptIn
  <2> QED  BY <2>2, <2>3
<1> QED  BY <1>1, SidebarInvariant, PTL

-----------------------------------------------------------------------------
(***************************************************************************)
(* What is saved stays saved: unless two jobs were ever recorded at once,  *)
(* the library can be read and leads to the results of jobs that ended as  *)
(* done, and to those of each of them; unless two answers were ever saved  *)
(* at once, a session that parses is made of the turns saved in it.  That  *)
(* jobs, directories and records have their types is taken from the        *)
(* invariant above.                                                        *)
(***************************************************************************)

\* Where a job is that updates the library.
Updating == {"opening", "storing", "replacing"}

Finished == {"recording", "ended"} \cup Updating

Done(r) == r.at \in Finished /\ r.status = "done"

\* The results of a job are there before it is said to be done.
GoodJob(r, res) ==
  /\ r.at \in {"recording"} \cup Updating => r.status = "done"
  /\ r.at = "ended" => r.status \in {"done", "failed"}
  /\ r.at = "writing" => res[r.dir].srt # None
  /\ Done(r) => res[r.dir].json # None

Recorded(r) == r.at = "ended" /\ r.status = "done"

FromJob(js, items, v) ==
  \E i \in DOMAIN js : Recorded(js[i]) /\ js[i].src = v /\ items[v].dir = js[i].dir

OnRecord(js, items) ==
  /\ \A i \in DOMAIN js : Recorded(js[i]) => FromJob(js, items, js[i].src)
  /\ \A v \in Videos : \/ items[v].dir = None /\ v \notin Known
                       \/ items[v].dir = Earlier /\ v \in Known
                       \/ FromJob(js, items, v)

\* One job at a time updates the library: it read what is still there, and
\* the temporary file is its own.
Carries(r, items) ==
  /\ r.seen[r.src].dir = r.dir
  /\ \A v \in Videos : v # r.src => r.seen[v] = items[v]

Serial(js, library, temporary) ==
  /\ \A i, k \in DOMAIN js : js[i].at \in Updating /\ js[k].at \in Updating => i = k
  /\ \A i \in DOMAIN js :
       /\ js[i].handle = IF js[i].at = "storing" THEN "tmp" ELSE "none"
       /\ js[i].at = "replacing" => temporary = File("whole", js[i].seen)
       /\ js[i].at \in Updating => Carries(js[i], library.items)
  /\ library.kind # "torn"
  /\ OnRecord(js, library.items)

LibraryInv ==
  /\ \A i \in DOMAIN jobs : GoodJob(jobs[i], results)
  /\ Known # {} => results[Earlier].json # None
  /\ "library" \notin overlapped => Serial(jobs, index, tmp)

-----------------------------------------------------------------------------
(***************************************************************************)
(* Sessions.                                                               *)
(***************************************************************************)

Turn == [dir : Dirs, at : {"asking", "saving", "saved", "failed", "cleared"},
         seen : Seq(Nat)]

Once(s, t) ==
  \E i \in DOMAIN s : s[i] = t /\ \A k \in DOMAIN s : s[k] = t => k = i

\* Session s is made of the turns saved in d.
HoldsTurns(ts, s, d) ==
  /\ \A t \in DOMAIN ts : ts[t].at = "saved" /\ ts[t].dir = d => Once(s, t)
  /\ \A i \in DOMAIN s : s[i] \in DOMAIN ts /\ ts[s[i]].at = "saved" /\ ts[s[i]].dir = d

\* One answer at a time is saved in a session: it read what is still there.
InTurn(ts, sessions) ==
  /\ \A t, u \in DOMAIN ts :
       ts[t].at = "saving" /\ ts[u].at = "saving" /\ ts[t].dir = ts[u].dir => t = u
  /\ \A t \in DOMAIN ts :
       ts[t].at = "saving" => ts[t].seen = sessions[ts[t].dir] /\ ts[t].seen # TornSession
  /\ \A d \in Dirs : sessions[d] # TornSession => HoldsTurns(ts, sessions[d], d)

ChatInv ==
  /\ turns \in Seq(Turn)
  /\ session \in [Dirs -> Seq(Nat)]
  /\ "chat" \notin overlapped => InTurn(turns, session)

(* A turn appended to a session is in it once, as are the others.          *)
LEMMA AppendedOnce ==
    ASSUME NEW s \in Seq(Nat), NEW t \in Nat, \A i \in DOMAIN s : s[i] # t
    PROVE  /\ Append(s, t) \in Seq(Nat)
           /\ Once(Append(s, t), t)
           /\ \A u \in Nat : u # t /\ Once(s, u) => Once(Append(s, t), u)
           /\ \A i \in DOMAIN Append(s, t) :
                \/ i \in DOMAIN s /\ Append(s, t)[i] = s[i]
                \/ Append(s, t)[i] = t
<1> DEFINE n == Len(s)
           a == Append(s, t)
<1>1. /\ a \in Seq(Nat) /\ n \in Nat
      /\ DOMAIN s = 1 .. n /\ DOMAIN a = 1 .. n + 1
      /\ a[n + 1] = t /\ \A i \in 1 .. n : a[i] = s[i]
  OBVIOUS
<1> HIDE DEF a, n
<1>2. Once(a, t)
  <2>1. n + 1 \in DOMAIN a /\ \A k \in DOMAIN a : a[k] = t => k = n + 1
    BY <1>1
  <2> QED  BY <1>1, <2>1 DEF Once
<1>3. ASSUME NEW u \in Nat, u # t, Once(s, u)
      PROVE  Once(a, u)
  <2>1. PICK i \in DOMAIN s : s[i] = u /\ \A k \in DOMAIN s : s[k] = u => k = i
    BY <1>3 DEF Once
  <2>2. i \in DOMAIN a /\ a[i] = u /\ \A k \in DOMAIN a : a[k] = u => k = i
    BY <1>1, <1>3, <2>1
  <2> QED  BY <2>2 DEF Once
<1>4. \A i \in DOMAIN a : (i \in DOMAIN s /\ a[i] = s[i]) \/ a[i] = t
  BY <1>1
<1> QED  BY <1>1, <1>2, <1>3, <1>4 DEF a

(* Nothing is asked, answered or cleared.                                  *)
LEMMA ChatIdle ==
    ASSUME ChatInv, UNCHANGED <<turns, session>>, "chat" \in overlapped => "chat" \in overlapped'
    PROVE  ChatInv'
BY DEF ChatInv, InTurn

(* Turns that are not saved, before or after, matter to no session.        *)
LEMMA StillHolds ==
    ASSUME NEW ts, NEW next, NEW s, NEW d, HoldsTurns(ts, s, d),
           \A t \in DOMAIN ts : ts[t].at = "saved" => t \in DOMAIN next /\ next[t] = ts[t],
           \A t \in DOMAIN next : next[t].at = "saved" => t \in DOMAIN ts /\ next[t] = ts[t]
    PROVE  HoldsTurns(next, s, d)
<1>1. ASSUME NEW t \in DOMAIN next, next[t].at = "saved", next[t].dir = d
      PROVE  Once(s, t)
  <2>1. t \in DOMAIN ts /\ ts[t].at = "saved" /\ ts[t].dir = d
    BY <1>1
  <2> QED  BY <2>1 DEF HoldsTurns
<1>2. ASSUME NEW i \in DOMAIN s
      PROVE  s[i] \in DOMAIN next /\ next[s[i]].at = "saved" /\ next[s[i]].dir = d
  <2>1. s[i] \in DOMAIN ts /\ ts[s[i]].at = "saved" /\ ts[s[i]].dir = d
    BY <1>2 DEF HoldsTurns
  <2> QED  BY <2>1
<1> QED  BY <1>1, <1>2 DEF HoldsTurns

(* A question is asked.                                                    *)
LEMMA AskedKeeps ==
    ASSUME SidebarInv, ChatInv, NEW v \in Videos, AskQuestion(v)
    PROVE  ChatInv'
<1> DEFINE n == Len(turns) + 1
           q == [dir |-> Lookup(v).dir, at |-> "asking", seen |-> <<>>]
<1>1. /\ Found(v) /\ turns' = Append(turns, q) /\ UNCHANGED <<session, overlapped>>
  BY DEF AskQuestion, n
<1>2. Lookup(v).dir \in Dirs
  <2>1. index.items[v] \in Item /\ Lookup(v) \in {index.items[v], NoItem}
    BY DEF SidebarInv, WebInv, WebTypes, Lookup, LibraryItems
  <2>2. Lookup(v).dir # None
    BY <1>1 DEF Found
  <2> QED  BY <2>1, <2>2 DEF Item, NoItem, DirOrNone
<1>3. q \in Turn
  BY <1>2 DEF Turn
<1> HIDE DEF q
<1>4. /\ turns \in Seq(Turn) /\ turns' \in Seq(Turn)
      /\ DOMAIN turns = 1 .. n - 1 /\ DOMAIN turns' = 1 .. n /\ n \in Nat \ {0}
      /\ turns'[n] = q /\ \A t \in 1 .. n - 1 : turns'[t] = turns[t]
  BY <1>1, <1>3 DEF ChatInv
<1>5. turns'[n].at = "asking"
  BY <1>4 DEF q
<1> HIDE DEF n
<1>6. ASSUME "chat" \notin overlapped
      PROVE  InTurn(turns', session)
  <2>1. InTurn(turns, session)
    BY <1>6 DEF ChatInv
  <2>2. \A t \in DOMAIN turns' : turns'[t].at # "asking" => t \in DOMAIN turns /\ turns'[t] = turns[t]
    BY <1>4, <1>5
  <2>3. \A t \in DOMAIN turns : t \in DOMAIN turns' /\ turns'[t] = turns[t]
    BY <1>4
  <2>4. \A d \in Dirs : session[d] # TornSession => HoldsTurns(turns', session[d], d)
    BY <2>1, <2>2, <2>3, StillHolds DEF InTurn
  <2> QED  BY <2>1, <2>2, <2>3, <2>4 DEF InTurn
<1> QED  BY <1>1, <1>4, <1>6 DEF ChatInv

(* What a turn is made of.                                                 *)
LEMMA TurnFacts ==
    ASSUME turns \in Seq(Turn), NEW t \in DOMAIN turns
    PROVE  /\ turns[t] \in Turn /\ t \in Nat
           /\ turns[t].dir \in Dirs /\ turns[t].seen \in Seq(Nat)
<1>1. turns[t] \in Turn /\ t \in Nat
  OBVIOUS
<1> QED  BY <1>1 DEF Turn

(* A sequence of which one element changes.                                *)
LEMMA ExceptInSeq ==
    ASSUME NEW S, NEW s \in Seq(S), NEW i \in DOMAIN s, NEW r \in S,
           NEW next, next = [s EXCEPT ![i] = r]
    PROVE  /\ next \in Seq(S) /\ DOMAIN next = DOMAIN s /\ next[i] = r
           /\ \A k \in DOMAIN s : k # i => next[k] = s[k]
OBVIOUS

\* A turn that goes on, and what was read for it.
AsTurn(t, at, seen) == [dir |-> turns[t].dir, at |-> at, seen |-> seen]

(* A turn that goes on leaves the others alone.                            *)
LEMMA TurnMoves ==
    ASSUME turns \in Seq(Turn), NEW t \in DOMAIN turns,
           NEW at \in {"asking", "saving", "saved", "failed", "cleared"}, NEW seen \in Seq(Nat),
           turns' = [turns EXCEPT ![t] = AsTurn(t, at, seen)]
    PROVE  /\ turns' \in Seq(Turn) /\ DOMAIN turns' = DOMAIN turns
           /\ turns'[t] = AsTurn(t, at, seen)
           /\ \A u \in DOMAIN turns : u # t => turns'[u] = turns[u]
<1>1. AsTurn(t, at, seen) \in Turn
  BY TurnFacts DEF Turn, AsTurn
<1> QED  BY <1>1, ExceptInSeq

(* The session is read.                                                    *)
LEMMA ReadingSessionKeeps ==
    ASSUME ChatInv, NEW t \in DOMAIN turns, ReadSession(t)
    PROVE  ChatInv'
<1>1. /\ turns[t].at = "asking" /\ UNCHANGED session /\ session[turns[t].dir] # TornSession
      /\ turns' = [turns EXCEPT ![t].at = "saving", ![t].seen = session[turns[t].dir]]
      /\ overlapped' = IF Saving(turns[t].dir) THEN overlapped \cup {"chat"} ELSE overlapped
  BY DEF ReadSession
<1>2. turns[t] \in Turn /\ turns[t].dir \in Dirs /\ session[turns[t].dir] \in Seq(Nat)
  BY TurnFacts DEF ChatInv
<1>3. /\ turns' \in Seq(Turn) /\ DOMAIN turns' = DOMAIN turns
      /\ turns'[t] = [dir |-> turns[t].dir, at |-> "saving", seen |-> session[turns[t].dir]]
      /\ \A u \in DOMAIN turns : u # t => turns'[u] = turns[u]
  <2> DEFINE seen == session[turns[t].dir]
  <2>1. ASSUME NEW q, q = [turns[t] EXCEPT !.at = "saving", !.seen = seen]
        PROVE  q = AsTurn(t, "saving", seen)
    BY <1>2, <2>1 DEF Turn, AsTurn
  <2>2. turns' = [turns EXCEPT ![t] = AsTurn(t, "saving", seen)]
    BY <1>1, <2>1
  <2> QED  BY <1>2, <2>2, TurnMoves DEF ChatInv, AsTurn
<1>4. ASSUME "chat" \notin overlapped'
      PROVE  InTurn(turns', session)
  <2>1. InTurn(turns, session) /\ ~Saving(turns[t].dir)
    BY <1>1, <1>4 DEF ChatInv
  <2>2. \A u \in DOMAIN turns : turns[u].at = "saving" => turns[u].dir # turns[t].dir
    BY <2>1 DEF Saving
  <2>3. \A u, w \in DOMAIN turns' :
          turns'[u].at = "saving" /\ turns'[w].at = "saving" /\ turns'[u].dir = turns'[w].dir
            => u = w
    BY <1>3, <2>1, <2>2 DEF InTurn
  <2>4. \A u \in DOMAIN turns' :
          turns'[u].at = "saving" =>
            turns'[u].seen = session[turns'[u].dir] /\ turns'[u].seen # TornSession
    BY <1>1, <1>3, <2>1 DEF InTurn
  <2>5. \A d \in Dirs : session[d] # TornSession => HoldsTurns(turns', session[d], d)
    <3>1. \A u \in DOMAIN turns : turns[u].at = "saved" => u \in DOMAIN turns' /\ turns'[u] = turns[u]
      BY <1>1, <1>3
    <3>2. \A u \in DOMAIN turns' : turns'[u].at = "saved" => u \in DOMAIN turns /\ turns'[u] = turns[u]
      BY <1>3
    <3> QED  BY <2>1, <3>1, <3>2, StillHolds DEF InTurn
  <2> QED  BY <2>3, <2>4, <2>5 DEF InTurn
<1> QED  BY <1>1, <1>3, <1>4 DEF ChatInv

(* No answer comes.                                                        *)
LEMMA FailedAnswerKeeps ==
    ASSUME ChatInv, NEW t \in DOMAIN turns, AnswerFails(t)
    PROVE  ChatInv'
<1>1. turns[t].at = "asking" /\ turns[t] \in Turn /\ turns \in Seq(Turn)
  BY DEF AnswerFails, ChatInv
<1> DEFINE r == [turns[t] EXCEPT !.at = "failed"]
<1>2. r \in Turn /\ r.at = "failed" /\ r.dir = turns[t].dir
  BY <1>1 DEF Turn
<1>3. turns' = [turns EXCEPT ![t] = r] /\ UNCHANGED <<session, overlapped>>
  BY DEF AnswerFails
<1> HIDE DEF r
<1>4. /\ turns' \in Seq(Turn) /\ DOMAIN turns' = DOMAIN turns /\ turns'[t] = r
      /\ \A u \in DOMAIN turns : u # t => turns'[u] = turns[u]
  BY <1>1, <1>2, <1>3
<1>5. ASSUME InTurn(turns, session)
      PROVE  InTurn(turns', session)
  <2>1. \A d \in Dirs : session[d] # TornSession => HoldsTurns(turns', session[d], d)
    BY <1>1, <1>2, <1>4, <1>5, StillHolds DEF InTurn
  <2> QED  BY <1>1, <1>2, <1>4, <1>5, <2>1 DEF InTurn
<1> QED  BY <1>3, <1>4, <1>5 DEF ChatInv

(* The session is written, as a whole or in part, or not at all.           *)
LEMMA SavingTurnKeeps ==
    ASSUME ChatInv, NEW t \in DOMAIN turns, SaveTurn(t) \/ SaveTurnFails(t)
    PROVE  ChatInv'
<1> DEFINE d == turns[t].dir
           whole == Append(turns[t].seen, t)
<1>1. PICK at \in {"saved", "failed"}, s \in {session[d], whole, TornSession} :
        /\ turns[t].at = "saving" /\ UNCHANGED overlapped
        /\ session' = [session EXCEPT ![d] = s]
        /\ turns' = [turns EXCEPT ![t].at = at, ![t].seen = <<>>]
        /\ "chat" \notin overlapped => \/ at = "saved" /\ s = whole
                                       \/ at = "failed" /\ s \in {session[d], TornSession}
  <2>1. CASE SaveTurn(t)
    <3>1. PICK s \in {whole} \cup (IF "chat" \in overlapped THEN {TornSession} ELSE {}) :
            session' = [session EXCEPT ![d] = s]
      BY <2>1 DEF SaveTurn
    <3>2. /\ turns[t].at = "saving" /\ UNCHANGED overlapped
          /\ turns' = [turns EXCEPT ![t].at = "saved", ![t].seen = <<>>]
      BY <2>1 DEF SaveTurn
    <3>3. s \in {whole, TornSession} /\ ("chat" \notin overlapped => s = whole)
      BY <3>1
    <3> HIDE DEF d, whole
    <3> QED  BY <3>1, <3>2, <3>3
  <2>2. CASE SaveTurnFails(t)
    <3>1. PICK s \in {session[d], TornSession} : session' = [session EXCEPT ![d] = s]
      BY <2>2 DEF SaveTurnFails
    <3>2. /\ turns[t].at = "saving" /\ UNCHANGED overlapped
          /\ turns' = [turns EXCEPT ![t].at = "failed", ![t].seen = <<>>]
      BY <2>2 DEF SaveTurnFails
    <3> HIDE DEF d, whole
    <3> QED  BY <3>1, <3>2
  <2> QED  BY <2>1, <2>2
<1>2. turns[t] \in Turn /\ d \in Dirs /\ turns[t].seen \in Seq(Nat) /\ t \in Nat
  BY TurnFacts DEF ChatInv
<1>3. /\ turns' \in Seq(Turn) /\ DOMAIN turns' = DOMAIN turns
      /\ turns'[t] = [dir |-> d, at |-> at, seen |-> <<>>]
      /\ \A u \in DOMAIN turns : u # t => turns'[u] = turns[u]
  <2>1. <<>> \in Seq(Nat)
    OBVIOUS
  <2>2. ASSUME NEW q, q = [turns[t] EXCEPT !.at = at, !.seen = <<>>]
        PROVE  q = AsTurn(t, at, <<>>)
    BY <1>2, <2>2 DEF Turn, AsTurn
  <2>3. turns' = [turns EXCEPT ![t] = AsTurn(t, at, <<>>)]
    BY <1>1, <2>2
  <2> QED  BY <2>1, <2>3, TurnMoves DEF ChatInv, AsTurn
<1>4. s \in Seq(Nat)
  <2>1. session[d] \in Seq(Nat) /\ whole \in Seq(Nat) /\ TornSession \in Seq(Nat)
    BY <1>2 DEF ChatInv, TornSession
  <2> HIDE DEF whole
  <2> QED  BY <1>1, <2>1
<1> HIDE DEF d, whole
<1>5. /\ session' \in [Dirs -> Seq(Nat)] /\ session'[d] = s
      /\ \A e \in Dirs : e # d => session'[e] = session[e]
  BY <1>1, <1>2, <1>4 DEF ChatInv
<1>6. ASSUME "chat" \notin overlapped
      PROVE  InTurn(turns', session')
  <2>1. InTurn(turns, session)
    BY <1>6 DEF ChatInv
  <2>2. turns[t].dir = d /\ turns[t].seen = session[d] /\ session[d] # TornSession
    BY <1>1, <2>1 DEF InTurn, d
  <2>3. HoldsTurns(turns, session[d], d) /\ session[d] \in Seq(Nat)
    BY <1>2, <2>1, <2>2 DEF InTurn, ChatInv
  <2>4. \A u \in DOMAIN turns : u # t /\ turns[u].at = "saving" => turns[u].dir # d
    BY <1>1, <2>1, <2>2 DEF InTurn
  <2>5. \A u, w \in DOMAIN turns' :
          turns'[u].at = "saving" /\ turns'[w].at = "saving" /\ turns'[u].dir = turns'[w].dir
            => u = w
    BY <1>3, <2>1 DEF InTurn
  <2>6. ASSUME NEW u \in DOMAIN turns', turns'[u].at = "saving"
        PROVE  turns'[u].seen = session'[turns'[u].dir] /\ turns'[u].seen # TornSession
    <3>1. u # t /\ turns'[u] = turns[u] /\ u \in DOMAIN turns
      BY <1>3, <2>6
    <3>2. turns[u].dir \in Dirs /\ turns[u].dir # d
      BY <2>4, <2>6, <3>1, TurnFacts DEF ChatInv
    <3> QED  BY <1>5, <2>1, <2>6, <3>1, <3>2 DEF InTurn
  <2>7. CASE at = "failed" /\ s \in {session[d], TornSession}
    <3>1. \A e \in Dirs : session[e] # TornSession => HoldsTurns(turns', session[e], e)
      <4>1. \A u \in DOMAIN turns : turns[u].at = "saved" => u \in DOMAIN turns' /\ turns'[u] = turns[u]
        BY <1>1, <1>3
      <4>2. \A u \in DOMAIN turns' : turns'[u].at = "saved" => u \in DOMAIN turns /\ turns'[u] = turns[u]
        BY <1>3, <2>7
      <4> QED  BY <2>1, <4>1, <4>2, StillHolds DEF InTurn
    <3>2. \A e \in Dirs : session'[e] # TornSession => session'[e] = session[e]
      BY <1>5, <2>7
    <3> QED  BY <2>5, <2>6, <3>1, <3>2 DEF InTurn
  <2>8. CASE at = "saved" /\ s = whole
    <3>1. session'[d] = Append(session[d], t)
      BY <1>5, <2>2, <2>8 DEF whole
    <3>2. \A i \in DOMAIN session[d] : session[d][i] # t
      BY <1>1, <2>3 DEF HoldsTurns
    <3>3. /\ Once(session'[d], t)
          /\ \A u \in Nat : u # t /\ Once(session[d], u) => Once(session'[d], u)
          /\ \A i \in DOMAIN session'[d] :
               \/ i \in DOMAIN session[d] /\ session'[d][i] = session[d][i]
               \/ session'[d][i] = t
      BY <1>2, <2>3, <3>1, <3>2, AppendedOnce
    <3>4. HoldsTurns(turns', session'[d], d)
      <4>1. ASSUME NEW u \in DOMAIN turns', turns'[u].at = "saved", turns'[u].dir = d
            PROVE  Once(session'[d], u)
        <5>1. CASE u = t
          BY <3>3, <5>1
        <5>2. CASE u # t
          <6>1. turns[u] = turns'[u] /\ u \in DOMAIN turns /\ u \in Nat
            BY <1>3, <4>1, <5>2
          <6> QED  BY <2>3, <3>3, <4>1, <5>2, <6>1 DEF HoldsTurns
        <5> QED  BY <5>1, <5>2
      <4>2. ASSUME NEW i \in DOMAIN session'[d]
            PROVE  /\ session'[d][i] \in DOMAIN turns'
                   /\ turns'[session'[d][i]].at = "saved" /\ turns'[session'[d][i]].dir = d
        <5>1. CASE session'[d][i] = t
          BY <1>3, <2>8, <5>1
        <5>2. CASE i \in DOMAIN session[d] /\ session'[d][i] = session[d][i]
          <6>1. /\ session[d][i] \in DOMAIN turns /\ turns[session[d][i]].at = "saved"
                /\ turns[session[d][i]].dir = d
            BY <2>3, <5>2 DEF HoldsTurns
          <6> QED  BY <1>1, <1>3, <5>2, <6>1
        <5> QED  BY <3>3, <5>1, <5>2
      <4> QED  BY <4>1, <4>2 DEF HoldsTurns
    <3>5. ASSUME NEW e \in Dirs, e # d, session'[e] # TornSession
          PROVE  HoldsTurns(turns', session'[e], e)
      <4>1. session'[e] = session[e] /\ HoldsTurns(turns, session[e], e)
        BY <1>5, <2>1, <3>5 DEF InTurn
      <4>2. \A u \in DOMAIN turns : turns[u].at = "saved" => turns'[u] = turns[u]
        BY <1>1, <1>3
      <4>3. ASSUME NEW u \in DOMAIN turns', turns'[u].at = "saved", turns'[u].dir = e
            PROVE  Once(session[e], u)
        <5>1. u # t /\ u \in DOMAIN turns /\ turns[u] = turns'[u]
          BY <1>3, <3>5, <4>3
        <5> QED  BY <4>1, <4>3, <5>1 DEF HoldsTurns
      <4>4. ASSUME NEW i \in DOMAIN session[e]
            PROVE  /\ session[e][i] \in DOMAIN turns'
                   /\ turns'[session[e][i]].at = "saved" /\ turns'[session[e][i]].dir = e
        <5>1. /\ session[e][i] \in DOMAIN turns /\ turns[session[e][i]].at = "saved"
              /\ turns[session[e][i]].dir = e
          BY <4>1, <4>4 DEF HoldsTurns
        <5> QED  BY <1>3, <4>2, <5>1
      <4> QED  BY <4>1, <4>3, <4>4 DEF HoldsTurns
    <3> QED  BY <2>5, <2>6, <3>4, <3>5 DEF InTurn
  <2> QED  BY <1>1, <1>6, <2>7, <2>8
<1> QED  BY <1>1, <1>3, <1>5, <1>6 DEF ChatInv

(* The session of a video is cleared, if not half way.                     *)
LEMMA ClearingKeeps ==
    ASSUME SidebarInv, ChatInv, NEW v \in Videos, ClearSession(v)
    PROVE  ChatInv'
<1> DEFINE d == Lookup(v).dir
<1>1. PICK s \in {<<>>, TornSession} :
      /\ Found(v)
      /\ session' = [session EXCEPT ![d] = s]
      /\ turns' = [t \in DOMAIN turns |->
                     IF turns[t].dir = d /\ turns[t].at = "saved"
                     THEN [turns[t] EXCEPT !.at = "cleared"] ELSE turns[t]]
      /\ overlapped' = IF Saving(d) THEN overlapped \cup {"chat"} ELSE overlapped
  BY DEF ClearSession
<1>2. turns \in Seq(Turn) /\ session \in [Dirs -> Seq(Nat)] /\ \A t \in DOMAIN turns : turns[t] \in Turn
  BY DEF ChatInv
<1> HIDE DEF d
<1>3. \A t \in DOMAIN turns :
        /\ turns'[t] \in Turn /\ turns'[t].dir = turns[t].dir
        /\ turns'[t] = IF turns[t].dir = d /\ turns[t].at = "saved"
                       THEN [turns[t] EXCEPT !.at = "cleared"] ELSE turns[t]
  BY <1>1, <1>2 DEF Turn
<1>4. DOMAIN turns' = DOMAIN turns /\ turns' \in Seq(Turn)
  <2>1. DOMAIN turns' = 1 .. Len(turns) /\ Len(turns) \in Nat /\ DOMAIN turns = 1 .. Len(turns)
    BY <1>1, <1>2
  <2>2. turns' \in [1 .. Len(turns) -> Turn]
    BY <1>1, <1>3, <2>1
  <2> QED  BY <2>1, <2>2
<1>5. /\ session' \in [Dirs -> Seq(Nat)]
      /\ d \in Dirs => session'[d] \in {<<>>, TornSession}
      /\ \A e \in Dirs : e # d => session'[e] = session[e]
  <2>1. <<>> \in Seq(Nat) /\ TornSession \in Seq(Nat)
    BY DEF TornSession
  <2>2. s \in Seq(Nat)
    BY <2>1
  <2> QED  BY <1>1, <1>2, <2>2
<1>6. ASSUME "chat" \notin overlapped'
      PROVE  InTurn(turns', session')
  <2>1. InTurn(turns, session) /\ ~Saving(d)
    BY <1>1, <1>6 DEF ChatInv
  <2>2. \A t \in DOMAIN turns : turns[t].at = "saving" => turns[t].dir # d
    BY <2>1 DEF Saving
  <2>3. \A t \in DOMAIN turns :
          turns'[t].at \in {"saving", "saved"} => turns'[t] = turns[t] /\ turns[t].dir # d
    BY <1>2, <1>3, <2>2 DEF Turn
  <2>4. \A u, w \in DOMAIN turns' :
          turns'[u].at = "saving" /\ turns'[w].at = "saving" /\ turns'[u].dir = turns'[w].dir
            => u = w
    BY <1>4, <2>1, <2>3 DEF InTurn
  <2>5. ASSUME NEW u \in DOMAIN turns', turns'[u].at = "saving"
        PROVE  turns'[u].seen = session'[turns'[u].dir] /\ turns'[u].seen # TornSession
    <3>1. u \in DOMAIN turns /\ turns[u].dir \in Dirs
      BY <1>2, <1>4 DEF Turn
    <3>2. turns'[u] = turns[u] /\ turns[u].dir # d
      BY <2>3, <2>5, <3>1
    <3> QED  BY <1>5, <2>1, <2>5, <3>1, <3>2 DEF InTurn
  <2>6. ASSUME NEW e \in Dirs, session'[e] # TornSession
        PROVE  HoldsTurns(turns', session'[e], e)
    <3>1. CASE e = d
      <4>1. session'[e] = <<>> /\ \A u \in DOMAIN turns' : turns'[u].at = "saved" => turns'[u].dir # e
        BY <1>4, <1>5, <2>3, <2>6, <3>1
      <4>2. DOMAIN session'[e] = {}
        BY <4>1
      <4> QED  BY <4>1, <4>2 DEF HoldsTurns
    <3>2. CASE e # d
      <4>1. session'[e] = session[e] /\ HoldsTurns(turns, session[e], e)
        BY <1>5, <2>1, <2>6, <3>2 DEF InTurn
      <4>2. ASSUME NEW u \in DOMAIN turns', turns'[u].at = "saved", turns'[u].dir = e
            PROVE  Once(session[e], u)
        <5>1. u \in DOMAIN turns /\ turns[u] = turns'[u]
          BY <1>4, <2>3, <4>2
        <5> QED  BY <4>1, <4>2, <5>1 DEF HoldsTurns
      <4>3. ASSUME NEW i \in DOMAIN session[e]
            PROVE  /\ session[e][i] \in DOMAIN turns'
                   /\ turns'[session[e][i]].at = "saved" /\ turns'[session[e][i]].dir = e
        <5>1. /\ session[e][i] \in DOMAIN turns /\ turns[session[e][i]].at = "saved"
              /\ turns[session[e][i]].dir = e
          BY <4>1, <4>3 DEF HoldsTurns
        <5>2. turns'[session[e][i]] = turns[session[e][i]]
          BY <1>3, <3>2, <5>1
        <5> QED  BY <1>4, <5>1, <5>2
      <4> QED  BY <4>1, <4>2, <4>3 DEF HoldsTurns
    <3> QED  BY <3>1, <3>2
  <2> QED  BY <2>4, <2>5, <2>6 DEF InTurn
<1> QED  BY <1>4, <1>5, <1>6 DEF ChatInv

-----------------------------------------------------------------------------
(***************************************************************************)
(* The library.                                                            *)
(***************************************************************************)

ResultsGrow ==
  \A d \in Dirs : \A kind \in ResultKinds : results[d][kind] # None => results'[d][kind] # None

\* Job j gets on, the others stay where they are.
Moves(j, at, status, seen, handle) ==
  /\ DOMAIN jobs' = DOMAIN jobs
  /\ \A i \in DOMAIN jobs : i # j => jobs'[i] = jobs[i]
  /\ jobs'[j].src = jobs[j].src /\ jobs'[j].dir = jobs[j].dir
  /\ jobs'[j].at = at /\ jobs'[j].status = status
  /\ jobs'[j].seen = seen /\ jobs'[j].handle = handle

(* A job that is replaced by what has become of it moves.                  *)
LEMMA ChangedMoves ==
    ASSUME NEW j \in DOMAIN jobs, NEW at, NEW status, NEW reused, NEW seen, NEW handle,
           jobs' = [jobs EXCEPT ![j] = Changed(jobs[j], at, status, reused, seen, handle)]
    PROVE  Moves(j, at, status, seen, handle)
<1> DEFINE r == Changed(jobs[j], at, status, reused, seen, handle)
<1>1. /\ r.src = jobs[j].src /\ r.dir = jobs[j].dir
      /\ r.at = at /\ r.status = status /\ r.seen = seen /\ r.handle = handle
  BY DEF Changed
<1>2. jobs' = [jobs EXCEPT ![j] = r]
  OBVIOUS
<1> HIDE DEF r
<1>3. DOMAIN jobs' = DOMAIN jobs /\ jobs'[j] = r /\ \A i \in DOMAIN jobs : i # j => jobs'[i] = jobs[i]
  BY <1>2
<1> QED  BY <1>1, <1>3 DEF Moves

(* Enter moves a job.                                                       *)
LEMMA EnterMoves ==
    ASSUME WebInv, NEW j \in DOMAIN jobs, NEW at, NEW status, Enter(j, at, status)
    PROVE  Moves(j, at, status, jobs[j].seen, jobs[j].handle)
<1>1. jobs \in Seq(Job)
  BY DEF WebInv, WebTypes
<1>2. jobs' = [jobs EXCEPT ![j] =
                 Changed(jobs[j], at, status, jobs[j].reused, jobs[j].seen, jobs[j].handle)]
  BY <1>1, JobEnters
<1> QED  BY <1>2, ChangedMoves

(* What the others have stays good.                                        *)
LEMMA JobsStayGood ==
    ASSUME WebInv, LibraryInv, NEW j \in DOMAIN jobs,
           NEW at, NEW status, NEW seen, NEW handle, Moves(j, at, status, seen, handle),
           ResultsGrow, GoodJob(jobs'[j], results')
    PROVE  /\ \A i \in DOMAIN jobs' : GoodJob(jobs'[i], results')
           /\ Known # {} => results'[Earlier].json # None
<1>1. ASSUME NEW i \in DOMAIN jobs', i # j
      PROVE  GoodJob(jobs'[i], results')
  <2>1. jobs'[i] = jobs[i] /\ i \in DOMAIN jobs
    BY <1>1 DEF Moves
  <2>2. jobs[i].dir \in Dirs /\ GoodJob(jobs[i], results)
    BY <2>1, OwnDir DEF LibraryInv
  <2> QED  BY <2>1, <2>2 DEF GoodJob, ResultsGrow, ResultKinds
<1>2. Known # {} => results'[Earlier].json # None
  BY DEF LibraryInv, ResultsGrow, ResultKinds, Dirs
<1> QED  BY <1>1, <1>2

(* What is on record stays on record while recorded jobs stay as they are. *)
LEMMA FromJobStays ==
    ASSUME NEW js, NEW next, NEW items, NEW v, FromJob(js, items, v),
           \A i \in DOMAIN js : Recorded(js[i]) =>
             /\ i \in DOMAIN next /\ Recorded(next[i])
             /\ next[i].src = js[i].src /\ next[i].dir = js[i].dir
    PROVE  FromJob(next, items, v)
<1>1. PICK i \in DOMAIN js : Recorded(js[i]) /\ js[i].src = v /\ items[v].dir = js[i].dir
  BY DEF FromJob
<1>2. i \in DOMAIN next /\ Recorded(next[i]) /\ next[i].src = v /\ items[v].dir = next[i].dir
  BY <1>1
<1> QED  BY <1>2 DEF FromJob

(* A job that works on its results, or fails before it is done.            *)
LEMMA WorkingKeeps ==
    ASSUME WebInv, LibraryInv, NEW j \in DOMAIN jobs, NEW at, NEW status,
           Moves(j, at, status, jobs[j].seen, jobs[j].handle),
           jobs[j].at \notin Finished, at \notin Updating, at = "ended" => status = "failed",
           ResultsGrow, GoodJob(jobs'[j], results'), UNCHANGED <<index, tmp, overlapped>>
    PROVE  LibraryInv'
<1>1. /\ \A i \in DOMAIN jobs' : GoodJob(jobs'[i], results')
      /\ Known # {} => results'[Earlier].json # None
  BY JobsStayGood
<1>2. ASSUME "library" \notin overlapped
      PROVE  Serial(jobs', index, tmp)
  <2>1. Serial(jobs, index, tmp)
    BY <1>2 DEF LibraryInv
  <2>2. /\ DOMAIN jobs' = DOMAIN jobs /\ jobs'[j].at = at /\ jobs'[j].status = status
        /\ jobs'[j].handle = jobs[j].handle
        /\ \A i \in DOMAIN jobs : i # j => jobs'[i] = jobs[i]
    BY DEF Moves
  <2>3. at # "storing" /\ jobs[j].at # "storing" /\ at # "replacing"
    BY DEF Finished, Updating
  <2>4. \A i, k \in DOMAIN jobs' : jobs'[i].at \in Updating /\ jobs'[k].at \in Updating => i = k
    BY <2>1, <2>2 DEF Serial
  <2>5. ASSUME NEW i \in DOMAIN jobs'
        PROVE  /\ jobs'[i].handle = IF jobs'[i].at = "storing" THEN "tmp" ELSE "none"
               /\ jobs'[i].at = "replacing" => tmp = File("whole", jobs'[i].seen)
               /\ jobs'[i].at \in Updating => Carries(jobs'[i], index.items)
    BY <2>1, <2>2, <2>3 DEF Serial
  <2>6. \A v : FromJob(jobs, index.items, v) => FromJob(jobs', index.items, v)
    <3>1. \A i \in DOMAIN jobs : Recorded(jobs[i]) => i # j
      BY DEF Recorded, Finished
    <3> QED  BY <2>2, <3>1, FromJobStays
  <2>7. OnRecord(jobs', index.items)
    <3>1. OnRecord(jobs, index.items)
      BY <2>1 DEF Serial
    <3>2. ASSUME NEW i \in DOMAIN jobs', Recorded(jobs'[i])
          PROVE  FromJob(jobs', index.items, jobs'[i].src)
      <4>1. i # j
        BY <2>2, <3>2 DEF Recorded
      <4> QED  BY <2>2, <2>6, <3>1, <3>2, <4>1 DEF OnRecord
    <3> QED  BY <2>6, <3>1, <3>2 DEF OnRecord
  <2> QED  BY <2>1, <2>4, <2>5, <2>7 DEF Serial
<1> QED  BY <1>1, <1>2 DEF LibraryInv

(* Steps that change no results, or add some.                              *)
LEMMA RunningKeeps ==
    ASSUME WebInv, LibraryInv, NEW j \in DOMAIN jobs,
           Start(j) \/ StartExits(j) \/ MakeWav(j) \/ JobFails(j)
    PROVE  LibraryInv'
<1>1. jobs \in Seq(Job) /\ jobs[j] \in Job
  BY OwnDir DEF WebInv, WebTypes
<1>2. PICK at \in {"downloading", "extracting", "transcribing", "exited", "ended"},
           status \in Statuses :
        /\ at = "ended" => status = "failed"
        /\ Moves(j, at, status, jobs[j].seen, jobs[j].handle)
  <2>1. CASE Start(j)
    <3> DEFINE r    == Reusable(jobs[j].src)
               next == IF r.wav # None THEN "transcribing"
                       ELSE IF r.download # None THEN "extracting" ELSE "downloading"
    <3>1. jobs' = [jobs EXCEPT ![j].reused = r, ![j].at = next, ![j].status = next]
      BY <2>1 DEF Start
    <3>2. next \in {"downloading", "extracting", "transcribing"}
      OBVIOUS
    <3> HIDE DEF r, next
    <3>3. ASSUME NEW q, q = [jobs[j] EXCEPT !.reused = r, !.at = next, !.status = next]
          PROVE  q = Changed(jobs[j], next, next, r, jobs[j].seen, jobs[j].handle)
      BY <1>1, <3>3 DEF Job, Changed
    <3>4. jobs' = [jobs EXCEPT ![j] = Changed(jobs[j], next, next, r, jobs[j].seen, jobs[j].handle)]
      BY <3>1, <3>3
    <3>5. Moves(j, next, next, jobs[j].seen, jobs[j].handle)
      BY <3>4, ChangedMoves
    <3> QED  BY <3>2, <3>5 DEF Statuses
  <2>2. CASE StartExits(j) \/ MakeWav(j) \/ JobFails(j)
    <3>1. \/ Enter(j, "exited", "validating")
          \/ Enter(j, "transcribing", "transcribing")
          \/ Enter(j, "ended", "failed")
      BY <2>2 DEF StartExits, MakeWav, JobFails
    <3> QED  BY <3>1, EnterMoves DEF Statuses
  <2> QED  BY <2>1, <2>2
<1>3. jobs[j].at \notin Finished
  BY DEF Start, StartExits, MakeWav, JobFails, Finished, Updating
<1>4. UNCHANGED <<results, index, tmp, overlapped>>
  BY DEF Start, StartExits, MakeWav, JobFails, workVars, libraryVars
<1>5. at \notin Updating /\ ResultsGrow
  BY <1>4 DEF Updating, ResultsGrow
<1>6. GoodJob(jobs'[j], results')
  BY <1>2 DEF GoodJob, Done, Moves, Updating, Finished
<1> QED  BY <1>2, <1>3, <1>4, <1>5, <1>6, WorkingKeeps

(* transcript.srt is written.                                              *)
LEMMA SubtitlesKeep ==
    ASSUME WebInv, LibraryInv, NEW j \in DOMAIN jobs, Transcribe(j)
    PROVE  LibraryInv'
<1> DEFINE d == jobs[j].dir
           w == media[InputDir(j, "wav")].wav
<1>1. /\ jobs[j].at = "transcribing" /\ w # None
      /\ results' = [results EXCEPT ![d].srt = w]
      /\ Enter(j, "writing", "writing-results")
      /\ UNCHANGED <<index, tmp, overlapped>>
  BY DEF Transcribe, KeptIn, libraryVars
<1>2. d \in Dirs /\ results \in [Dirs -> [srt : VideoOrNone, json : VideoOrNone]]
  BY OwnDir DEF WebInv, WebTypes
<1> HIDE DEF w
<1>3. Moves(j, "writing", "writing-results", jobs[j].seen, jobs[j].handle)
  BY <1>1, EnterMoves
<1> HIDE DEF d
<1>4. ResultsGrow /\ results'[d].srt # None
  BY <1>1, <1>2 DEF ResultsGrow, ResultKinds
<1>5. GoodJob(jobs'[j], results')
  BY <1>3, <1>4 DEF GoodJob, Done, Moves, Updating, Finished, d
<1>6. "writing" \notin Updating /\ "writing" # "ended" /\ jobs[j].at \notin Finished
  BY <1>1 DEF Updating, Finished
<1> QED  BY <1>1, <1>3, <1>4, <1>5, <1>6, WorkingKeeps

(* transcript.json is written, and the job is done.                        *)
LEMMA DoneKeeps ==
    ASSUME WebInv, LibraryInv, NEW j \in DOMAIN jobs, Finish(j)
    PROVE  LibraryInv'
<1> DEFINE d == jobs[j].dir
<1>1. /\ jobs[j].at = "writing"
      /\ results' = [results EXCEPT ![d].json = results[d].srt]
      /\ Enter(j, "recording", "done")
      /\ UNCHANGED <<index, tmp, overlapped>>
  BY DEF Finish, libraryVars
<1>2. d \in Dirs /\ results \in [Dirs -> [srt : VideoOrNone, json : VideoOrNone]]
  BY OwnDir DEF WebInv, WebTypes
<1>3. Moves(j, "recording", "done", jobs[j].seen, jobs[j].handle)
  BY <1>1, EnterMoves
<1>4. results[d].srt # None
  BY <1>1 DEF LibraryInv, GoodJob
<1> HIDE DEF d
<1>5. ResultsGrow /\ results'[d].json # None
  BY <1>1, <1>2, <1>4 DEF ResultsGrow, ResultKinds
<1>6. GoodJob(jobs'[j], results')
  BY <1>3, <1>5 DEF GoodJob, Done, Moves, Updating, Finished, d
<1>7. "recording" \notin Updating /\ "recording" # "ended" /\ jobs[j].at \notin Finished
  BY <1>1 DEF Updating, Finished
<1> QED  BY <1>1, <1>3, <1>5, <1>6, <1>7, WorkingKeeps

(* A job that updates the library while no other does.                     *)
LEMMA UpdatingKeeps ==
    ASSUME WebInv, LibraryInv, NEW j \in DOMAIN jobs,
           NEW at \in Updating, NEW seen, NEW handle,
           Moves(j, at, jobs[j].status, seen, handle),
           jobs[j].at \in {"recording"} \cup Updating,
           UNCHANGED results, overlapped \subseteq overlapped',
           "library" \notin overlapped' =>
             /\ \A i \in DOMAIN jobs : jobs[i].at \in Updating => i = j
             /\ handle = IF at = "storing" THEN "tmp" ELSE "none"
             /\ at = "replacing" => tmp' = File("whole", seen)
             /\ UNCHANGED index
             /\ Carries(jobs'[j], index.items)
    PROVE  LibraryInv'
<1>1. /\ DOMAIN jobs' = DOMAIN jobs /\ jobs'[j].at = at /\ jobs'[j].status = jobs[j].status
      /\ jobs'[j].seen = seen /\ jobs'[j].handle = handle
      /\ jobs'[j].src = jobs[j].src /\ jobs'[j].dir = jobs[j].dir
      /\ \A i \in DOMAIN jobs : i # j => jobs'[i] = jobs[i]
  BY DEF Moves
<1>2. Done(jobs[j]) /\ Done(jobs'[j]) /\ jobs[j].at # "ended" /\ at # "ended"
  BY <1>1 DEF LibraryInv, GoodJob, Done, Finished, Updating
<1>3. GoodJob(jobs'[j], results') /\ ResultsGrow
  BY <1>1, <1>2 DEF LibraryInv, GoodJob, Done, Updating, ResultsGrow
<1>4. /\ \A i \in DOMAIN jobs' : GoodJob(jobs'[i], results')
      /\ Known # {} => results'[Earlier].json # None
  BY <1>3, JobsStayGood
<1>5. ASSUME "library" \notin overlapped'
      PROVE  Serial(jobs', index', tmp')
  <2>1. Serial(jobs, index, tmp)
    BY <1>5 DEF LibraryInv
  <2>2. \A i \in DOMAIN jobs' : jobs'[i].at \in Updating => i = j
    BY <1>1, <1>5
  <2>3. ASSUME NEW i \in DOMAIN jobs'
        PROVE  /\ jobs'[i].handle = IF jobs'[i].at = "storing" THEN "tmp" ELSE "none"
               /\ jobs'[i].at = "replacing" => tmp' = File("whole", jobs'[i].seen)
               /\ jobs'[i].at \in Updating => Carries(jobs'[i], index.items)
    <3>1. CASE i = j
      BY <1>1, <1>5, <3>1
    <3>2. CASE i # j
      <4>1. jobs'[i] = jobs[i] /\ jobs[i].at \notin Updating /\ jobs[i].at # "replacing"
        BY <1>1, <2>2, <2>3, <3>2 DEF Updating
      <4> QED  BY <1>1, <2>1, <2>3, <4>1 DEF Serial
    <3> QED  BY <3>1, <3>2
  <2>4. \A v : FromJob(jobs, index.items, v) => FromJob(jobs', index.items, v)
    <3>1. \A i \in DOMAIN jobs : Recorded(jobs[i]) => i # j
      BY <1>2 DEF Recorded
    <3>2. \A i \in DOMAIN jobs : Recorded(jobs[i]) =>
            /\ i \in DOMAIN jobs' /\ Recorded(jobs'[i])
            /\ jobs'[i].src = jobs[i].src /\ jobs'[i].dir = jobs[i].dir
      BY <1>1, <3>1
    <3> QED  BY <3>2, FromJobStays
  <2>5. OnRecord(jobs', index.items)
    <3>1. OnRecord(jobs, index.items)
      BY <2>1 DEF Serial
    <3>2. ASSUME NEW i \in DOMAIN jobs', Recorded(jobs'[i])
          PROVE  FromJob(jobs', index.items, jobs'[i].src)
      <4>1. i # j
        BY <1>1, <1>2, <3>2 DEF Recorded
      <4> QED  BY <1>1, <2>4, <3>1, <3>2, <4>1 DEF OnRecord
    <3> QED  BY <2>4, <3>1, <3>2 DEF OnRecord
  <2> QED  BY <1>5, <2>1, <2>2, <2>3, <2>5 DEF Serial
<1> QED  BY <1>4, <1>5 DEF LibraryInv

(* The library is read.                                                    *)
LEMMA ReadingIndexKeeps ==
    ASSUME WebInv, LibraryInv, NEW j \in DOMAIN jobs, ReadIndex(j)
    PROVE  LibraryInv'
<1> DEFINE v      == jobs[j].src
           item   == ItemOf(j)
           seen   == [index.items EXCEPT ![v] = item]
           handle == jobs[j].handle
<1>1. /\ jobs[j].at = "recording"
      /\ jobs' = [jobs EXCEPT ![j].at = "opening", ![j].seen = seen]
      /\ overlapped' = IF \E i \in DOMAIN jobs : i # j /\ Recording(i)
                       THEN overlapped \cup {"library"} ELSE overlapped
      /\ UNCHANGED <<results, index, tmp>>
  BY DEF ReadIndex, LibraryItems, workVars, libraryVars
<1>2. /\ jobs \in Seq(Job) /\ jobs[j] \in Job /\ v \in Videos
      /\ index.items \in [Videos -> Item]
  BY OwnDir DEF WebInv, WebTypes
<1>3. item.dir = jobs[j].dir
  BY DEF ItemOf
<1> HIDE DEF item
<1>4. seen[v] = item /\ \A w \in Videos : w # v => seen[w] = index.items[w]
  BY <1>2
<1> HIDE DEF seen
<1>5. Moves(j, "opening", jobs[j].status, seen, handle)
  <2>1. ASSUME NEW q, q = [jobs[j] EXCEPT !.at = "opening", !.seen = seen]
        PROVE  q = Changed(jobs[j], "opening", jobs[j].status, jobs[j].reused, seen, handle)
    BY <1>2, <2>1 DEF Job, Changed
  <2>2. jobs' = [jobs EXCEPT ![j] =
                   Changed(jobs[j], "opening", jobs[j].status, jobs[j].reused, seen, handle)]
    BY <1>1, <2>1
  <2> QED  BY <2>2, ChangedMoves
<1>6. ASSUME "library" \notin overlapped'
      PROVE  /\ \A i \in DOMAIN jobs : jobs[i].at \in Updating => i = j
             /\ handle = "none"
             /\ Carries(jobs'[j], index.items)
  <2>1. Serial(jobs, index, tmp) /\ \A i \in DOMAIN jobs : i # j => ~Recording(i)
    BY <1>1, <1>6 DEF LibraryInv
  <2>2. \A i \in DOMAIN jobs : jobs[i].at \in Updating => i = j
    BY <2>1 DEF Recording, Updating
  <2>3. handle = "none"
    BY <1>1, <2>1 DEF Serial
  <2>4. jobs'[j].seen = seen /\ jobs'[j].src = v /\ jobs'[j].dir = jobs[j].dir
    BY <1>5 DEF Moves
  <2> QED  BY <1>3, <1>4, <2>2, <2>3, <2>4 DEF Carries
<1> HIDE DEF handle
<1>7. "opening" \in Updating /\ overlapped \subseteq overlapped'
  BY <1>1 DEF Updating
<1> QED  BY <1>1, <1>5, <1>6, <1>7, UpdatingKeeps

(* The temporary file is opened, and written.                              *)
LEMMA WritingTemporaryKeeps ==
    ASSUME WebInv, LibraryInv, NEW j \in DOMAIN jobs, OpenTemporary(j) \/ StoreItems(j)
    PROVE  LibraryInv'
<1> DEFINE seen == jobs[j].seen
<1>1. jobs \in Seq(Job) /\ jobs[j] \in Job
  BY OwnDir DEF WebInv, WebTypes
<1>2. PICK at \in {"storing", "replacing"}, handle \in {"tmp", "none"} :
        /\ jobs[j].at \in {"opening", "storing"}
        /\ jobs' = [jobs EXCEPT ![j].at = at, ![j].handle = handle]
        /\ handle = IF at = "storing" THEN "tmp" ELSE "none"
        /\ UNCHANGED <<results, overlapped>>
        /\ "library" \notin overlapped =>
             UNCHANGED index /\ (at = "replacing" => tmp' = File("whole", seen))
  <2>1. CASE OpenTemporary(j)
    <3>1. /\ jobs[j].at = "opening"
          /\ jobs' = [jobs EXCEPT ![j].at = "storing", ![j].handle = "tmp"]
          /\ UNCHANGED <<results, overlapped, index>>
      BY <2>1 DEF OpenTemporary, workVars
    <3> QED  BY <3>1
  <2>2. CASE StoreItems(j)
    <3>1. /\ jobs[j].at = "storing"
          /\ jobs' = [jobs EXCEPT ![j].at = "replacing", ![j].handle = "none"]
          /\ UNCHANGED <<results, overlapped>>
      BY <2>2 DEF StoreItems, workVars
    <3>2. ASSUME "library" \notin overlapped
          PROVE  UNCHANGED index /\ tmp' = File("whole", seen)
      <4>1. jobs[j].handle = "tmp"
        BY <3>1, <3>2 DEF LibraryInv, Serial
      <4>2. PICK f \in {File("whole", seen)} : tmp' = f /\ UNCHANGED index
        BY <2>2, <3>2, <4>1 DEF StoreItems
      <4> QED  BY <4>2
    <3> QED  BY <3>1, <3>2
  <2> QED  BY <2>1, <2>2
<1> HIDE DEF seen
<1>3. Moves(j, at, jobs[j].status, seen, handle)
  <2>1. ASSUME NEW q, q = [jobs[j] EXCEPT !.at = at, !.handle = handle]
        PROVE  q = Changed(jobs[j], at, jobs[j].status, jobs[j].reused, seen, handle)
    BY <1>1, <2>1 DEF Job, Changed, seen
  <2>2. jobs' = [jobs EXCEPT ![j] =
                   Changed(jobs[j], at, jobs[j].status, jobs[j].reused, seen, handle)]
    BY <1>2, <2>1
  <2> QED  BY <2>2, ChangedMoves
<1>4. ASSUME "library" \notin overlapped'
      PROVE  /\ \A i \in DOMAIN jobs : jobs[i].at \in Updating => i = j
             /\ Carries(jobs'[j], index.items)
  <2>1. Serial(jobs, index, tmp) /\ jobs[j].at \in Updating
    BY <1>2, <1>4 DEF LibraryInv, Updating
  <2>2. jobs'[j].seen = seen /\ jobs'[j].src = jobs[j].src /\ jobs'[j].dir = jobs[j].dir
    BY <1>3 DEF Moves
  <2> QED  BY <2>1, <2>2 DEF Serial, Carries, seen
<1>5. at \in Updating /\ jobs[j].at \in {"recording"} \cup Updating /\ overlapped \subseteq overlapped'
  BY <1>2 DEF Updating
<1> QED  BY <1>2, <1>3, <1>4, <1>5, UpdatingKeeps

(* The rename puts on record what the job read, and the job itself.        *)
LEMMA RenamingKeeps ==
    ASSUME WebInv, LibraryInv, NEW j \in DOMAIN jobs, ReplaceIndex(j)
    PROVE  LibraryInv'
<1>1. /\ jobs[j].at = "replacing" /\ index' = tmp
      /\ jobs' = [i \in DOMAIN jobs |->
                    IF i = j THEN [jobs[i] EXCEPT !.at = "ended"]
                    ELSE IF jobs[i].handle = "tmp" THEN [jobs[i] EXCEPT !.handle = "index"]
                    ELSE jobs[i]]
      /\ UNCHANGED <<results, overlapped>>
  BY DEF ReplaceIndex, workVars
<1>2. DOMAIN jobs' = DOMAIN jobs /\ \A i \in DOMAIN jobs : jobs[i] \in Job
  BY <1>1 DEF WebInv, WebTypes
<1>3. /\ jobs'[j].at = "ended" /\ jobs'[j].status = jobs[j].status
      /\ jobs'[j].src = jobs[j].src /\ jobs'[j].dir = jobs[j].dir
      /\ jobs'[j].handle = jobs[j].handle
  <2>1. jobs'[j] = [jobs[j] EXCEPT !.at = "ended"]
    BY <1>1
  <2> QED  BY <1>2, <2>1 DEF Job
<1>4. ASSUME NEW i \in DOMAIN jobs, i # j
      PROVE  /\ jobs'[i].at = jobs[i].at /\ jobs'[i].status = jobs[i].status
             /\ jobs'[i].src = jobs[i].src /\ jobs'[i].dir = jobs[i].dir
             /\ jobs[i].handle # "tmp" => jobs'[i] = jobs[i]
  <2>1. jobs'[i] = IF jobs[i].handle = "tmp" THEN [jobs[i] EXCEPT !.handle = "index"] ELSE jobs[i]
    BY <1>1, <1>4
  <2> QED  BY <1>2, <2>1 DEF Job
<1>5. Done(jobs[j]) /\ Done(jobs'[j]) /\ Recorded(jobs'[j]) /\ jobs[j].status = "done"
  BY <1>1, <1>3 DEF LibraryInv, GoodJob, Done, Recorded, Finished, Updating
<1>6. \A i \in DOMAIN jobs' : GoodJob(jobs'[i], results')
  <2>1. \A i \in DOMAIN jobs : GoodJob(jobs[i], results)
    BY DEF LibraryInv
  <2>2. GoodJob(jobs'[j], results')
    BY <1>1, <1>3, <1>5, <2>1 DEF GoodJob, Updating
  <2>3. ASSUME NEW i \in DOMAIN jobs, i # j
        PROVE  GoodJob(jobs'[i], results')
    <3>1. /\ jobs'[i].at = jobs[i].at /\ jobs'[i].status = jobs[i].status
          /\ jobs'[i].dir = jobs[i].dir /\ GoodJob(jobs[i], results)
      BY <1>4, <2>1, <2>3
    <3> QED  BY <1>1, <3>1 DEF GoodJob, Done
  <2> QED  BY <1>2, <2>2, <2>3
<1>7. ASSUME "library" \notin overlapped'
      PROVE  Serial(jobs', index', tmp')
  <2>1. Serial(jobs, index, tmp) /\ jobs[j].at \in Updating
    BY <1>1, <1>7 DEF LibraryInv, Updating
  <2>2. ASSUME NEW i \in DOMAIN jobs, i # j
        PROVE  jobs[i].at \notin Updating /\ jobs[i].handle = "none" /\ jobs'[i] = jobs[i]
    <3>1. jobs[i].at \notin Updating
      BY <2>1, <2>2 DEF Serial
    <3>2. jobs[i].handle = "none"
      BY <2>1, <3>1 DEF Serial, Updating
    <3> QED  BY <1>4, <2>2, <3>1, <3>2
  <2>3. jobs'[j].at \notin Updating /\ jobs'[j].handle = "none"
    BY <1>1, <1>3, <2>1 DEF Serial, Updating
  <2>4. /\ index'.kind = "whole" /\ index'.items = jobs[j].seen
        /\ Carries(jobs[j], index.items)
    BY <1>1, <2>1 DEF Serial, File
  <2>5. \A i \in DOMAIN jobs : Recorded(jobs[i]) =>
          /\ i \in DOMAIN jobs' /\ Recorded(jobs'[i])
          /\ jobs'[i].src = jobs[i].src /\ jobs'[i].dir = jobs[i].dir
    BY <1>2, <1>3, <1>5, <2>2
  <2>6. FromJob(jobs', index'.items, jobs[j].src)
    BY <1>2, <1>3, <1>5, <2>4 DEF FromJob, Carries
  <2>7. ASSUME NEW v \in Videos, v # jobs[j].src
        PROVE  /\ index'.items[v] = index.items[v]
               /\ FromJob(jobs, index.items, v) => FromJob(jobs', index'.items, v)
    <3>1. index'.items[v] = index.items[v]
      BY <2>4, <2>7 DEF Carries
    <3>2. ASSUME FromJob(jobs, index.items, v)
          PROVE  FromJob(jobs', index'.items, v)
      <4>1. FromJob(jobs', index.items, v)
        BY <2>5, <3>2, FromJobStays
      <4> QED  BY <3>1, <4>1 DEF FromJob
    <3> QED  BY <3>1, <3>2
  <2>8. OnRecord(jobs', index'.items)
    <3>1. OnRecord(jobs, index.items)
      BY <2>1 DEF Serial
    <3>2. ASSUME NEW i \in DOMAIN jobs', Recorded(jobs'[i])
          PROVE  FromJob(jobs', index'.items, jobs'[i].src)
      <4>1. CASE jobs'[i].src = jobs[j].src
        BY <2>6, <4>1
      <4>2. CASE jobs'[i].src # jobs[j].src
        <5>1. i # j /\ i \in DOMAIN jobs /\ jobs'[i] = jobs[i]
          BY <1>2, <1>3, <2>2, <3>2, <4>2
        <5>2. jobs[i].src \in Videos
          BY <5>1, OwnDir
        <5> QED  BY <2>7, <3>1, <3>2, <4>2, <5>1, <5>2 DEF OnRecord
      <4> QED  BY <4>1, <4>2
    <3>3. ASSUME NEW v \in Videos
          PROVE  \/ index'.items[v].dir = None /\ v \notin Known
                 \/ index'.items[v].dir = Earlier /\ v \in Known
                 \/ FromJob(jobs', index'.items, v)
      BY <2>6, <2>7, <3>1 DEF OnRecord
    <3> QED  BY <3>2, <3>3 DEF OnRecord
  <2>9. \A i \in DOMAIN jobs' : jobs'[i].at \notin Updating /\ jobs'[i].handle = "none"
    BY <1>2, <2>2, <2>3
  <2> QED  BY <2>4, <2>8, <2>9 DEF Serial, Updating
<1> QED  BY <1>1, <1>6, <1>7 DEF LibraryInv

(* A done job fails: what it did not put on record is none of it.          *)
LEMMA FailingToRecordKeeps ==
    ASSUME WebInv, LibraryInv, NEW j \in DOMAIN jobs, RecordFails(j)
    PROVE  LibraryInv'
<1>1. /\ jobs[j].at \in {"recording"} \cup Updating
      /\ jobs' = [jobs EXCEPT ![j].at = "ended", ![j].status = "failed", ![j].handle = "none"]
      /\ tmp' \in IF jobs[j].handle = "tmp" THEN {tmp, TornFile} ELSE {tmp}
      /\ index' \in IF jobs[j].handle = "index" THEN {index, TornFile} ELSE {index}
      /\ UNCHANGED <<results, overlapped>>
  BY DEF RecordFails, Updating, workVars
<1>2. Moves(j, "ended", "failed", jobs[j].seen, "none")
  <2>1. jobs \in Seq(Job) /\ jobs[j] \in Job
    BY OwnDir DEF WebInv, WebTypes
  <2>2. ASSUME NEW q, q = [jobs[j] EXCEPT !.at = "ended", !.status = "failed", !.handle = "none"]
        PROVE  q = Changed(jobs[j], "ended", "failed", jobs[j].reused, jobs[j].seen, "none")
    BY <2>1, <2>2 DEF Job, Changed
  <2>3. jobs' = [jobs EXCEPT ![j] =
                   Changed(jobs[j], "ended", "failed", jobs[j].reused, jobs[j].seen, "none")]
    BY <1>1, <2>2
  <2> QED  BY <2>3, ChangedMoves
<1>3. /\ DOMAIN jobs' = DOMAIN jobs /\ jobs'[j].at = "ended" /\ jobs'[j].status = "failed"
      /\ jobs'[j].handle = "none" /\ \A i \in DOMAIN jobs : i # j => jobs'[i] = jobs[i]
  BY <1>2 DEF Moves
<1>4. ResultsGrow /\ GoodJob(jobs'[j], results')
  BY <1>1, <1>3 DEF ResultsGrow, GoodJob, Done, Updating
<1>5. /\ \A i \in DOMAIN jobs' : GoodJob(jobs'[i], results')
      /\ Known # {} => results'[Earlier].json # None
  BY <1>2, <1>4, JobsStayGood
<1>6. ASSUME "library" \notin overlapped
      PROVE  Serial(jobs', index', tmp')
  <2>1. Serial(jobs, index, tmp)
    BY <1>6 DEF LibraryInv
  <2>2. index' = index
    BY <1>1, <2>1 DEF Serial
  <2>3. tmp' = tmp \/ \A i \in DOMAIN jobs : i # j => jobs[i].at \notin Updating
    BY <1>1, <2>1 DEF Serial, Updating
  <2>4. \A i, k \in DOMAIN jobs' : jobs'[i].at \in Updating /\ jobs'[k].at \in Updating => i = k
    BY <1>3, <2>1 DEF Serial, Updating
  <2>5. ASSUME NEW i \in DOMAIN jobs'
        PROVE  /\ jobs'[i].handle = IF jobs'[i].at = "storing" THEN "tmp" ELSE "none"
               /\ jobs'[i].at = "replacing" => tmp' = File("whole", jobs'[i].seen)
               /\ jobs'[i].at \in Updating => Carries(jobs'[i], index.items)
    <3>1. CASE i = j
      BY <1>3, <3>1 DEF Updating
    <3>2. CASE i # j
      <4>1. jobs'[i] = jobs[i] /\ i \in DOMAIN jobs
        BY <1>3, <3>2
      <4>2. jobs[i].at = "replacing" => tmp' = tmp
        BY <2>3, <3>2, <4>1 DEF Updating
      <4> QED  BY <2>1, <4>1, <4>2 DEF Serial
    <3> QED  BY <3>1, <3>2
  <2>6. \A v : FromJob(jobs, index.items, v) => FromJob(jobs', index.items, v)
    <3>1. \A i \in DOMAIN jobs : Recorded(jobs[i]) => i # j
      BY <1>1 DEF Recorded, Updating
    <3> QED  BY <1>3, <3>1, FromJobStays
  <2>7. OnRecord(jobs', index.items)
    <3>1. OnRecord(jobs, index.items)
      BY <2>1 DEF Serial
    <3>2. ASSUME NEW i \in DOMAIN jobs', Recorded(jobs'[i])
          PROVE  FromJob(jobs', index.items, jobs'[i].src)
      <4>1. i # j
        BY <1>3, <3>2 DEF Recorded
      <4> QED  BY <1>3, <2>6, <3>1, <3>2, <4>1 DEF OnRecord
    <3> QED  BY <2>6, <3>1, <3>2 DEF OnRecord
  <2> QED  BY <2>1, <2>2, <2>4, <2>5, <2>7 DEF Serial
<1> QED  BY <1>1, <1>5, <1>6 DEF LibraryInv

(* One case for every step of a job.                                       *)
LEMMA JobKeepsLibrary ==
    ASSUME WebInv, LibraryInv, NEW j \in DOMAIN jobs, JobStep(j)
    PROVE  LibraryInv'
<1>1. CASE Start(j) \/ StartExits(j) \/ MakeWav(j) \/ JobFails(j)
  BY <1>1, RunningKeeps
<1>2. CASE Transcribe(j)
  BY <1>2, SubtitlesKeep
<1>3. CASE Finish(j)
  BY <1>3, DoneKeeps
<1>4. CASE ReadIndex(j)
  BY <1>4, ReadingIndexKeeps
<1>5. CASE OpenTemporary(j) \/ StoreItems(j)
  BY <1>5, WritingTemporaryKeeps
<1>6. CASE ReplaceIndex(j)
  BY <1>6, RenamingKeeps
<1>7. CASE RecordFails(j)
  BY <1>7, FailingToRecordKeeps
<1> QED  BY <1>1, <1>2, <1>3, <1>4, <1>5, <1>6, <1>7 DEF JobStep

(* A new job is not done, and has nothing open.                            *)
LEMMA CreatingKeepsLibrary ==
    ASSUME WebInv, LibraryInv, NEW v \in Videos, NEW keep \in BOOLEAN, CreateJob(v, keep)
    PROVE  LibraryInv'
<1> DEFINE r == [src |-> v, dir |-> NewDir(now'), keep |-> keep, status |-> "queued",
                 at |-> "queued", reused |-> NoMedia, seen |-> NoItems, handle |-> "none"]
           n == Len(jobs) + 1
<1>1. jobs' = Append(jobs, r) /\ UNCHANGED <<results, index, tmp, overlapped>>
  BY DEF CreateJob, workVars, libraryVars
<1>2. jobs \in Seq(Job)
  BY DEF WebInv, WebTypes
<1>3. /\ r.at = "queued" /\ r.status = "queued" /\ r.handle = "none"
      /\ GoodJob(r, results) /\ ~Done(r) /\ r.at \notin Updating
  BY DEF GoodJob, Done, Updating
<1> HIDE DEF r
<1>4. /\ \A i \in DOMAIN jobs : i \in DOMAIN jobs' /\ jobs'[i] = jobs[i]
      /\ \A i \in DOMAIN jobs' : i \in DOMAIN jobs \/ jobs'[i] = r
  BY <1>1, <1>2
<1>5. \A i \in DOMAIN jobs' : GoodJob(jobs'[i], results)
  BY <1>3, <1>4 DEF LibraryInv
<1>6. ASSUME Serial(jobs, index, tmp)
      PROVE  Serial(jobs', index, tmp)
  <2>1. \A i \in DOMAIN jobs' :
          \/ i \in DOMAIN jobs /\ jobs'[i] = jobs[i]
          \/ jobs'[i].at \notin Updating /\ jobs'[i].at = "queued" /\ jobs'[i].handle = "none"
    BY <1>3, <1>4
  <2>2. \A w : FromJob(jobs, index.items, w) => FromJob(jobs', index.items, w)
    BY <1>4, FromJobStays
  <2>3. OnRecord(jobs', index.items)
    BY <1>6, <2>1, <2>2 DEF Serial, OnRecord, Recorded
  <2>4. \A i, k \in DOMAIN jobs' : jobs'[i].at \in Updating /\ jobs'[k].at \in Updating => i = k
    BY <1>6, <2>1 DEF Serial
  <2>5. \A i \in DOMAIN jobs' :
          /\ jobs'[i].handle = IF jobs'[i].at = "storing" THEN "tmp" ELSE "none"
          /\ jobs'[i].at = "replacing" => tmp = File("whole", jobs'[i].seen)
          /\ jobs'[i].at \in Updating => Carries(jobs'[i], index.items)
    BY <1>6, <2>1 DEF Serial
  <2> QED  BY <1>6, <2>3, <2>4, <2>5 DEF Serial
<1> QED  BY <1>1, <1>5, <1>6 DEF LibraryInv

(* Neither jobs nor the library are touched.                               *)
LEMMA LibraryIdle ==
    ASSUME LibraryInv, UNCHANGED <<jobs, results, index, tmp>>,
           "library" \in overlapped => "library" \in overlapped'
    PROVE  LibraryInv'
BY DEF LibraryInv

-----------------------------------------------------------------------------
(***************************************************************************)
(* Every step.                                                             *)
(***************************************************************************)

SavedInv == SidebarInv /\ LibraryInv /\ ChatInv

(* A job submitted by the sidebar or by the other client.                  *)
LEMMA SubmittedKeeps ==
    ASSUME SavedInv, PostJob \/ OtherClientSubmits
    PROVE  LibraryInv' /\ ChatInv'
<1>1. PICK v \in Videos, keep \in BOOLEAN : CreateJob(v, keep)
  <2>1. CASE PostJob
    <3>1. CreateJob(page, TRUE) /\ analysis = "posting"
      BY <2>1 DEF PostJob
    <3>2. page \in Videos
      BY <3>1 DEF SavedInv, SidebarInv, PageTypes, VideoOrNone
    <3> QED  BY <3>1, <3>2
  <2>2. CASE OtherClientSubmits
    BY <2>2 DEF OtherClientSubmits
  <2> QED  BY <2>1, <2>2
<1>2. UNCHANGED <<turns, session, overlapped>>
  BY <1>1 DEF CreateJob, noteVars
<1> QED  BY <1>1, <1>2, CreatingKeepsLibrary, ChatIdle DEF SavedInv, SidebarInv

(* What the server does of itself.                                         *)
LEMMA ServerSaves ==
    ASSUME SavedInv, Server
    PROVE  LibraryInv' /\ ChatInv'
<1>1. CASE \E j \in DOMAIN jobs : JobStep(j)
  <2>1. PICK j \in DOMAIN jobs : JobStep(j)
    BY <1>1
  <2>2. UNCHANGED <<turns, session>> /\ ("chat" \in overlapped => "chat" \in overlapped')
    BY <2>1 DEF JobStep, Start, StartExits, MakeWav, Transcribe, Finish, JobFails, ReadIndex,
                OpenTemporary, StoreItems, ReplaceIndex, RecordFails, noteVars
  <2> QED  BY <2>1, <2>2, JobKeepsLibrary, ChatIdle DEF SavedInv, SidebarInv
<1>2. CASE \E t \in DOMAIN turns : TurnStep(t)
  <2>1. PICK t \in DOMAIN turns :
          ReadSession(t) \/ AnswerFails(t) \/ SaveTurn(t) \/ SaveTurnFails(t)
    BY <1>2 DEF TurnStep
  <2>2. /\ UNCHANGED <<jobs, results, index, tmp>>
        /\ "library" \in overlapped => "library" \in overlapped'
    BY <2>1 DEF ReadSession, AnswerFails, SaveTurn, SaveTurnFails, workVars, libraryVars
  <2> QED  BY <2>1, <2>2, LibraryIdle, ReadingSessionKeeps, FailedAnswerKeeps, SavingTurnKeeps
              DEF SavedInv
<1> QED  BY <1>1, <1>2 DEF Server, WebStep

(* Questions are asked and sessions cleared; notes are saved.              *)
LEMMA NotesSave ==
    ASSUME SavedInv, Ask \/ Clear \/ \E k \in Kinds : Order(k)
    PROVE  LibraryInv' /\ ChatInv'
<1>1. /\ UNCHANGED <<jobs, results, index, tmp>>
      /\ "library" \in overlapped => "library" \in overlapped'
  BY DEF Ask, Clear, Order, AskQuestion, ClearSession, SaveExtra, workVars, libraryVars
<1>2. LibraryInv'
  BY <1>1, LibraryIdle DEF SavedInv
<1>3. CASE Ask
  <2>1. page \in Videos /\ AskQuestion(page)
    BY <1>3 DEF Ask, SavedInv, SidebarInv, PageTypes, VideoOrNone
  <2> QED  BY <1>2, <2>1, AskedKeeps DEF SavedInv
<1>4. CASE Clear
  <2>1. page \in Videos /\ ClearSession(page)
    BY <1>4 DEF Clear, SavedInv, SidebarInv, PageTypes, VideoOrNone
  <2> QED  BY <1>2, <2>1, ClearingKeeps DEF SavedInv
<1>5. CASE \E k \in Kinds : Order(k)
  <2>1. UNCHANGED <<turns, session, overlapped>>
    BY <1>5 DEF Order, SaveExtra
  <2> QED  BY <1>2, <2>1, ChatIdle DEF SavedInv
<1> QED  BY <1>3, <1>4, <1>5

(* The server is not involved.                                             *)
LEMMA ServerIdle ==
    ASSUME SavedInv, UNCHANGED webVars
    PROVE  LibraryInv' /\ ChatInv'
BY LibraryIdle, ChatIdle DEF SavedInv, webVars, workVars, noteVars, libraryVars

(* The invariant holds.                                                    *)
LEMMA SavedInvariant == Spec => []SavedInv
<1>1. Init => LibraryInv /\ ChatInv
  <2> SUFFICES ASSUME Init
               PROVE  LibraryInv /\ ChatInv
    OBVIOUS
  <2>1. /\ jobs = <<>> /\ turns = <<>> /\ overlapped = {}
        /\ results = [d \in Dirs |-> [srt |-> LeftIn(d), json |-> LeftIn(d)]]
        /\ session = [d \in Dirs |-> <<>>]
        /\ index.kind # "torn"
        /\ index.items = [v \in Videos |-> IF v \in Known THEN EarlierItem ELSE NoItem]
    BY DEF Init, WebInit, NoFile, File, NoItems
  <2>2. Known # {} => results[Earlier].json # None
    <3>1. Known # {} => LeftIn(Earlier) \in Known
      BY DEF LeftIn
    <3>2. Earlier \in Dirs
      BY DEF Dirs
    <3> QED  BY <2>1, <3>1, <3>2, WebBoundsAssumption
  <2>3. Serial(jobs, index, tmp)
    <3>1. DOMAIN jobs = {}
      BY <2>1
    <3>2. \A v \in Videos : index.items[v].dir = IF v \in Known THEN Earlier ELSE None
      BY <2>1 DEF EarlierItem, NoItem
    <3> QED  BY <2>1, <3>1, <3>2 DEF Serial, OnRecord
  <2>4. ChatInv
    <3>1. turns \in Seq(Turn) /\ <<>> \in Seq(Nat) /\ DOMAIN turns = {}
      BY <2>1
    <3>2. session \in [Dirs -> Seq(Nat)] /\ \A d \in Dirs : DOMAIN session[d] = {}
      BY <2>1, <3>1
    <3> QED  BY <3>1, <3>2 DEF ChatInv, InTurn, HoldsTurns
  <2> QED  BY <2>1, <2>2, <2>3, <2>4 DEF LibraryInv
<1>2. SavedInv /\ [Next]_vars => LibraryInv' /\ ChatInv'
  <2> SUFFICES ASSUME SavedInv, [Next]_vars
               PROVE  LibraryInv' /\ ChatInv'
    OBVIOUS
  <2>1. CASE Server
    BY <2>1, ServerSaves
  <2>2. CASE PostJob \/ OtherClientSubmits
    BY <2>2, SubmittedKeeps
  <2>3. CASE Ask \/ Clear \/ \E k \in Kinds : Order(k)
    BY <2>3, NotesSave
  <2>4. CASE Script /\ ~PostJob
    <3>1. UNCHANGED webVars
      BY <2>4 DEF Script, FindCached, RestoreTranscript, PostFails, PollEnds, ShowTranscript
    <3> QED  BY <3>1, ServerIdle
  <2>5. CASE LoadCached \/ ClickAnalyze \/ \E v \in Videos : OpenPage(v) \/ Navigate(v)
    <3>1. UNCHANGED webVars
      BY <2>5 DEF LoadCached, ClickAnalyze, OpenPage, Navigate
    <3> QED  BY <3>1, ServerIdle
  <2>6. CASE \E j \in DOMAIN polls : PollPartial(j) \/ PollLost(j)
    <3>1. UNCHANGED webVars
      BY <2>6 DEF PollPartial, PollLost
    <3> QED  BY <3>1, ServerIdle
  <2>7. CASE UNCHANGED vars
    BY <2>7, ServerIdle DEF vars
  <2> QED  BY <2>1, <2>2, <2>3, <2>4, <2>5, <2>6, <2>7 DEF Next, User
<1> QED  BY <1>1, <1>2, SidebarInvariant, PTL DEF Spec, SavedInv

(* What a job put on record is found.                                      *)
LEMMA OnRecordIsFound ==
    ASSUME SavedInv, NEW v \in Videos, FromJob(jobs, index.items, v)
    PROVE  Found(v) /\ index.items[v].dir \in DirsOf(v)
<1>1. PICK i \in DOMAIN jobs :
        Recorded(jobs[i]) /\ jobs[i].src = v /\ index.items[v].dir = jobs[i].dir
  BY DEF FromJob
<1>2. jobs[i].dir # None /\ results[jobs[i].dir].json # None
  <2>1. jobs[i].dir \in Dirs
    BY <1>1, OwnDir DEF SavedInv, SidebarInv
  <2> QED  BY <1>1, <2>1, WebBoundsAssumption
              DEF SavedInv, LibraryInv, GoodJob, Done, Recorded, Finished
<1>3. Lookup(v).dir = jobs[i].dir
  BY <1>1, <1>2 DEF Lookup, LibraryItems
<1>4. i \in RecordedOf(v)
  BY <1>1 DEF RecordedOf, Recorded
<1> QED  BY <1>1, <1>2, <1>3, <1>4 DEF Found, DirsOf

(* A session made of the turns saved in it.                                *)
LEMMA HeldOnce ==
    ASSUME NEW s, NEW d, HoldsTurns(turns, s, d)
    PROVE  /\ \A i, k \in DOMAIN s : s[i] = s[k] => i = k
           /\ {s[i] : i \in DOMAIN s}
                = {t \in DOMAIN turns : turns[t].dir = d /\ turns[t].at = "saved"}
<1>1. \A i \in DOMAIN s : s[i] \in DOMAIN turns /\ turns[s[i]].at = "saved" /\ turns[s[i]].dir = d
  BY DEF HoldsTurns
<1>2. \A t \in DOMAIN turns : turns[t].at = "saved" /\ turns[t].dir = d => Once(s, t)
  BY DEF HoldsTurns
<1>3. ASSUME NEW i \in DOMAIN s, NEW k \in DOMAIN s, s[i] = s[k]
      PROVE  i = k
  <2>1. Once(s, s[i])
    BY <1>1, <1>2
  <2> QED  BY <1>3, <2>1 DEF Once
<1>4. \A t \in DOMAIN turns :
        turns[t].dir = d /\ turns[t].at = "saved" => \E i \in DOMAIN s : s[i] = t
  BY <1>2 DEF Once
<1> QED  BY <1>1, <1>3, <1>4

(* record_library_item and append_chat_message rewrite whole files: what   *)
(* was saved is still there, unless two threads did so at once or, for a   *)
(* session, the writing broke off.                                         *)
THEOREM SavedStays == Spec => []NothingSavedIsLost
<1>1. SavedInv => NothingSavedIsLost
  <2> SUFFICES ASSUME SavedInv
               PROVE  NothingSavedIsLost
    OBVIOUS
  <2>1. ASSUME "library" \notin overlapped, NEW v \in Videos
        PROVE  /\ index.kind # "torn"
               /\ DirsOf(v) # {} => Found(v)
               /\ LibraryItems[v].dir \in {None} \cup DirsOf(v)
    <3>1. Serial(jobs, index, tmp) /\ OnRecord(jobs, index.items)
      BY <2>1 DEF SavedInv, LibraryInv, Serial
    <3>2. CASE FromJob(jobs, index.items, v)
      BY <3>1, <3>2, OnRecordIsFound DEF Serial, LibraryItems
    <3>3. CASE index.items[v].dir = Earlier /\ v \in Known
      <4>1. results[Earlier].json # None /\ Earlier # None
        BY <3>3, WebBoundsAssumption DEF SavedInv, LibraryInv, Dirs
      <4>2. Found(v)
        BY <3>3, <4>1 DEF Found, Lookup, LibraryItems
      <4> QED  BY <3>1, <3>3, <4>2 DEF Serial, LibraryItems, DirsOf
    <3>4. CASE index.items[v].dir = None /\ v \notin Known /\ ~ FromJob(jobs, index.items, v)
      <4>1. RecordedOf(v) = {}
        BY <3>1, <3>4 DEF RecordedOf, OnRecord, Recorded
      <4> QED  BY <3>1, <3>4, <4>1 DEF Serial, LibraryItems, DirsOf
    <3> QED  BY <3>1, <3>2, <3>3, <3>4 DEF OnRecord
  <2>2. "library" \notin overlapped => index.kind # "torn"
    BY DEF SavedInv, LibraryInv, Serial
  <2>3. ASSUME "chat" \notin overlapped, NEW d \in Dirs, session[d] # TornSession
        PROVE  /\ \A i, k \in DOMAIN session[d] : session[d][i] = session[d][k] => i = k
               /\ {session[d][i] : i \in DOMAIN session[d]}
                    = {t \in DOMAIN turns : turns[t].dir = d /\ turns[t].at = "saved"}
    <3>1. HoldsTurns(turns, session[d], d)
      BY <2>3 DEF SavedInv, ChatInv, InTurn
    <3> QED  BY <3>1, HeldOnce
  <2> QED  BY <2>1, <2>2, <2>3 DEF NothingSavedIsLost
<1> QED  BY <1>1, SavedInvariant, PTL
=============================================================================
