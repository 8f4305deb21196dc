---------------------------- MODULE VideoSidebar ----------------------------
(***************************************************************************)
(* The sidebar of a video page (browser-extension/.../content.js) against  *)
(* the server of WebApp.  The script is one thread that gives way at every *)
(* await: what a function does between two awaits is a step, and clicks    *)
(* and the functions still waiting for an answer come in between.  The     *)
(* page may go on to another video without loading the script again.       *)
(*                                                                         *)
(* A second client (the server's own page) submits jobs as well.           *)
(***************************************************************************)
EXTENDS WebApp

CONSTANTS
  Kinds,     \* what can be ordered: within "summary", "mindmap", "frames"
  MaxClicks  \* bound: clicks of the user, in the sidebar and elsewhere

ASSUME ClicksAssumption == MaxClicks \in Nat

VARIABLES
  page,      \* the video the URL of the page names
  visited,   \* the videos it has named
  button,    \* whether the button for an analysis can be clicked
  analysis,  \* analyzeCurrentVideo: "idle", or "posting" its job
  polls,     \* pollJob for every job: "none", "polling", "loading", "over", "lost"
  cached,    \* cachedItem: the video it was found for
  restoring, \* lookupCachedResult and autoRestoreCachedResult: where it is,
             \* and for which video
  shown,     \* the video whose transcript is displayed
  clicks     \* clicks so far

scriptVars == <<button, analysis, polls, cached, restoring, shown>>

sidebarVars == <<page, visited, scriptVars, clicks>>

vars == <<webVars, sidebarVars>>

\* No page is open.
Init ==
  /\ WebInit
  /\ page = None
  /\ visited = {}
  /\ button = FALSE
  /\ analysis = "idle"
  /\ polls = [j \in 1 .. MaxJobs |-> "none"]
  /\ cached = None
  /\ restoring = [at |-> "over", src |-> None]
  /\ shown = None
  /\ clicks = 0

Click == clicks < MaxClicks /\ clicks' = clicks + 1

\* A video page is opened or loaded again: the script starts afresh, with a
\* lookup, and knows nothing of jobs submitted before.
OpenPage(v) ==
  /\ Click
  /\ page' = v
  /\ visited' = {v}
  /\ button' = TRUE
  /\ analysis' = "idle"
  /\ polls' = [j \in 1 .. MaxJobs |-> "none"]
  /\ cached' = None
  /\ restoring' = [at |-> "lookup", src |-> None]
  /\ shown' = None
  /\ UNCHANGED webVars

\* The transcript the library serves under the key of a video.
ServedTranscript(v) ==
  LET d == LibraryItems[v].dir IN IF d = None THEN None ELSE results[d].json

-----------------------------------------------------------------------------
(* What was saved is brought back when the script starts.                  *)

\* Without service or item the script waits for a click.
FindCached ==
  /\ restoring.at = "lookup"
  /\ \/ /\ Found(page)
        /\ cached' = page
        /\ restoring' = [at |-> "transcript", src |-> page]
     \/ restoring' = [at |-> "over", src |-> None] /\ UNCHANGED cached
  /\ UNCHANGED <<webVars, page, visited, button, analysis, polls, shown, clicks>>

\* The transcript of the item; a failure is reported and passed over.  The
\* summary, mind map, frames and session that follow, a request each for
\* whatever video the page is at by then, change only their own panels.
RestoreTranscript ==
  /\ restoring.at = "transcript"
  /\ restoring' = [at |-> "over", src |-> None]
  /\ shown' \in {shown, ServedTranscript(restoring.src)} \ ({None} \ {shown})
  /\ UNCHANGED <<webVars, page, visited, button, analysis, polls, cached, clicks>>

\* loadCachedResult, from its button.
LoadCached ==
  /\ cached # None
  /\ Click
  /\ shown' \in {shown, ServedTranscript(cached)} \ ({None} \ {shown})
  /\ UNCHANGED <<webVars, page, visited, button, analysis, polls, cached, restoring>>

-----------------------------------------------------------------------------
(* An analysis.                                                            *)

\* Faulty variant: the button stays as it is.
ClickAnalyzeAgain ==
  /\ button /\ analysis = "idle"
  /\ Click
  /\ shown' = None
  /\ analysis' = "posting"
  /\ UNCHANGED <<webVars, page, visited, button, polls, cached, restoring>>

\* The list is emptied; without a video element nothing else happens.
ClickAnalyze ==
  /\ button
  /\ Click
  /\ shown' = None
  /\ \/ button' = FALSE /\ analysis' = "posting"
     \/ UNCHANGED <<button, analysis>>
  /\ UNCHANGED <<webVars, page, visited, polls, cached, restoring>>

\* The job is posted for the video the page is at and polled from then on,
\* unless the answer gets lost.
PostJob ==
  /\ analysis = "posting"
  /\ CreateJob(page, TRUE)
  /\ analysis' = "idle"
  /\ \/ /\ polls' = [polls EXCEPT ![Len(jobs) + 1] = "polling"]
        /\ cached' = None
        /\ UNCHANGED button
     \/ button' = TRUE /\ UNCHANGED <<polls, cached>>
  /\ UNCHANGED <<page, visited, restoring, shown, clicks>>

\* There is no service, or it refuses the job.
PostFails ==
  /\ analysis = "posting"
  /\ analysis' = "idle"
  /\ button' = TRUE
  /\ UNCHANGED <<webVars, page, visited, polls, cached, restoring, shown, clicks>>

\* A poll that finds subtitles shows them; the next one follows.
PollPartial(j) ==
  /\ polls[j] = "polling"
  /\ jobs[j].status \notin {"done", "failed"}
  /\ results[jobs[j].dir].srt # None
  /\ shown' = results[jobs[j].dir].srt
  /\ UNCHANGED <<webVars, page, visited, button, analysis, polls, cached, restoring, clicks>>

\* A reply with subtitles, if they parse and there are any, shows them.
ShownAfterPoll(j) == {shown, results[jobs[j].dir].srt} \ ({None} \ {shown})

\* Faulty variant: a failed job is shown, the button stays disabled.
PollEndsOnlyDone(j) ==
  /\ polls[j] = "polling"
  /\ jobs[j].status \in {"done", "failed"}
  /\ polls' = [polls EXCEPT ![j] = IF jobs[j].status = "done" THEN "loading" ELSE "over"]
  /\ button' = (jobs[j].status = "done")
  /\ shown' \in ShownAfterPoll(j)
  /\ UNCHANGED <<webVars, page, visited, analysis, cached, restoring, clicks>>

\* The job is over, though a done one may still fail to be recorded.  Its
\* subtitles are shown, and the transcript of a done one once it is here.
PollEnds(j) ==
  /\ polls[j] = "polling"
  /\ jobs[j].status \in {"done", "failed"}
  /\ polls' = [polls EXCEPT ![j] = IF jobs[j].status = "done" THEN "loading" ELSE "over"]
  /\ button' = TRUE
  /\ shown' \in ShownAfterPoll(j)
  /\ UNCHANGED <<webVars, page, visited, analysis, cached, restoring, clicks>>

\* The request fails: nobody catches it, and nothing polls again.
PollLost(j) ==
  /\ polls[j] = "polling"
  /\ polls' = [polls EXCEPT ![j] = "lost"]
  /\ UNCHANGED <<webVars, page, visited, button, analysis, cached, restoring, shown, clicks>>

\* loadTranscript, by the job and not through the library; a refusal shows
\* no segments.
ShowTranscript(j) ==
  /\ polls[j] = "loading"
  /\ polls' = [polls EXCEPT ![j] = "over"]
  /\ shown' \in {None, results[jobs[j].dir].json}
  /\ UNCHANGED <<webVars, page, visited, button, analysis, cached, restoring, clicks>>

-----------------------------------------------------------------------------
(* Notes and questions.                                                    *)

\* summarizeCurrentVideo, generateMindmap, generateFrames: what the server
\* makes is saved beside the transcript, or the request is refused.  The
\* request is one step: its outcome meets nothing else that is modelled.
Order(k) ==
  /\ page # None
  /\ Click
  /\ Found(page)
  /\ SaveExtra(Lookup(page).dir, k)
  /\ UNCHANGED <<page, visited, scriptVars>>

\* sendChatQuestion: the keys send it also while its button is disabled.
Ask ==
  /\ page # None
  /\ Click
  /\ AskQuestion(page)
  /\ UNCHANGED <<page, visited, scriptVars>>

\* clearChatSession
Clear ==
  /\ cached # None
  /\ Click
  /\ ClearSession(page)
  /\ UNCHANGED <<page, visited, scriptVars>>

-----------------------------------------------------------------------------
\* The page goes on to another video; the script stays.
Navigate(v) ==
  /\ page \notin {None, v}
  /\ Click
  /\ page' = v
  /\ visited' = visited \cup {v}
  /\ UNCHANGED <<webVars, scriptVars>>

\* The server's own page submits a job, with media that are not to be kept.
OtherClientSubmits ==
  /\ Click
  /\ \E v \in Videos : CreateJob(v, FALSE)
  /\ UNCHANGED <<page, visited, scriptVars>>

Jobs == (\E j \in DOMAIN jobs : JobStep(j)) /\ UNCHANGED sidebarVars

Server == WebStep /\ UNCHANGED sidebarVars

Script ==
  \/ FindCached \/ RestoreTranscript
  \/ PostJob \/ PostFails
  \/ \E j \in DOMAIN polls : PollEnds(j) \/ ShowTranscript(j)

User ==
  \/ LoadCached \/ ClickAnalyze \/ Ask \/ Clear
  \/ \E k \in Kinds : Order(k)
  \/ \E v \in Videos : OpenPage(v) \/ Navigate(v)

Next ==
  \/ Server \/ Script \/ User \/ OtherClientSubmits
  \/ \E j \in DOMAIN polls : PollPartial(j) \/ PollLost(j)

\* The threads of the jobs go on and their commands end (every job is
\* finitely many steps, so none of them can starve another); requests that are not
\* lost are answered and awaited functions go on.  Nobody has to click.
Spec ==
  /\ Init /\ [][Next]_vars
  /\ WF_vars(Jobs)
  /\ WF_vars(Script)

-----------------------------------------------------------------------------
(* Properties.                                                             *)

DirShared(d) ==
  \E i, j \in DOMAIN jobs : i # j /\ jobs[i].dir = d /\ jobs[j].dir = d

\* Jobs of the video that were done and got recorded.
RecordedOf(v) ==
  {j \in DOMAIN jobs : jobs[j].src = v /\ jobs[j].at = "ended" /\ jobs[j].status = "done"}

\* The directories the library may lead to.
DirsOf(v) ==
  {jobs[j].dir : j \in RecordedOf(v)} \cup (IF v \in Known THEN {Earlier} ELSE {})

(* What was saved stays saved, although any write may fail or break off    *)
(* half way.  Unless two jobs were ever recorded at the same time,         *)
(* index.json parses whenever it is read, a job that ends as done is       *)
(* found, a video known before is found, and the library leads only to     *)
(* directories of jobs of the video that ended as done (or were known      *)
(* before), never to those of a job that failed, be it after it was said   *)
(* to be done.  Unless two answers were ever saved at the same time, a     *)
(* turn that was saved and not cleared is lost only with its session: in a *)
(* session that parses, every such turn is there once, and nothing else.   *)
NothingSavedIsLost ==
  /\ "library" \notin overlapped =>
       /\ index.kind # "torn"
       /\ \A v \in Videos :
            /\ DirsOf(v) # {} => Found(v)
            /\ LibraryItems[v].dir \in {None} \cup DirsOf(v)
  /\ "chat" \notin overlapped =>
       \A d \in Dirs :
         session[d] # TornSession =>
           /\ \A i, k \in DOMAIN session[d] : session[d][i] = session[d][k] => i = k
           /\ {session[d][i] : i \in DOMAIN session[d]}
                = {t \in DOMAIN turns : turns[t].dir = d /\ turns[t].at = "saved"}

(* The library never leads to the results of another video, and the        *)
(* sidebar never shows a transcript of a video the page was not at -       *)
(* however restoring, polling, loading and a second client interleave -    *)
(* while no two jobs share a directory (_new_job_dir looks for a name      *)
(* that is not taken, and the job takes it later).                         *)
RightResults ==
  (\A d \in Dirs : ~DirShared(d)) =>
    /\ \A v \in Videos : Found(v) => results[Lookup(v).dir].json = v
    /\ shown \in visited \cup {None}

(* Every job may remove its own media, yet what the library records of a   *)
(* video exists, and so does what a later job has taken over from there    *)
(* but not used yet.  Directories must not be shared here either.          *)
RecordedMediaStay ==
  (\A d \in Dirs : ~DirShared(d)) =>
    \A kind \in {"wav", "download"} :
      /\ \A v \in Videos :
           LET d == LibraryItems[v][kind] IN d # None => KeptIn(d, kind)
      /\ \A j \in DOMAIN jobs :
           LET d == jobs[j].reused[kind] IN d # None => KeptIn(d, kind)

(* The sidebar follows one job at a time: while a job is posted or polled  *)
(* the button cannot start another one.                                    *)
OneAnalysisAtATime ==
  Cardinality({j \in DOMAIN polls : polls[j] = "polling"})
    + (IF analysis = "idle" THEN 0 ELSE 1) + (IF button THEN 1 ELSE 0) <= 1

(* An analysis comes to an end the user sees: the button can be clicked    *)
(* again, unless a poll is lost or the job is stopped by SystemExit.       *)
AnalysisComesBack ==
  page # None /\ ~button ~>
             \/ button
             \/ \E j \in DOMAIN polls : polls[j] = "lost"
             \/ \E j \in DOMAIN jobs : jobs[j].at = "exited"

=============================================================================
