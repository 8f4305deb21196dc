------------------------------- MODULE WebApp -------------------------------
(***************************************************************************)
(* The local web application (tools/funasr_web_app.py).  Handlers run in   *)
(* threads of the server and every job in a background thread of its own;  *)
(* what they share are files: the directory of a job, the media of earlier *)
(* jobs, the library index and the chat sessions.  A step is what one      *)
(* thread does between two points where another may get in.                *)
(*                                                                         *)
(* Who calls the handlers is left to VideoSidebar.                         *)
(***************************************************************************)
EXTENDS Integers, Sequences, FiniteSets, Functions

CONSTANTS
  Videos,     \* URLs with different library keys
  None,       \* no video, no directory
  Known,      \* videos an earlier life of the server left results of
  Earlier,    \* the directory they are in
  MaxJobs,    \* bound: jobs of one life of the server
  MaxSecond,  \* bound: seconds that pass between two submissions
  MaxTurns    \* bound: questions asked

\* The directories of jobs: the second they were submitted in, and a suffix.
JobDirs == (0 .. MaxSecond) \X (0 .. MaxJobs)

Dirs == {Earlier} \cup JobDirs

ASSUME WebBoundsAssumption ==
  /\ None \notin Videos \cup Dirs
  /\ Earlier \notin JobDirs
  /\ Known \subseteq Videos /\ \A v, w \in Known : v = w
  /\ {MaxJobs, MaxSecond, MaxTurns} \subseteq Nat

VARIABLES
  now,        \* the second in which the last job was submitted
  jobs,       \* JobStore._jobs, in the order of their submission
  made,       \* directories of jobs that exist
  media,      \* directory -> the videos its wav and its download are of
  results,    \* directory -> the videos transcript.srt and .json are about
  extras,     \* directory -> "summary", "mindmap" and "frames" saved there
  session,    \* directory -> turns in chat_sessions/default.json, or TornSession
  index,      \* index.json
  tmp,        \* index.json.tmp
  turns,      \* questions, each with the thread that answers it
  overlapped  \* what two threads ever updated at once: "library", "chat"

libraryVars == <<index, tmp>>
workVars == <<made, media, results>>
noteVars == <<extras, session, turns>>

webVars == <<now, jobs, workVars, noteVars, libraryVars, overlapped>>

\* Where the library finds what was made of a video.
NoMedia == [wav |-> None, download |-> None]

NoItem == [dir |-> None, wav |-> None, download |-> None]

NoItems == [v \in Videos |-> NoItem]

\* A file of the library: absent, torn (it does not parse), or whole.
File(kind, items) == [kind |-> kind, items |-> items]

NoFile == File("absent", NoItems)

TornFile == File("torn", NoItems)

\* A session of which only a part was written: it does not parse.
TornSession == <<0>>

EarlierItem == [dir |-> Earlier, wav |-> Earlier, download |-> Earlier]

LeftIn(d) == IF d = Earlier /\ Known # {} THEN CHOOSE v \in Known : TRUE ELSE None

\* The server starts: jobs are only in memory, files are still there.
WebInit ==
  /\ now = 0
  /\ jobs = <<>>
  /\ made = {Earlier}
  /\ media = [d \in Dirs |-> [wav |-> LeftIn(d), download |-> LeftIn(d)]]
  /\ results = [d \in Dirs |-> [srt |-> LeftIn(d), json |-> LeftIn(d)]]
  /\ extras = [d \in Dirs |-> {}]
  /\ session = [d \in Dirs |-> <<>>]
  /\ index = IF Known = {} THEN NoFile
             ELSE File("whole", [v \in Videos |-> IF v \in Known THEN EarlierItem ELSE NoItem])
  /\ tmp = NoFile
  /\ turns = <<>>
  /\ overlapped = {}

-----------------------------------------------------------------------------
(* The library.                                                            *)

\* _read_library: a file that does not parse counts as an empty library.
LibraryItems == index.items

\* lookup_library_item: an entry counts while its transcript.json exists.
Lookup(v) ==
  LET item == LibraryItems[v]
  IN  IF item.dir # None /\ results[item.dir].json # None THEN item ELSE NoItem

Found(v) == Lookup(v).dir # None

KeptIn(d, kind) == d # None /\ media[d][kind] # None

\* Faulty variant: the page number of the URL is not part of the key.
ReusableOfSeries(v) ==
  LET item == CHOOSE i \in {Lookup(w) : w \in Videos} :
                \A w \in Videos : i.dir # None \/ ~Found(w)
  IN  [wav      |-> IF KeptIn(item.wav, "wav") THEN item.wav ELSE None,
       download |-> IF KeptIn(item.download, "download") THEN item.download ELSE None]

\* reusable_media_for_source: recorded media that still exist.
Reusable(v) ==
  LET item == Lookup(v)
  IN  [wav      |-> IF KeptIn(item.wav, "wav") THEN item.wav ELSE None,
       download |-> IF KeptIn(item.download, "download") THEN item.download ELSE None]

-----------------------------------------------------------------------------
(* A job is submitted.                                                     *)

\* _new_job_dir: the second and, if that directory exists, a suffix.  The
\* directory is made later, by the job itself.
NewDir(second) ==
  <<second, CHOOSE k \in 0 .. MaxJobs :
              /\ <<second, k>> \notin made
              /\ \A i \in 0 .. k - 1 : <<second, i>> \in made>>

\* create_job, for a URL, in the second of the last job or in a later one.
\* The first job is submitted in second 0.
CreateJob(v, keep) ==
  /\ Len(jobs) < MaxJobs
  /\ now' \in now .. MaxSecond
  /\ jobs = <<>> => now' = now
  /\ jobs' = Append(jobs,
       [src |-> v, dir |-> NewDir(now'), keep |-> keep, status |-> "queued", at |-> "queued",
        reused |-> NoMedia, seen |-> NoItems, handle |-> "none"])
  /\ UNCHANGED <<workVars, noteVars, libraryVars, overlapped>>

-----------------------------------------------------------------------------
(* run_job.  at is where the thread is, status what a poll is told.        *)

Enter(j, at, status) ==
  jobs' = [jobs EXCEPT ![j].at = at, ![j].status = status]

\* The directory is made.  What the library still has of the video is taken
\* instead of a download: a wav that needs no work, or a file to extract it
\* from.
Start(j) ==
  LET r == Reusable(jobs[j].src)
      next == IF r.wav # None THEN "transcribing"
              ELSE IF r.download # None THEN "extracting" ELSE "downloading"
  IN  /\ jobs[j].at = "queued"
      /\ made' = made \cup {jobs[j].dir}
      /\ jobs' = [jobs EXCEPT ![j].reused = r, ![j].at = next, ![j].status = next]
      /\ UNCHANGED <<now, media, results, noteVars, libraryVars, overlapped>>

\* validate_config leaves by SystemExit, which run_job does not catch: the
\* thread ends and the job keeps the status "validating".
StartExits(j) ==
  /\ jobs[j].at = "queued"
  /\ Enter(j, "exited", "validating")
  /\ UNCHANGED <<now, workVars, noteVars, libraryVars, overlapped>>

\* The file a job works on next: a reused one, or its own.
InputDir(j, kind) ==
  IF jobs[j].reused[kind] # None THEN jobs[j].reused[kind] ELSE jobs[j].dir

\* yt-dlp, unless there is a file to extract from, then ffmpeg.
MakeWav(j) ==
  LET d     == jobs[j].dir
      fresh == jobs[j].at = "downloading"
      input == IF fresh THEN jobs[j].src ELSE media[InputDir(j, "download")].download
  IN  /\ jobs[j].at \in {"downloading", "extracting"}
      /\ input # None
      /\ media' = [media EXCEPT ![d].download = IF fresh THEN jobs[j].src ELSE @,
                                ![d].wav = input]
      /\ Enter(j, "transcribing", "transcribing")
      /\ UNCHANGED <<now, made, results, noteVars, libraryVars, overlapped>>

\* funasr-cli writes transcript.srt.
Transcribe(j) ==
  /\ jobs[j].at = "transcribing"
  /\ KeptIn(InputDir(j, "wav"), "wav")
  /\ results' = [results EXCEPT ![jobs[j].dir].srt = media[InputDir(j, "wav")].wav]
  /\ Enter(j, "writing", "writing-results")
  /\ UNCHANGED <<now, made, media, noteVars, libraryVars, overlapped>>

\* Faulty variant: what goes is the directory of the wav that was used.
FinishCleaningInput(j) ==
  /\ jobs[j].at = "writing"
  /\ results' = [results EXCEPT ![jobs[j].dir].json = results[jobs[j].dir].srt]
  /\ media' = IF jobs[j].keep THEN media ELSE [media EXCEPT ![InputDir(j, "wav")] = NoMedia]
  /\ Enter(j, "recording", "done")
  /\ UNCHANGED <<now, made, noteVars, libraryVars, overlapped>>

\* write_side_outputs makes the other files from transcript.srt; then the
\* media go if they are not to be kept, and the job is done.
Finish(j) ==
  /\ jobs[j].at = "writing"
  /\ results' = [results EXCEPT ![jobs[j].dir].json = results[jobs[j].dir].srt]
  /\ media' = IF jobs[j].keep THEN media ELSE [media EXCEPT ![jobs[j].dir] = NoMedia]
  /\ Enter(j, "recording", "done")
  /\ UNCHANGED <<now, made, noteVars, libraryVars, overlapped>>

\* A command fails or a file cannot be read or written: the one handler of
\* run_job ends the job as failed.  It is the handler of RecordFails as well.
JobFails(j) ==
  /\ jobs[j].at \in {"queued", "downloading", "extracting", "transcribing", "writing"}
  /\ Enter(j, "ended", "failed")
  /\ UNCHANGED <<now, workVars, noteVars, libraryVars, overlapped>>

-----------------------------------------------------------------------------
(* record_library_item, after the job was said to be done.                 *)

Recording(j) == jobs[j].at \in {"opening", "storing", "replacing"}

\* _result_file_map, and media that were reused.
ItemOf(j) ==
  LET d == jobs[j].dir
      Place(kind) == IF jobs[j].reused[kind] # None THEN jobs[j].reused[kind]
                     ELSE IF media[d][kind] # None THEN d ELSE None
  IN  [dir |-> d, wav |-> Place("wav"), download |-> Place("download")]

\* Faulty variant: the library is rebuilt from this job alone.
ReadNothing(j) ==
  /\ jobs[j].at = "recording"
  /\ jobs' = [jobs EXCEPT ![j].at = "opening",
                          ![j].seen = [NoItems EXCEPT ![jobs[j].src] = ItemOf(j)]]
  /\ UNCHANGED <<now, workVars, noteVars, libraryVars, overlapped>>

\* The library is read and the item put into what was read.
ReadIndex(j) ==
  /\ jobs[j].at = "recording"
  /\ jobs' = [jobs EXCEPT ![j].at = "opening",
                          ![j].seen = [LibraryItems EXCEPT ![jobs[j].src] = ItemOf(j)]]
  /\ overlapped' = IF \E i \in DOMAIN jobs : i # j /\ Recording(i)
                   THEN overlapped \cup {"library"} ELSE overlapped
  /\ UNCHANGED <<now, workVars, noteVars, libraryVars>>

\* _write_library: every thread opens the same temporary file.
OpenTemporary(j) ==
  /\ jobs[j].at = "opening"
  /\ jobs' = [jobs EXCEPT ![j].at = "storing", ![j].handle = "tmp"]
  /\ tmp' = TornFile
  /\ UNCHANGED <<now, workVars, noteVars, index, overlapped>>

\* What j writes ends up in the file it opened, which may be the index by
\* now.  Over what another thread wrote there it may leave a longer tail.
StoreItems(j) ==
  /\ jobs[j].at = "storing"
  /\ \E f \in {File("whole", jobs[j].seen)}
              \cup (IF "library" \in overlapped THEN {TornFile} ELSE {}) :
       IF jobs[j].handle = "tmp" THEN tmp' = f /\ UNCHANGED index
                                 ELSE index' = f /\ UNCHANGED tmp
  /\ jobs' = [jobs EXCEPT ![j].at = "replacing", ![j].handle = "none"]
  /\ UNCHANGED <<now, workVars, noteVars, overlapped>>

\* The rename; a thread that has the file open keeps it under its new name.
ReplaceIndex(j) ==
  /\ jobs[j].at = "replacing"
  /\ tmp.kind # "absent"
  /\ index' = tmp
  /\ tmp' = NoFile
  /\ jobs' = [i \in DOMAIN jobs |->
                IF i = j THEN [jobs[i] EXCEPT !.at = "ended"]
                ELSE IF jobs[i].handle = "tmp" THEN [jobs[i] EXCEPT !.handle = "index"]
                ELSE jobs[i]]
  /\ UNCHANGED <<now, workVars, noteVars, overlapped>>

\* Reading (an index that is no UTF-8 is not caught there), opening, writing
\* or renaming fails, the last surely when another thread renamed the file
\* first: a job that was done becomes a failed one.  What was being written
\* may be left half way.
RecordFails(j) ==
  /\ jobs[j].at \in {"recording", "opening", "storing", "replacing"}
  /\ jobs' = [jobs EXCEPT ![j].at = "ended", ![j].status = "failed", ![j].handle = "none"]
  /\ tmp' \in IF jobs[j].handle = "tmp" THEN {tmp, TornFile} ELSE {tmp}
  /\ index' \in IF jobs[j].handle = "index" THEN {index, TornFile} ELSE {index}
  /\ UNCHANGED <<now, workVars, noteVars, overlapped>>

JobStep(j) ==
  \/ Start(j) \/ StartExits(j) \/ MakeWav(j) \/ Transcribe(j)
  \/ Finish(j) \/ JobFails(j)
  \/ ReadIndex(j) \/ OpenTemporary(j) \/ StoreItems(j) \/ ReplaceIndex(j)
  \/ RecordFails(j)

-----------------------------------------------------------------------------
(* Handlers that work on an item of the library.                           *)

\* library_summarize, library_mindmap_post and library_frames_post, at their
\* end: what was made is saved beside the transcript that was looked up.
SaveExtra(d, kind) ==
  /\ kind = "frames" => "summary" \in extras[d]
  /\ extras' = [extras EXCEPT ![d] = @ \cup {kind}]
  /\ UNCHANGED <<now, jobs, workVars, session, turns, libraryVars, overlapped>>

\* library_chat_post: the item is looked up, then the answer takes its time.
AskQuestion(v) ==
  /\ Len(turns) < MaxTurns
  /\ Found(v)
  /\ turns' = Append(turns, [dir |-> Lookup(v).dir, at |-> "asking", seen |-> <<>>])
  /\ UNCHANGED <<now, jobs, workVars, extras, session, libraryVars, overlapped>>

Saving(d) == \E t \in DOMAIN turns : turns[t].dir = d /\ turns[t].at = "saving"

\* The answer came: append_chat_message reads the session.
ReadSession(t) ==
  /\ turns[t].at = "asking"
  /\ session[turns[t].dir] # TornSession
  /\ turns' = [turns EXCEPT ![t].at = "saving", ![t].seen = session[turns[t].dir]]
  /\ overlapped' = IF Saving(turns[t].dir) THEN overlapped \cup {"chat"} ELSE overlapped
  /\ UNCHANGED <<now, jobs, workVars, extras, session, libraryVars>>

\* There is no answer, or the session cannot be read.
AnswerFails(t) ==
  /\ turns[t].at = "asking"
  /\ turns' = [turns EXCEPT ![t].at = "failed"]
  /\ UNCHANGED <<now, jobs, workVars, extras, session, libraryVars, overlapped>>

\* Faulty variant: the session is made of this turn alone.
SaveOnlyTurn(t) ==
  /\ turns[t].at = "saving"
  /\ session' = [session EXCEPT ![turns[t].dir] = <<t>>]
  /\ turns' = [turns EXCEPT ![t].at = "saved", ![t].seen = <<>>]
  /\ UNCHANGED <<now, jobs, workVars, extras, libraryVars, overlapped>>

\* The file is written in place: two threads that do it at once may mix.
SaveTurn(t) ==
  /\ turns[t].at = "saving"
  /\ \E s \in {Append(turns[t].seen, t)}
              \cup (IF "chat" \in overlapped THEN {TornSession} ELSE {}) :
       session' = [session EXCEPT ![turns[t].dir] = s]
  /\ turns' = [turns EXCEPT ![t].at = "saved", ![t].seen = <<>>]
  /\ UNCHANGED <<now, jobs, workVars, extras, libraryVars, overlapped>>

\* write_text fails before it has emptied the file or half way.
SaveTurnFails(t) ==
  /\ turns[t].at = "saving"
  /\ \E s \in {session[turns[t].dir], TornSession} :
       session' = [session EXCEPT ![turns[t].dir] = s]
  /\ turns' = [turns EXCEPT ![t].at = "failed", ![t].seen = <<>>]
  /\ UNCHANGED <<now, jobs, workVars, extras, libraryVars, overlapped>>

\* library_chat_clear; it, too, may fail half way.
ClearSession(v) ==
  LET d == Lookup(v).dir
  IN  /\ Found(v)
      /\ \E s \in {<<>>, TornSession} : session' = [session EXCEPT ![d] = s]
      /\ turns' = [t \in DOMAIN turns |->
                     IF turns[t].dir = d /\ turns[t].at = "saved"
                     THEN [turns[t] EXCEPT !.at = "cleared"] ELSE turns[t]]
      /\ overlapped' = IF Saving(d) THEN overlapped \cup {"chat"} ELSE overlapped
      /\ UNCHANGED <<now, jobs, workVars, extras, libraryVars>>

TurnStep(t) == ReadSession(t) \/ AnswerFails(t) \/ SaveTurn(t) \/ SaveTurnFails(t)

WebStep ==
  \/ \E j \in DOMAIN jobs : JobStep(j)
  \/ \E t \in DOMAIN turns : TurnStep(t)

=============================================================================
