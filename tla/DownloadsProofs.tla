--------------------------- MODULE DownloadsProofs ---------------------------
(***************************************************************************)
(* Theorems about Downloads for any number of jobs, requests and jobs that *)
(* are cut off, proved with TLAPS.                                         *)
(***************************************************************************)
EXTENDS Downloads, TLAPS

-----------------------------------------------------------------------------
(* What is true between the steps of the jobs: where the file must be there; that *)
(* a job past its load knows the song, while it is stored; and that a job which   *)
(* found a path at its load writes none because the path is still stored, unless  *)
(* the import was there.                                                          *)
FileAtHand ==
    /\ PathHasFile
    /\ \A j \in Jobs : pc[j] \in {"skip", "candidate", "save"} => file

PathKept ==
    song = "stored" =>
        \A j \in Jobs :
            /\ pc[j] = "skip" => had[j] = "path"
            /\ pc[j] \in {"url", "candidate", "fetch", "save"} => had[j] \in {"bare", "path"}
            /\ had[j] = "path" /\ imp # "done" => path

DownloadsInv ==
    /\ TypeOK
    /\ FileAtHand
    /\ PathKept
    /\ SuccessIsCached

LEMMA DownloadsInit == Init => DownloadsInv
<1>. SUFFICES ASSUME Init PROVE DownloadsInv
  OBVIOUS
<1>1. TypeOK
  <2>1. {path, file, test, started} \subseteq BOOLEAN
    BY Zenon DEF Init
  <2>2. /\ row \in Statuses /\ song = "stored" /\ imp \in {"idle", "loaded", "done"} /\ lost \in 0 .. Losses
        /\ pc \in [Jobs -> JobLabels] /\ req \in [Requests -> RequestLabels]
        /\ had \in [Jobs -> Found] /\ orphans \subseteq Requests /\ ihad \in Found
    BY DownloadsAssumption DEF Init, Statuses, JobLabels, RequestLabels, Found
  <2>. QED  BY <2>1, <2>2 DEF TypeOK
<1>2. /\ path = FALSE /\ row = "none"
      /\ \A j \in Jobs : pc[j] = "free" /\ had[j] = "none"
  BY DEF Init
<1>3. FileAtHand /\ PathKept /\ SuccessIsCached
  BY <1>2 DEF FileAtHand, PathHasFile, PathKept, SuccessIsCached
<1>. QED  BY <1>1, <1>3 DEF DownloadsInv

LEMMA JobStep ==
    ASSUME DownloadsInv, NEW j \in Jobs, Enqueue(j) \/ Work(j) \/ Lose(j)
    PROVE  DownloadsInv'
<1>. USE DEF DownloadsInv, TypeOK, FileAtHand, PathHasFile, PathKept, SuccessIsCached, Cached,
             Step, import, job, request, JobLabels, Statuses, Found, Look, End, Abort, EndWithPath
<1>1. CASE Enqueue(j)
  BY <1>1 DEF Enqueue
<1>2. CASE Take(j)
  BY <1>2 DEF Take
<1>3. CASE Start(j)
  BY <1>3 DEF Start
<1>4. CASE Load(j)
  BY <1>4 DEF Load
<1>5. CASE Skip(j)
  BY <1>5 DEF Skip
<1>6. CASE Url(j)
  BY <1>6 DEF Url
<1>7. CASE Candidate(j)
  BY <1>7 DEF Candidate
<1>8. CASE Fetch(j)
  BY <1>8 DEF Fetch
<1>9. CASE Save(j)
  BY <1>9 DEF Save
<1>10. CASE Fail(j)
  BY <1>10 DEF Fail
<1>11. CASE Lose(j)
  BY <1>11, DownloadsAssumption DEF Lose
<1>. QED  BY <1>1, <1>2, <1>3, <1>4, <1>5, <1>6, <1>7, <1>8, <1>9, <1>10, <1>11 DEF Work

LEMMA RequestStep ==
    ASSUME DownloadsInv, NEW r \in Requests, Ask(r) \/ Request(r)
    PROVE  DownloadsInv'
<1>. USE DEF DownloadsInv, TypeOK, FileAtHand, PathHasFile, PathKept, SuccessIsCached, Cached,
             Answer, Look, Found, import, job, request, RequestLabels, Statuses, InProgress
<1>1. CASE Ask(r)
  BY <1>1 DEF Ask
<1>2. CASE AskLoad(r)
  BY <1>2 DEF AskLoad
<1>3. CASE AskRow(r)
  BY <1>3 DEF AskRow
<1>4. CASE AskRefresh(r)
  BY <1>4 DEF AskRefresh
<1>5. CASE AskEnqueue(r)
  BY <1>5 DEF AskEnqueue, Step, JobLabels
<1>6. CASE AskRecord(r)
  BY <1>6 DEF AskRecord
<1>7. CASE AskSet(r)
  BY <1>7 DEF AskSet
<1>. QED  BY <1>1, <1>2, <1>3, <1>4, <1>5, <1>6, <1>7 DEF Request

(* An import takes the path away, and so does a deletion: the exceptions that *)
(* SuccessIsCached makes.                                                     *)
LEMMA SongStep ==
    ASSUME DownloadsInv, ImportLoad \/ ImportCommit \/ DeleteSong \/ CreateSong \/ GameStart
    PROVE  DownloadsInv'
<1>. USE DEF DownloadsInv, TypeOK, FileAtHand, PathHasFile, PathKept, SuccessIsCached, Cached,
             import, job, request, Look, Found
<1>1. CASE ImportLoad
  BY <1>1 DEF ImportLoad
<1>2. CASE ImportCommit
  BY <1>2 DEF ImportCommit
<1>3. CASE GameStart
  BY <1>3 DEF GameStart
<1>4. CASE DeleteSong
  BY <1>4 DEF DeleteSong
<1>5. CASE CreateSong
  BY <1>5 DEF CreateSong
<1>. QED  BY <1>1, <1>2, <1>3, <1>4, <1>5

LEMMA DownloadsStep == DownloadsInv /\ [Next]_vars => DownloadsInv'
<1>. SUFFICES ASSUME DownloadsInv, [Next]_vars PROVE DownloadsInv'
  OBVIOUS
<1>1. CASE UNCHANGED vars
  BY <1>1 DEF vars, DownloadsInv, TypeOK, FileAtHand, PathHasFile, PathKept, SuccessIsCached,
              Cached
<1>. QED  BY <1>1, JobStep, RequestStep, SongStep DEF Next

-----------------------------------------------------------------------------
(* The status row, the jobs and the requests keep their types: in particular the *)
(* row never gets a status that set_test_audio does not know.                    *)
THEOREM DownloadsTyped == Spec => []TypeOK
BY DownloadsInit, DownloadsStep, PTL DEF Spec, DownloadsInv

(* However many jobs download a song at a time, and whichever of them are cut off *)
(* after any of their steps, cached_path is only ever set when the file is there  *)
(* (_download_and_cache_song_impl).                                               *)
THEOREM PathsHaveFiles == Spec => []PathHasFile
<1>1. DownloadsInv => PathHasFile
  BY DEF DownloadsInv, FileAtHand
<1>. QED  BY <1>1, DownloadsInit, DownloadsStep, PTL DEF Spec

(* A row that says success is the row of a song that can be streamed, also when the *)
(* status was written by one job and the path by another, until an import of a song *)
(* list has written the song again or the song was deleted.                         *)
THEOREM SuccessesAreCached == Spec => []SuccessIsCached
<1>1. DownloadsInv => SuccessIsCached
  BY DEF DownloadsInv
<1>. QED  BY <1>1, DownloadsInit, DownloadsStep, PTL DEF Spec
=============================================================================
