------------------------------- MODULE Downloads -------------------------------
(***************************************************************************)
(* The audio file of one song, from three sides: the jobs that download it *)
(* (download_and_cache_song in the Huey worker, or its body run inside the *)
(* web process), the owner who asks for it as test audio (set_test_audio,  *)
(* auto_setup_test_audio), and an import of a song list that writes the    *)
(* song again.  They meet in the row of the tasks table, in songs.cached_path *)
(* and in the file.  GAME_START believes the row.  The song may be deleted, *)
(* once, and come back under a new id; the row of tasks is named after its *)
(* platform id and stays.                                                  *)
(*                                                                         *)
(* Songs share nothing here, so one is enough.  A file is written beside   *)
(* its place and moved there, so it is there or it is not.                 *)
(***************************************************************************)
EXTENDS Naturals, FiniteSets

CONSTANTS
    Jobs,           \* downloads queued or at work at a time
    Requests,       \* calls of set_test_audio that are open at a time
    Losses          \* bound on jobs cut off by the 300 s limit or by the end of a process

ASSUME DownloadsAssumption ==
    IsFiniteSet(Jobs) /\ IsFiniteSet(Requests) /\ Losses \in Nat

VARIABLES
    \* database
    row,            \* tasks.status of the download, or "none"
    song,           \* the row of songs: "stored", "deleted" or stored "again"
    path,           \* songs.cached_path is set
    test,           \* rooms.test_audio_song_id is this song
    \* disk
    file,
    \* a job: where it is, and what it loaded: no song, one without or with a path,
    \* or one that is gone since
    pc, had,
    \* a request, and the requests whose song was deleted after they loaded it
    req, orphans,
    \* the import of a song list, and what it loaded
    imp, ihad,
    \* whether a game of the room was started
    started,
    lost            \* jobs cut off so far

vars == <<row, song, path, test, file, pc, had, req, orphans, imp, ihad, started, lost>>

job == <<pc, had>>
request == <<req, orphans>>
import == <<imp, ihad>>

Statuses == {"none", "pending", "running", "success", "failed"}
JobLabels == {"free", "queued", "start", "load", "skip", "url", "candidate", "fetch", "save", "fail"}
RequestLabels == {"idle", "load", "row", "refresh", "enqueue", "record", "set"}

Found == {"none", "bare", "path", "gone"}

InProgress == {"pending", "running"}
Cached == path /\ file

(* select(Song): what a session that looks for the song finds. *)
Look == IF song = "deleted" THEN "none" ELSE IF path THEN "path" ELSE "bare"

Init ==
    /\ row = "none" /\ song = "stored" /\ path = FALSE /\ file = FALSE /\ test = FALSE
    /\ pc = [j \in Jobs |-> "free"] /\ had = [j \in Jobs |-> "none"]
    /\ req = [r \in Requests |-> "idle"] /\ orphans = {}
    /\ imp = "idle" /\ ihad = "none"
    /\ started = FALSE /\ lost = 0

Step(j, from, to) == pc[j] = from /\ pc' = [pc EXCEPT ![j] = to]

(* The job's session ends with this status and, if path is written, the path; a *)
(* path equal to the one that was loaded is not written, and neither is one for *)
(* a song that was not found: the job only warns, and the status stays.         *)
End(j, from, status, written) ==
    /\ Step(j, from, "free")
    /\ row' = status
    /\ path' = (path \/ (written /\ had[j] = "bare"))
    /\ had' = [had EXCEPT ![j] = "none"]

(* The UPDATE of a song that is gone fails, and the session is rolled back. *)
Abort(j, from) ==
    /\ had[j] = "gone" /\ Step(j, from, "free")
    /\ had' = [had EXCEPT ![j] = "none"]
    /\ UNCHANGED <<row, path>>

(* song.cached_path = ..., if there is a song; and the status *)
EndWithPath(j, from) ==
    \/ had[j] # "gone" /\ End(j, from, "success", TRUE)
    \/ Abort(j, from)

-----------------------------------------------------------------------------
(* download_and_cache_song is called: by a preload, by POST /cache, by a request; *)
(* the song it was called for may have been deleted since the caller read it.     *)
Enqueue(j) ==
    /\ Step(j, "free", "queued")
    /\ UNCHANGED <<row, song, path, test, file, had, request, import, started, lost>>

(* The worker takes the job; auto_setup_test_audio runs the body by itself. *)
Take(j) ==
    /\ \/ Step(j, "queued", "start")
       \/ test /\ Step(j, "free", "start")
    /\ UNCHANGED <<row, song, path, test, file, had, request, import, started, lost>>

(* "running" is committed in a session of its own. *)
Start(j) ==
    /\ Step(j, "start", "load")
    /\ row' = "running"
    /\ UNCHANGED <<song, path, test, file, had, request, import, started, lost>>

Load(j) ==
    /\ Step(j, "load", IF Look = "path" /\ file THEN "skip" ELSE "url")
    /\ had' = [had EXCEPT ![j] = Look]
    /\ UNCHANGED <<row, song, path, test, file, request, import, started, lost>>

(* The file is there and the song says so. *)
Skip(j) ==
    /\ End(j, "skip", "success", FALSE)
    /\ UNCHANGED <<song, test, file, request, import, started, lost>>

(* _get_song_url, after its retries. *)
Url(j) ==
    /\ \/ Step(j, "url", IF file THEN "candidate" ELSE "fetch")
       \/ Step(j, "url", "fail")
    /\ UNCHANGED <<row, song, path, test, file, had, request, import, started, lost>>

(* The file is there and the song does not say so. *)
Candidate(j) ==
    /\ EndWithPath(j, "candidate")
    /\ UNCHANGED <<song, test, file, request, import, started, lost>>

(* Fault: the path is stored when the download begins. *)
FetchEarly(j) ==
    /\ Step(j, "fetch", "save")
    /\ path' = TRUE
    /\ UNCHANGED <<row, song, test, file, had, request, import, started, lost>>

(* _download_audio_file_impl, after its retries. *)
Fetch(j) ==
    /\ \/ Step(j, "fetch", "save") /\ file' = TRUE
       \/ Step(j, "fetch", "fail") /\ UNCHANGED file
    /\ UNCHANGED <<row, song, path, test, had, request, import, started, lost>>

(* Fault: the status is written in a session of its own before the path is. *)
SaveApart(j) ==
    /\ \/ row # "success" /\ pc[j] = "save" /\ row' = "success" /\ UNCHANGED <<path, job>>
       \/ row = "success" /\ EndWithPath(j, "save")
    /\ UNCHANGED <<song, test, file, request, import, started, lost>>

Save(j) ==
    /\ EndWithPath(j, "save")
    /\ UNCHANGED <<song, test, file, request, import, started, lost>>

Fail(j) ==
    /\ End(j, "fail", "failed", FALSE)
    /\ UNCHANGED <<song, test, file, request, import, started, lost>>

(* _run_async gives up after 300 s and cancels the coroutine, or the process *)
(* ends: the session is rolled back, nobody writes the row, and Huey does     *)
(* not run the job again.                                                     *)
Lose(j) ==
    /\ lost < Losses /\ lost' = lost + 1
    /\ pc[j] \notin {"free", "queued"} /\ Step(j, pc[j], "free")
    /\ had' = [had EXCEPT ![j] = "none"]
    /\ UNCHANGED <<row, song, path, test, file, request, import, started>>

-----------------------------------------------------------------------------
(* set_test_audio *)
Answer(r, from, to) ==
    /\ req[r] = from /\ req' = [req EXCEPT ![r] = to]
    /\ orphans' = IF to = "idle" THEN orphans \ {r} ELSE orphans

(* A song that is the test audio already is refused. *)
Ask(r) ==
    /\ ~test /\ ~started
    /\ Answer(r, "idle", "load")
    /\ UNCHANGED <<row, song, path, test, file, job, import, started, lost>>

(* 404, if the song is not there. *)
AskLoad(r) ==
    /\ Answer(r, "load", CASE Look = "none" -> "idle" [] Look = "path" /\ file -> "set" [] OTHER -> "row")
    /\ UNCHANGED <<row, song, path, test, file, job, import, started, lost>>

(* Fault: a failed download counts as one in progress. *)
AskRowOnce(r) ==
    /\ \/ row \in InProgress \cup {"failed"} /\ Answer(r, "row", "idle")
       \/ row = "success" /\ Answer(r, "row", "refresh")
       \/ row = "none" /\ Answer(r, "row", "enqueue")
    /\ UNCHANGED <<row, song, path, test, file, job, import, started, lost>>

(* A download in progress is reported, a finished one is believed after a look, *)
(* any other is asked for again.                                                *)
AskRow(r) ==
    /\ \/ row \in InProgress /\ Answer(r, "row", "idle")
       \/ row = "success" /\ Answer(r, "row", "refresh")
       \/ row \in {"none", "failed"} /\ Answer(r, "row", "enqueue")
    /\ UNCHANGED <<row, song, path, test, file, job, import, started, lost>>

(* The refresh of a song that is gone raises. *)
AskRefresh(r) ==
    /\ \/ r \in orphans /\ Answer(r, "refresh", "idle")
       \/ r \notin orphans /\ Answer(r, "refresh", IF Cached THEN "set" ELSE "enqueue")
    /\ UNCHANGED <<row, song, path, test, file, job, import, started, lost>>

(* The job is in the queue before its row says "pending". *)
AskEnqueue(r) ==
    /\ Answer(r, "enqueue", "record")
    /\ \E j \in Jobs : Step(j, "free", "queued")
    /\ UNCHANGED <<row, song, path, test, file, had, import, started, lost>>

(* Fault: the row gets a status nobody knows. *)
AskRecordQueued(r) ==
    /\ Answer(r, "record", "idle")
    /\ row' = "queued"
    /\ UNCHANGED <<song, path, test, file, job, import, started, lost>>

AskRecord(r) ==
    /\ Answer(r, "record", "idle")
    /\ row' = "pending"
    /\ UNCHANGED <<song, path, test, file, job, import, started, lost>>

(* test_audio_song_id refers to songs.id: it cannot be set to a song that is gone. *)
AskSet(r) ==
    /\ Answer(r, "set", "idle")
    /\ test' = (test \/ r \notin orphans)
    /\ UNCHANGED <<row, song, path, file, job, import, started, lost>>

-----------------------------------------------------------------------------
(* create_or_update_songs writes cached_path too, and a song list has none. *)
ImportLoad ==
    /\ imp = "idle" /\ imp' = "loaded"
    /\ ihad' = Look
    /\ UNCHANGED <<row, song, path, test, file, job, request, started, lost>>

(* A song that was not found is inserted, one that had a path loses it; an INSERT *)
(* of a song that is there by now, and an UPDATE of one that is gone, fail.       *)
ImportCommit ==
    /\ imp = "loaded" /\ imp' = "done"
    /\ song' = IF ihad = "none" /\ song = "deleted" THEN "again" ELSE song
    /\ path' = (path /\ ihad # "path")
    /\ UNCHANGED <<row, test, file, job, request, ihad, started, lost>>

(* DELETE /songs: refused while a room whose game runs has the song, and by the *)
(* database while the song is the test audio of a room.                         *)
DeleteSong ==
    /\ song = "stored" /\ ~started /\ ~test
    /\ song' = "deleted" /\ path' = FALSE
    /\ had' = [j \in Jobs |-> IF had[j] = "bare" THEN "gone" ELSE "none"]
    /\ ihad' = IF ihad = "none" THEN "none" ELSE "gone"
    /\ orphans' = {r \in Requests : req[r] \notin {"idle", "load"}}
    /\ UNCHANGED <<row, test, file, pc, req, imp, started, lost>>

(* POST /songs *)
CreateSong ==
    /\ song = "deleted" /\ song' = "again"
    /\ UNCHANGED <<row, path, test, file, job, request, import, started, lost>>

(* GAME_START finds the song and looks at the row alone. *)
GameStart ==
    /\ ~started /\ song # "deleted" /\ row = "success"
    /\ started' = TRUE
    /\ UNCHANGED <<row, song, path, test, file, job, request, import, lost>>

Work(j) == Take(j) \/ Start(j) \/ Load(j) \/ Skip(j) \/ Url(j) \/ Candidate(j) \/ Fetch(j) \/ Save(j) \/ Fail(j)

Request(r) == AskLoad(r) \/ AskRow(r) \/ AskRefresh(r) \/ AskEnqueue(r) \/ AskRecord(r) \/ AskSet(r)

Next ==
    \/ \E j \in Jobs : Enqueue(j) \/ Work(j) \/ Lose(j)
    \/ \E r \in Requests : Ask(r) \/ Request(r)
    \/ ImportLoad \/ ImportCommit
    \/ DeleteSong \/ CreateSong
    \/ GameStart

Spec == Init /\ [][Next]_vars

(* The worker works, the web process serves, the owner asks again and the music *)
(* service answers now and then.                                               *)
FairSpec ==
    /\ Spec
    /\ \A j \in Jobs : WF_vars(Work(j)) /\ SF_vars(Url(j) /\ pc'[j] # "fail") /\ SF_vars(Fetch(j) /\ pc'[j] # "fail")
    /\ \A r \in Requests : WF_vars(Ask(r)) /\ SF_vars(Request(r))

-----------------------------------------------------------------------------
TypeOK ==
    /\ row \in Statuses /\ song \in {"stored", "deleted", "again"}
    /\ {path, file, test, started} \subseteq BOOLEAN
    /\ pc \in [Jobs -> JobLabels] /\ had \in [Jobs -> Found]
    /\ req \in [Requests -> RequestLabels] /\ orphans \subseteq Requests
    /\ imp \in {"idle", "loaded", "done"} /\ ihad \in Found
    /\ lost \in 0 .. Losses

(* A download that is recorded as done can be streamed, however many jobs and     *)
(* requests meet and whichever are cut off, until an import writes the song or it *)
(* is deleted: the record outlives the song, a job that does not find it records  *)
(* a success too (tasks.py:519-587), and the song may come back without a path.   *)
SuccessIsCached == row = "success" /\ song = "stored" /\ imp # "done" => Cached

(* A path is never stored before its file is there. *)
PathHasFile == path => file

(* An owner who keeps asking gets his test audio, or a game starts, unless the  *)
(* row stays at "pending" or "running" or the song stays deleted.               *)
TestAudioArrives == <>(test \/ started) \/ <>[](row \in InProgress) \/ <>[](song = "deleted")
=============================================================================
