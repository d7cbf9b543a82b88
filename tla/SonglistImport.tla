---------------------------- MODULE SonglistImport ----------------------------
(***************************************************************************)
(* Imports of a song list from QQ Music: POST /api/songlists, the task     *)
(* fetch_songlist in the Huey worker, the pool of cookies it draws from,   *)
(* their rotation after failures and the hourly refresh of expired ones.   *)
(*                                                                         *)
(* All imports of a worker process use one client session of qqmusic_api,  *)
(* so they share one credential, whichever of them set it last.  The pool  *)
(* is a list of cookies 1 .. Cookies; all imports are of the same list,    *)
(* hence write the same rows.                                              *)
(***************************************************************************)
EXTENDS Naturals, FiniteSets

CONSTANTS
    Imports,        \* imports that are asked for, queued or at work at a time
    Own,            \* those whose request carries a cookie string of its own
    Cookies,        \* number of cookies in the pool
    Lasting,        \* cookies that do not expire
    Workers,        \* worker threads of the Huey consumer
    Mishaps         \* bound on expiries, timeouts and restarts of the worker

ASSUME SonglistImportAssumption ==
    /\ IsFiniteSet(Imports) /\ Own \subseteq Imports
    /\ Cookies \in Nat \ {0} /\ Lasting \subseteq 1 .. Cookies
    /\ Workers \in Nat \ {0} /\ Mishaps \in Nat

VARIABLES
    \* database
    row,            \* tasks.status per import, or "none"
    stored,         \* the song list and its songs are there
    saved,          \* imports whose session has committed
    \* web process
    web,            \* per import: where the endpoint is
    \* worker process
    pc,             \* per import: where the task is
    knew,           \* per import: stored, as its session has read it
    credential,     \* cookie in the session of qqmusic_api; 0: one from a request
    current,        \* cookie of the rotation manager
    failed,         \* failed_count per cookie, where all counts from 3 are 3
    rpc,            \* the refresh: cookie it is at, or 0
    renewing,       \* whether it found that cookie expired
    \* QQ Music
    valid,          \* cookies that have not expired
    mishaps         \* so far

rows == <<row, stored, saved>>
pool == <<credential, current, failed>>
refresh == <<rpc, renewing>>
service == <<valid, mishaps>>
vars == <<rows, web, pc, knew, pool, refresh, service>>

Pool == 1 .. Cookies
Custom == 0

Statuses == {"none", "pending", "running", "success", "failed"}
AtWork == {"running", "begin", "fetch", "load", "commit", "succeed", "fail"}

(* The consumer starts: the cookies are loaded from the database, the settings *)
(* and the environment, and the first one is current and in the session.        *)
FreshPool ==
    /\ current' = 1 /\ credential' = 1
    /\ failed' = [c \in Pool |-> 0]

Init ==
    /\ row = [i \in Imports |-> "none"] /\ stored = FALSE /\ saved = {}
    /\ web = [i \in Imports |-> "idle"]
    /\ pc = [i \in Imports |-> "free"] /\ knew = [i \in Imports |-> FALSE]
    /\ credential = 1 /\ current = 1 /\ failed = [c \in Pool |-> 0]
    /\ rpc = 0 /\ renewing = FALSE
    /\ valid \in {v \in SUBSET Pool : Lasting \subseteq v} /\ mishaps = 0

Step(i, from, to) == pc[i] = from /\ pc' = [pc EXCEPT ![i] = to]

(* _persist_task_state: an error of the write is logged and the status lost; one of *)
(* the commit that follows is raised, which the actions below have as an exit.      *)
Record(i, status) == row' \in {row, [row EXCEPT ![i] = status]}

Mishap == mishaps < Mishaps /\ mishaps' = mishaps + 1

FreeWorker ==
    Cardinality({i \in Imports : pc[i] \in AtWork}) + (IF rpc = 0 THEN 0 ELSE 1) < Workers

-----------------------------------------------------------------------------
(* create_songlist_from_mid: the task is in the queue before its row is there. *)
Ask(i) ==
    /\ web[i] = "idle" /\ Step(i, "free", "queued")
    /\ web' = [web EXCEPT ![i] = "record"]
    /\ row' = [row EXCEPT ![i] = "none"]
    /\ saved' = saved \ {i}
    /\ UNCHANGED <<stored, knew, pool, refresh, service>>

(* create_task_record: an UPSERT, so whatever the worker wrote meanwhile is gone. *)
AskRecord(i) ==
    /\ web[i] = "record" /\ web' = [web EXCEPT ![i] = "idle"]
    /\ row' = [row EXCEPT ![i] = "pending"]
    /\ UNCHANGED <<stored, saved, pc, knew, pool, refresh, service>>

-----------------------------------------------------------------------------
(* fetch_songlist *)
Take(i) ==
    /\ FreeWorker
    /\ Step(i, "queued", "running")
    /\ UNCHANGED <<rows, web, knew, pool, refresh, service>>

(* An exception here is before the try, and the task is over. *)
Running(i) ==
    /\ \/ Step(i, "running", "begin") /\ Record(i, "running")
       \/ Step(i, "running", "free") /\ UNCHANGED row
    /\ UNCHANGED <<stored, saved, web, knew, pool, refresh, service>>

(* Fault: the session keeps the credential it has. *)
BeginSame(i) ==
    /\ Step(i, "begin", "fetch")
    /\ credential' = IF i \in Own THEN Custom ELSE credential
    /\ UNCHANGED <<rows, web, knew, current, failed, refresh, service>>

(* _fetch_songlist_impl sets the credential of the session, for all imports. *)
Begin(i) ==
    /\ Step(i, "begin", "fetch")
    /\ credential' = IF i \in Own THEN Custom ELSE current
    /\ UNCHANGED <<rows, web, knew, current, failed, refresh, service>>

(* Fault: the index does not wrap. *)
NextCookieUnwrapped(c) == c + 1

NextCookie(c) == (c % Cookies) + 1

(* Fault: an unhealthy cookie stays. *)
BlameAndStay(i) ==
    IF i \in Own THEN UNCHANGED <<current, failed>>
    ELSE /\ failed' = [failed EXCEPT ![current] = IF @ = 3 THEN 3 ELSE @ + 1]
         /\ UNCHANGED current

(* An error of whatever kind, the database's included, counts against the cookie *)
(* that is current now, unless the request brought its own; from the third on    *)
(* the next cookie takes its place, healthy or not.                              *)
Blame(i) ==
    IF i \in Own THEN UNCHANGED <<current, failed>>
    ELSE /\ failed' = [failed EXCEPT ![current] = IF @ = 3 THEN 3 ELSE @ + 1]
         /\ current' = IF failed'[current] = 3 THEN NextCookie(current) ELSE current

Error(i, from) ==
    /\ Step(i, from, "fail")
    /\ Blame(i)
    /\ UNCHANGED <<rows, web, credential, refresh, service>>

(* The service answers those it knows; one from a request it may know or not. *)
Accepted == credential = Custom \/ credential \in valid

(* get_detail, then the other pages, some at a time, with their retries: each *)
(* of these requests uses the credential of the moment.                       *)
Fetch(i) ==
    \/ /\ Accepted /\ Step(i, "fetch", "load")
       /\ UNCHANGED <<rows, web, knew, pool, refresh, service>>
    \/ Error(i, "fetch") /\ UNCHANGED knew

(* create_or_update_songlist and create_or_update_songs read what is there. *)
Load(i) ==
    /\ Step(i, "load", "commit")
    /\ knew' = [knew EXCEPT ![i] = stored]
    /\ UNCHANGED <<rows, web, pool, refresh, service>>

(* An INSERT of rows that another import has committed since fails; a busy *)
(* connection is tried again a few times.                                  *)
Commit(i) ==
    \/ /\ knew[i] \/ ~stored
       /\ Step(i, "commit", "succeed")
       /\ stored' = TRUE /\ saved' = saved \cup {i}
       /\ UNCHANGED <<row, web, knew, pool, refresh, service>>
    \/ Error(i, "commit") /\ UNCHANGED knew
    \/ Step(i, "commit", "load") /\ UNCHANGED <<rows, web, knew, pool, refresh, service>>

(* An exception here is taken for one of the import, though its rows are stored. *)
Succeed(i) ==
    /\ \/ Step(i, "succeed", "free") /\ Record(i, "success")
       \/ Step(i, "succeed", "fail") /\ UNCHANGED row
    /\ knew' = [knew EXCEPT ![i] = FALSE]
    /\ UNCHANGED <<stored, saved, web, pool, refresh, service>>

(* Fault: the None that an error returns is taken for a result. *)
FailUnnoticed(i) ==
    /\ Step(i, "fail", "free")
    /\ Record(i, "success")
    /\ knew' = [knew EXCEPT ![i] = FALSE]
    /\ UNCHANGED <<stored, saved, web, pool, refresh, service>>

Fail(i) ==
    /\ Step(i, "fail", "free")
    /\ Record(i, "failed")
    /\ knew' = [knew EXCEPT ![i] = FALSE]
    /\ UNCHANGED <<stored, saved, web, pool, refresh, service>>

(* After 300 s _run_async cancels the coroutine and the task is recorded as   *)
(* failed; a commit that was under way is done or not, and no cookie is blamed. *)
Timeout(i) ==
    /\ Mishap
    /\ \/ \E l \in {"fetch", "load", "commit"} : Step(i, l, "fail") /\ UNCHANGED <<stored, saved>>
       \/ /\ knew[i] \/ ~stored
          /\ Step(i, "commit", "fail")
          /\ stored' = TRUE /\ saved' = saved \cup {i}
    /\ UNCHANGED <<row, web, knew, pool, refresh, valid>>

-----------------------------------------------------------------------------
(* refresh_credentials_periodic goes through the pool. *)
NextToRefresh == rpc' = IF rpc = Cookies THEN 0 ELSE rpc + 1

RefreshStart ==
    /\ FreeWorker /\ rpc = 0 /\ rpc' = 1
    /\ UNCHANGED <<rows, web, pc, knew, pool, renewing, service>>

(* A cookie that has not expired, or cannot be refreshed, is passed over. *)
RefreshCheck ==
    /\ rpc # 0 /\ ~renewing
    /\ \/ NextToRefresh /\ UNCHANGED renewing
       \/ rpc \notin valid /\ renewing' = TRUE /\ UNCHANGED rpc
    /\ UNCHANGED <<rows, web, pc, knew, pool, service>>

(* A refresh that succeeds also makes the cookie healthy again. *)
RefreshRenew ==
    /\ renewing /\ renewing' = FALSE
    /\ NextToRefresh
    /\ \/ UNCHANGED <<valid, failed>>
       \/ valid' = valid \cup {rpc} /\ failed' = [failed EXCEPT ![rpc] = 0]
    /\ UNCHANGED <<rows, web, pc, knew, credential, current, mishaps>>

-----------------------------------------------------------------------------
Expire(c) ==
    /\ c \in valid \ Lasting /\ Mishap
    /\ valid' = valid \ {c}
    /\ UNCHANGED <<rows, web, pc, knew, pool, refresh>>

(* The consumer is started again: its queue is in Redis, its tasks are gone and *)
(* their rows stay as they are.                                                 *)
Restart ==
    /\ Mishap
    /\ pc' = [i \in Imports |-> IF pc[i] \in AtWork THEN "free" ELSE pc[i]]
    /\ knew' = [i \in Imports |-> FALSE]
    /\ FreshPool
    /\ rpc' = 0 /\ renewing' = FALSE
    /\ UNCHANGED <<rows, web, valid>>

Work(i) ==
    Running(i) \/ Begin(i) \/ Fetch(i) \/ Load(i) \/ Commit(i) \/ Succeed(i) \/ Fail(i)

Refresh == RefreshStart \/ RefreshCheck \/ RefreshRenew

Next ==
    \/ \E i \in Imports : Ask(i) \/ AskRecord(i) \/ Take(i) \/ Work(i) \/ Timeout(i)
    \/ Refresh
    \/ \E c \in Pool : Expire(c)
    \/ Restart

Spec == Init /\ [][Next]_vars

(* Somebody asks again and again for an import from the pool, the queue of Huey is *)
(* first in first out, and the service and the database do not fail for ever where *)
(* they can succeed.                                                              *)
FairSpec ==
    /\ Spec
    /\ \A i \in Imports : WF_vars(Work(i)) /\ SF_vars(Commit(i) /\ pc'[i] = "succeed")
    /\ \A i \in Imports \ Own :
        /\ WF_vars(Ask(i) \/ AskRecord(i)) /\ SF_vars(Take(i))
        /\ SF_vars(Running(i) /\ pc'[i] = "begin") /\ SF_vars(Fetch(i) /\ pc'[i] = "load")
    /\ WF_vars(RefreshCheck \/ RefreshRenew)

-----------------------------------------------------------------------------
TypeOK ==
    /\ row \in [Imports -> Statuses] /\ stored \in BOOLEAN /\ saved \subseteq Imports
    /\ web \in [Imports -> {"idle", "record"}]
    /\ pc \in [Imports -> AtWork \cup {"free", "queued"}] /\ knew \in [Imports -> BOOLEAN]
    /\ credential \in Pool \cup {Custom} /\ current \in Pool /\ failed \in [Pool -> 0 .. 3]
    /\ rpc \in 0 .. Cookies /\ renewing \in BOOLEAN
    /\ valid \subseteq Pool /\ mishaps \in 0 .. Mishaps

(* An import that is recorded as successful has committed its rows: two imports *)
(* of one list, cancelled tasks and restarts included (tasks.py:590-642).        *)
SuccessIsStored == \A i \in Imports : row[i] = "success" => i \in saved

(* With one worker thread a cookie is blamed, and given up, only for a failure of *)
(* an import that used it, also after an import with a cookie of its own has left *)
(* that in the session (tasks.py:706-724, 829-888).                                *)
BlamesTheUsed ==
    [][(\E c \in Pool : failed'[c] > failed[c]) \/ (current' # current /\ mishaps' = mishaps)
        => credential = current]_vars

(* As long as some cookie does not expire, imports from the pool keep getting *)
(* through: the rotation comes to a cookie that works, and an import uses it, *)
(* however the others were blamed or refreshed (cache/cookie_rotation.py).     *)
ImportsGetThrough ==
    Lasting # {} => []<>(\E i \in Imports \ Own : pc[i] = "succeed")
=============================================================================
