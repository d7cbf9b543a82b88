------------------------ MODULE SonglistImportProofs ------------------------
(***************************************************************************)
(* Theorems about SonglistImport for any number of imports, cookies and    *)
(* mishaps, proved with TLAPS.                                             *)
(***************************************************************************)
EXTENDS SonglistImport, FiniteSetTheorems, TLAPS

-----------------------------------------------------------------------------
LEMMA NextCookieInPool ==
    ASSUME NEW c \in Pool
    PROVE  NextCookie(c) \in Pool
BY SonglistImportAssumption DEF Pool, NextCookie

(* Every error leaves a cookie of the pool current. *)
LEMMA BlameTyped ==
    ASSUME TypeOK, NEW i \in Imports, Blame(i)
    PROVE  current' \in Pool /\ failed' \in [Pool -> 0 .. 3]
<1>1. CASE i \in Own
  BY <1>1 DEF Blame, TypeOK
<1>2. CASE i \notin Own
  <2>1. failed' \in [Pool -> 0 .. 3]
    BY <1>2 DEF Blame, TypeOK
  <2>2. current' \in {current, NextCookie(current)}
    BY <1>2 DEF Blame
  <2>. QED  BY <2>1, <2>2, NextCookieInPool DEF TypeOK
<1>. QED  BY <1>1, <1>2

(* TypeOK is not inductive: a renewal of cookie 0 would put it among the valid ones. *)
TypeInv == TypeOK /\ (renewing => rpc # 0)

LEMMA ImportsInit == Init => TypeInv
<1>. SUFFICES ASSUME Init PROVE TypeInv
  OBVIOUS
<1>1. stored \in BOOLEAN /\ renewing \in BOOLEAN /\ knew \in [Imports -> BOOLEAN]
  BY Zenon DEF Init
<1>2. /\ row \in [Imports -> Statuses] /\ saved \subseteq Imports
      /\ web \in [Imports -> {"idle", "record"}]
      /\ pc \in [Imports -> AtWork \cup {"free", "queued"}]
  BY DEF Init, Statuses
<1>3. /\ credential \in Pool \cup {Custom} /\ current \in Pool /\ failed \in [Pool -> 0 .. 3]
      /\ rpc \in 0 .. Cookies /\ valid \subseteq Pool /\ mishaps \in 0 .. Mishaps
  BY SonglistImportAssumption DEF Init, Pool
<1>4. renewing = FALSE
  BY DEF Init
<1>. QED  BY <1>1, <1>2, <1>3, <1>4 DEF TypeOK, TypeInv

LEMMA TypedByImport ==
    ASSUME TypeOK, NEW i \in Imports,
           Ask(i) \/ AskRecord(i) \/ Take(i) \/ Work(i) \/ Timeout(i)
    PROVE  TypeOK'
<1>. USE DEF rows, pool, refresh, service, Step, Record, Statuses, AtWork
<1>1. CASE Ask(i)
  BY <1>1 DEF Ask, TypeOK
<1>2. CASE AskRecord(i)
  BY <1>2 DEF AskRecord, TypeOK
<1>3. CASE Take(i)
  BY <1>3 DEF Take, TypeOK
<1>4. CASE Running(i)
  BY <1>4 DEF Running, TypeOK
<1>5. CASE Begin(i)
  BY <1>5 DEF Begin, TypeOK
<1>6. ASSUME NEW from, Error(i, from), UNCHANGED knew PROVE TypeOK'
  BY <1>6, BlameTyped DEF Error, TypeOK
<1>7. CASE Fetch(i)
  BY <1>6, <1>7 DEF Fetch, TypeOK
<1>8. CASE Load(i)
  BY <1>8 DEF Load, TypeOK
<1>9. CASE Commit(i)
  BY <1>6, <1>9 DEF Commit, TypeOK
<1>10. CASE Succeed(i)
  BY <1>10 DEF Succeed, TypeOK
<1>11. CASE Fail(i)
  BY <1>11 DEF Fail, TypeOK
<1>12. CASE Timeout(i)
  <2>1. mishaps' \in 0 .. Mishaps
    BY <1>12, SonglistImportAssumption DEF Timeout, Mishap, TypeOK
  <2>2. /\ pc' = [pc EXCEPT ![i] = "fail"]
        /\ stored' \in {stored, TRUE} /\ saved' \in {saved, saved \cup {i}}
    BY <1>12 DEF Timeout
  <2>. QED  BY <1>12, <2>1, <2>2 DEF Timeout, TypeOK
<1>. QED  BY <1>1, <1>2, <1>3, <1>4, <1>5, <1>7, <1>8, <1>9, <1>10, <1>11, <1>12 DEF Work

LEMMA TypedByPool ==
    ASSUME TypeInv, Refresh \/ (\E c \in Pool : Expire(c)) \/ Restart
    PROVE  TypeInv'
<1>. USE SonglistImportAssumption DEF TypeInv, rows, pool, service, Mishap, Pool
<1>0. ASSUME rpc \in 0 .. Cookies, NextToRefresh PROVE rpc' \in 0 .. Cookies
  BY <1>0 DEF NextToRefresh
<1>1. CASE RefreshStart
  BY <1>1 DEF RefreshStart, TypeOK
<1>2. CASE RefreshCheck
  <2>1. CASE NextToRefresh /\ UNCHANGED renewing
    BY <1>0, <1>2, <2>1 DEF RefreshCheck, TypeOK
  <2>2. CASE renewing' = TRUE /\ UNCHANGED rpc
    BY <1>2, <2>2 DEF RefreshCheck, TypeOK
  <2>. QED  BY <1>2, <2>1, <2>2 DEF RefreshCheck
<1>3. CASE RefreshRenew
  <2>1. renewing' \in BOOLEAN /\ ~renewing' /\ rpc # 0
    BY <1>3, Zenon DEF RefreshRenew
  <2>2. rpc' \in 0 .. Cookies
    BY <1>0, <1>3 DEF RefreshRenew, TypeOK
  <2>3. CASE UNCHANGED <<valid, failed>>
    BY <1>3, <2>1, <2>2, <2>3 DEF RefreshRenew, TypeOK
  <2>4. CASE valid' = valid \cup {rpc} /\ failed' = [failed EXCEPT ![rpc] = 0]
    BY <1>3, <2>1, <2>2, <2>4 DEF RefreshRenew, TypeOK
  <2>. QED  BY <1>3, <2>3, <2>4 DEF RefreshRenew
<1>4. CASE \E c \in Pool : Expire(c)
  <2>1. mishaps' \in 0 .. Mishaps /\ valid' \subseteq valid
    BY <1>4 DEF Expire, TypeOK
  <2>. QED  BY <1>4, <2>1 DEF Expire, TypeOK, refresh
<1>5. CASE Restart
  <2>1. knew' \in [Imports -> BOOLEAN] /\ renewing' \in BOOLEAN /\ ~renewing'
    BY <1>5, Zenon DEF Restart
  <2>2. pc' \in [Imports -> AtWork \cup {"free", "queued"}]
    BY <1>5 DEF Restart, TypeOK
  <2>3. /\ credential' \in Pool /\ current' \in Pool /\ failed' \in [Pool -> 0 .. 3]
        /\ rpc' \in 0 .. Cookies /\ mishaps' \in 0 .. Mishaps
        /\ UNCHANGED <<row, stored, saved, web, valid>>
    BY <1>5 DEF Restart, FreshPool, TypeOK
  <2>. QED  BY <2>1, <2>2, <2>3 DEF TypeOK
<1>. QED  BY <1>1, <1>2, <1>3, <1>4, <1>5 DEF Refresh

LEMMA TypeInvStep == TypeInv /\ [Next]_vars => TypeInv'
<1>. USE DEF TypeInv
<1>1. ASSUME TypeInv, UNCHANGED vars PROVE TypeInv'
  BY <1>1 DEF vars, rows, pool, refresh, service, TypeOK
<1>2. ASSUME TypeInv, NEW i \in Imports,
             Ask(i) \/ AskRecord(i) \/ Take(i) \/ Work(i) \/ Timeout(i)
      PROVE  TypeInv'
  <2>1. UNCHANGED refresh
    BY <1>2 DEF Ask, AskRecord, Take, Work, Timeout, Running, Begin, Fetch, Load, Commit,
                Succeed, Fail, Error
  <2>. QED  BY <1>2, <2>1, TypedByImport DEF refresh
<1>. QED  BY <1>1, <1>2, TypedByPool DEF Next

(* The tables of the web and the worker process keep their types; in particular *)
(* the rotation never leaves the pool, whatever its size.                       *)
THEOREM ImportsTyped == Spec => []TypeOK
BY ImportsInit, TypeInvStep, PTL DEF Spec, TypeInv

-----------------------------------------------------------------------------
(* A row that says success, or a task about to say so, is one whose session has *)
(* committed; between the commit and the status only the task itself writes.    *)
StoredInv ==
    /\ TypeInv
    /\ SuccessIsStored
    /\ \A i \in Imports : pc[i] = "succeed" => i \in saved

LEMMA StoredStep == StoredInv /\ [Next]_vars => StoredInv'
<1>. SUFFICES ASSUME StoredInv, [Next]_vars PROVE StoredInv'
  OBVIOUS
<1>. TypeInv /\ TypeInv' /\ TypeOK /\ TypeOK'
  BY TypeInvStep DEF StoredInv, TypeInv
<1>. USE DEF rows, pool, refresh, service, Step, StoredInv, SuccessIsStored
<1>1. ASSUME UNCHANGED row, saved \subseteq saved',
             \A i \in Imports : pc'[i] = "succeed" => pc[i] = "succeed"
      PROVE  StoredInv'
  BY <1>1
<1>2. ASSUME NEW i \in Imports, Ask(i) \/ AskRecord(i) PROVE StoredInv'
  BY <1>2 DEF Ask, AskRecord, TypeOK
<1>3. ASSUME NEW i \in Imports, Take(i) \/ Begin(i) \/ Load(i) \/ Timeout(i)
      PROVE  StoredInv'
  BY <1>1, <1>3 DEF Take, Begin, Load, Timeout, TypeOK
<1>4. ASSUME NEW i \in Imports, Running(i) \/ Fail(i) PROVE StoredInv'
  BY <1>4 DEF Running, Fail, Record, TypeOK
<1>5. ASSUME NEW i \in Imports, NEW from, Error(i, from) PROVE StoredInv'
  BY <1>1, <1>5 DEF Error, TypeOK
<1>6. ASSUME NEW i \in Imports, Fetch(i) PROVE StoredInv'
  BY <1>1, <1>5, <1>6 DEF Fetch, TypeOK
<1>7. ASSUME NEW i \in Imports, Commit(i) PROVE StoredInv'
  BY <1>1, <1>5, <1>7 DEF Commit, TypeOK
<1>8. ASSUME NEW i \in Imports, Succeed(i) PROVE StoredInv'
  BY <1>8 DEF Succeed, Record, TypeOK
<1>9. CASE Refresh
  BY <1>1, <1>9 DEF Refresh, RefreshStart, RefreshCheck, RefreshRenew
<1>10. CASE (\E c \in Pool : Expire(c)) \/ Restart
  BY <1>1, <1>10 DEF Expire, Restart, TypeOK
<1>11. CASE UNCHANGED vars
  BY <1>1, <1>11 DEF vars
<1>. QED  BY <1>2, <1>3, <1>4, <1>6, <1>7, <1>8, <1>9, <1>10, <1>11 DEF Next, Work

(* An import whose task row says success has its list and songs in the database, for *)
(* any number of imports of one list that clash, are tried again, cut off after their *)
(* commit, or asked for once more (fetch_songlist, _fetch_songlist_impl).             *)
THEOREM SuccessesAreStored == Spec => []SuccessIsStored
<1>1. Init => StoredInv
  BY ImportsInit DEF Init, StoredInv, SuccessIsStored
<1>2. StoredInv => SuccessIsStored
  BY DEF StoredInv
<1>. QED  BY <1>1, <1>2, StoredStep, PTL DEF Spec

-----------------------------------------------------------------------------
(* With one worker thread there is one task at a time, and an import from the pool *)
(* that has begun finds its cookie current and in the session until it ends.       *)
Busy(i) == pc[i] \in AtWork

OneTask ==
    /\ \A i, j \in Imports : Busy(i) /\ Busy(j) => i = j
    /\ \A i \in Imports : Busy(i) => rpc = 0

UsesCurrent ==
    \A i \in Imports \ Own :
        pc[i] \in {"fetch", "load", "commit"} => credential = current

WorkerInv == TypeInv /\ OneTask /\ UsesCurrent

LEMMA WorkerFree ==
    ASSUME TypeOK, Workers = 1, FreeWorker
    PROVE  rpc = 0 /\ \A i \in Imports : ~Busy(i)
<1>. DEFINE B == {i \in Imports : pc[i] \in AtWork}
<1>1. IsFiniteSet(B) /\ Cardinality(B) \in Nat
  BY SonglistImportAssumption, FS_Subset, FS_CardinalityType
<1>2. Cardinality(B) = 0 /\ rpc = 0
  BY <1>1 DEF FreeWorker
<1>3. B = {}
  BY <1>1, <1>2, FS_EmptySet
<1>. QED  BY <1>2, <1>3 DEF Busy

(* What a step may do to the current cookie and to the counts. *)
BlameStep ==
    (\E c \in Pool : failed'[c] > failed[c]) \/ (current' # current /\ mishaps' = mishaps)
        => credential = current

LEMMA ErrorBlames ==
    ASSUME WorkerInv, NEW i \in Imports, NEW from \in {"fetch", "commit"}, Error(i, from), TypeInv'
    PROVE  WorkerInv' /\ BlameStep
<1>. USE DEF WorkerInv, TypeInv, TypeOK, Error, Step
<1>1. OneTask'
  BY DEF OneTask, Busy, AtWork, refresh
<1>2. UsesCurrent'
  BY DEF UsesCurrent, OneTask, Busy, AtWork
<1>3. BlameStep
  <2>1. CASE i \in Own
    BY <2>1 DEF Blame, BlameStep
  <2>2. CASE i \notin Own
    BY <2>2 DEF UsesCurrent, BlameStep
  <2>. QED  BY <2>1, <2>2
<1>. QED  BY <1>1, <1>2, <1>3

(* A step that blames nobody. *)
LEMMA NobodyBlamed ==
    ASSUME TypeOK, UNCHANGED <<current, failed>>
    PROVE  BlameStep
BY DEF TypeOK, BlameStep

(* The one task goes on, or ends. *)
LEMMA WorkStep ==
    ASSUME WorkerInv, TypeInv', Workers = 1, NEW i \in Imports,
           Ask(i) \/ AskRecord(i) \/ Take(i) \/ Work(i) \/ Timeout(i)
    PROVE  WorkerInv' /\ BlameStep
<1>. TypeOK /\ TypeOK'
  BY DEF WorkerInv, TypeInv
<1>. USE DEF WorkerInv, Step, rows, pool, refresh, service
<1>1. ASSUME UNCHANGED <<pool, rpc>>, NEW l, pc' = [pc EXCEPT ![i] = l],
             l \in AtWork => Busy(i),
             l \in {"load", "commit"} => pc[i] \in {"fetch", "load", "commit"},
             l # "fetch"
      PROVE  WorkerInv' /\ BlameStep
  <2>1. OneTask'
    BY <1>1 DEF OneTask, Busy, TypeOK
  <2>2. UsesCurrent'
    BY <1>1 DEF UsesCurrent, TypeOK
  <2>. QED  BY <1>1, <2>1, <2>2, NobodyBlamed
<1>2. CASE Ask(i)
  BY <1>1, <1>2 DEF Ask, AtWork
<1>3. CASE AskRecord(i)
  BY <1>3, NobodyBlamed DEF AskRecord, OneTask, UsesCurrent, Busy
<1>4. CASE Take(i)
  <2>1. rpc = 0 /\ \A j \in Imports : ~Busy(j)
    BY <1>4, WorkerFree DEF Take
  <2>2. pc' = [pc EXCEPT ![i] = "running"] /\ UNCHANGED <<pool, rpc>>
    BY <1>4 DEF Take
  <2>3. OneTask'
    BY <2>1, <2>2 DEF OneTask, Busy, TypeOK
  <2>4. UsesCurrent'
    BY <2>2 DEF UsesCurrent, TypeOK
  <2>. QED  BY <2>2, <2>3, <2>4, NobodyBlamed
<1>5. CASE Running(i)
  <2>1. pc[i] = "running" /\ UNCHANGED <<pool, rpc>>
    BY <1>5 DEF Running
  <2>2. pc' = [pc EXCEPT ![i] = "begin"] \/ pc' = [pc EXCEPT ![i] = "free"]
    BY <1>5 DEF Running
  <2>3. CASE pc' = [pc EXCEPT ![i] = "begin"]
    BY <1>1, <2>1, <2>3 DEF Busy, AtWork
  <2>4. CASE pc' = [pc EXCEPT ![i] = "free"]
    BY <1>1, <2>1, <2>4 DEF Busy, AtWork
  <2>. QED  BY <2>2, <2>3, <2>4
<1>6. CASE Begin(i)
  <2>1. /\ pc[i] = "begin" /\ pc' = [pc EXCEPT ![i] = "fetch"] /\ UNCHANGED <<current, failed, rpc>>
        /\ i \notin Own => credential' = current
    BY <1>6 DEF Begin
  <2>2. OneTask'
    BY <2>1 DEF OneTask, Busy, AtWork, TypeOK
  <2>3. UsesCurrent'
    <3>1. ASSUME NEW j \in Imports, j # i PROVE pc'[j] \notin {"fetch", "load", "commit"}
      BY <2>1, <3>1 DEF OneTask, Busy, AtWork, TypeOK
    <3>. QED  BY <2>1, <3>1 DEF UsesCurrent
  <2>. QED  BY <2>1, <2>2, <2>3, NobodyBlamed
<1>7. CASE Fetch(i)
  <2>1. CASE Error(i, "fetch")
    BY <2>1, ErrorBlames
  <2>. QED  BY <1>1, <1>7, <2>1 DEF Fetch, Busy, AtWork
<1>8. CASE Load(i)
  BY <1>1, <1>8 DEF Load, Busy, AtWork
<1>9. CASE Commit(i)
  <2>1. CASE Error(i, "commit")
    BY <2>1, ErrorBlames
  <2>. QED  BY <1>1, <1>9, <2>1 DEF Commit, Busy, AtWork
<1>10. CASE Succeed(i) \/ Fail(i)
  <2>1. pc[i] \in {"succeed", "fail"} /\ UNCHANGED <<pool, rpc>>
    BY <1>10 DEF Succeed, Fail
  <2>2. pc' = [pc EXCEPT ![i] = "free"] \/ pc' = [pc EXCEPT ![i] = "fail"]
    BY <1>10 DEF Succeed, Fail
  <2>3. CASE pc' = [pc EXCEPT ![i] = "free"]
    BY <1>1, <2>1, <2>3 DEF Busy, AtWork
  <2>4. CASE pc' = [pc EXCEPT ![i] = "fail"]
    BY <1>1, <2>1, <2>4 DEF Busy, AtWork
  <2>. QED  BY <2>2, <2>3, <2>4
<1>11. CASE Timeout(i)
  BY <1>1, <1>11 DEF Timeout, Busy, AtWork
<1>. QED  BY <1>2, <1>3, <1>4, <1>5, <1>6, <1>7, <1>8, <1>9, <1>10, <1>11 DEF Work

(* The refresh has the worker to itself, and makes cookies healthy only. *)
LEMMA PoolStep ==
    ASSUME WorkerInv, TypeInv', Workers = 1, Refresh \/ (\E c \in Pool : Expire(c)) \/ Restart
    PROVE  WorkerInv' /\ BlameStep
<1>. TypeOK /\ TypeOK'
  BY DEF WorkerInv, TypeInv
<1>. USE DEF WorkerInv, rows, pool, refresh, service
<1>1. CASE RefreshStart
  <2>1. \A j \in Imports : ~Busy(j)
    BY <1>1, WorkerFree DEF RefreshStart
  <2>. QED  BY <1>1, <2>1, NobodyBlamed DEF RefreshStart, OneTask, UsesCurrent, Busy
<1>2. CASE RefreshCheck \/ RefreshRenew
  <2>1. rpc # 0 /\ UNCHANGED <<pc, credential, current>>
    BY <1>2 DEF RefreshCheck, RefreshRenew, TypeInv
  <2>2. \A j \in Imports : ~Busy(j)
    BY <2>1 DEF OneTask
  <2>3. OneTask' /\ UsesCurrent'
    BY <2>1, <2>2 DEF OneTask, UsesCurrent, Busy
  <2>4. failed' = failed \/ failed' = [failed EXCEPT ![rpc] = 0]
    BY <1>2 DEF RefreshCheck, RefreshRenew
  <2>5. \A c \in Pool : ~(failed'[c] > failed[c])
    BY <2>4 DEF TypeOK
  <2>. QED  BY <2>1, <2>3, <2>5 DEF BlameStep
<1>3. CASE \E c \in Pool : Expire(c)
  BY <1>3, NobodyBlamed DEF Expire, OneTask, UsesCurrent, Busy
<1>4. CASE Restart
  <2>1. \A j \in Imports : ~Busy(j)'
    BY <1>4 DEF Restart, Busy, AtWork, TypeOK
  <2>2. OneTask' /\ UsesCurrent'
    BY <2>1 DEF OneTask, UsesCurrent, Busy, AtWork
  <2>3. \A c \in Pool : ~(failed'[c] > failed[c])
    BY <1>4 DEF Restart, FreshPool, TypeOK
  <2>4. mishaps' # mishaps
    BY <1>4 DEF Restart, Mishap, TypeOK
  <2>. QED  BY <2>2, <2>3, <2>4 DEF BlameStep
<1>. QED  BY <1>1, <1>2, <1>3, <1>4 DEF Refresh

LEMMA WorkerInvStep ==
    ASSUME Workers = 1
    PROVE  WorkerInv /\ [Next]_vars => WorkerInv' /\ BlameStep
<1>. SUFFICES ASSUME WorkerInv, [Next]_vars PROVE WorkerInv' /\ BlameStep
  OBVIOUS
<1>. TypeInv /\ TypeInv' /\ TypeOK
  BY TypeInvStep DEF WorkerInv, TypeInv
<1>1. CASE UNCHANGED vars
  BY <1>1, NobodyBlamed
     DEF vars, rows, pool, refresh, service, WorkerInv, OneTask, UsesCurrent, Busy
<1>. QED  BY <1>1, WorkStep, PoolStep DEF Next

(* With one worker thread, which is what the README starts, no cookie is blamed or  *)
(* given up for the failure of an import that did not use it, whatever else the      *)
(* worker did before: imports with a cookie of their own, refreshes, a restart       *)
(* (_fetch_songlist_impl). With two it is false: ClaimBlamedUsed.cfg.               *)
THEOREM BlameIsJust ==
    ASSUME Workers = 1
    PROVE  Spec => BlamesTheUsed
<1>1. Init => WorkerInv
  <2>. SUFFICES ASSUME Init PROVE WorkerInv
    OBVIOUS
  <2>1. TypeInv
    BY ImportsInit
  <2>2. rpc = 0 /\ \A i \in Imports : pc[i] = "free"
    BY DEF Init
  <2>. QED  BY <2>1, <2>2 DEF WorkerInv, OneTask, UsesCurrent, Busy, AtWork
<1>2. WorkerInv /\ [Next]_vars => WorkerInv' /\ BlameStep
  BY WorkerInvStep
<1>3. BlameStep =>
        [(\E c \in Pool : failed'[c] > failed[c]) \/ (current' # current /\ mishaps' = mishaps)
            => credential = current]_vars
  BY DEF BlameStep
<1>. QED  BY <1>1, <1>2, <1>3, PTL DEF Spec, BlamesTheUsed
=============================================================================
