------------------------------- MODULE Presence -------------------------------
(***************************************************************************)
(* The connections of one user to one room: websocket_endpoint of main.py, *)
(* the ClientManager, on_connect and on_disconnect, the heartbeat handler, *)
(* the heartbeat monitor and a kick by the owner.  They share the user's   *)
(* row, the registry, and two Redis keys: the time of the last heartbeat   *)
(* (hb:ts) and the announced status (hb:online), both with a time to live. *)
(*                                                                         *)
(* Users do not share any of this, so one is enough; a second one is only  *)
(* the audience that hears PLAYER_JOIN and PLAYER_LEAVE.  Time passes as    *)
(* the age of the timestamp and the expiry of the status key.                    *)
(***************************************************************************)
EXTENDS Naturals, FiniteSets

CONSTANTS
    Conns,          \* connections the user's browser opens, one after the other or at once
    Overlapping,    \* whether it opens one while the last is alive
    Kicked          \* whether the owner kicks the user

ASSUME PresenceAssumption ==
    IsFiniteSet(Conns) /\ {Overlapping, Kicked} \subseteq BOOLEAN

VARIABLES
    \* database
    exists,         \* the user's row is there
    online,         \* users.online
    \* process
    registered,     \* connections of the user in the ClientManager
    pc,             \* per connection: where its endpoint is
    seen,           \* per connection: users.online as its open session loaded it
    \* Redis
    stamp,          \* hb:ts: fresh, or none when it is 15 s old or absent
    flag,           \* hb:online
    \* network
    gone,           \* connections whose peer has left or was closed
    noticed,        \* connections whose endpoint has received the disconnect
    told,           \* what the audience was last told
    \* other tasks
    mpc, mseen,     \* the monitor: where it is, users.online as it loaded it
    kpc             \* KICK_USER of the owner

db == <<exists, online>>
keys == <<stamp, flag>>
net == <<gone, noticed>>
monitor == <<mpc, mseen>>
vars == <<db, registered, pc, seen, keys, net, told, monitor, kpc>>

Connecting == {"admit", "accept", "push", "initStamp", "initFlag", "greet", "join", "commit"}
Serving == {"serve", "beatFlag", "beatSet", "beatLoad", "beatCommit", "beatTell"}
Leaving == {"leave", "loadUser", "clean", "tellLeave", "pop", "commitLeave"}
Labels == {"new", "out", "crashed"} \cup Connecting \cup Serving \cup Leaving

Init ==
    /\ exists = TRUE /\ online = FALSE
    /\ registered = {}
    /\ pc = [c \in Conns |-> "new"]
    /\ seen = [c \in Conns |-> FALSE]
    /\ stamp = "none" /\ flag = "none"
    /\ gone = {} /\ noticed = {}
    /\ told = FALSE
    /\ mpc = "sleep" /\ mseen = FALSE
    /\ kpc = "idle"

Goto(c, l) == pc' = [pc EXCEPT ![c] = l]
Step(c, from, to) == pc[c] = from /\ Goto(c, to)

(* A commit of online := v in a session that loaded s: nothing is written when *)
(* the value is the same, and a row that is gone makes the commit fail.        *)
Writes(s, v) == s # v
Fails(s, v) == Writes(s, v) /\ ~exists
Stored(s, v) == IF Writes(s, v) /\ exists THEN v ELSE online

others == <<monitor, kpc>>

-----------------------------------------------------------------------------
(* websocket_endpoint *)

(* The browser connects; authenticate_user_by_room_token loads the row. *)
Authenticate(c) ==
    /\ pc[c] = "new"
    /\ Overlapping \/ \A d \in Conns : pc[d] \in {"new", "out", "crashed"} \/ d \in gone
    /\ Goto(c, IF exists THEN "admit" ELSE "out")
    /\ seen' = [seen EXCEPT ![c] = exists /\ online]
    /\ UNCHANGED <<db, registered, keys, net, told, others>>

(* Connections whose disconnect was received are dropped; any other one of the *)
(* user refuses this one.                                                      *)
Admit(c) ==
    /\ pc[c] = "admit"
    /\ registered' = registered \ noticed
    /\ Goto(c, IF registered \subseteq noticed THEN "accept" ELSE "out")
    /\ UNCHANGED <<db, seen, keys, net, told, others>>

(* The answer to the handshake; it fails when the peer is gone. *)
Accept(c) ==
    /\ pc[c] = "accept"
    /\ Goto(c, IF c \in gone THEN "out" ELSE "push")
    /\ UNCHANGED <<db, registered, seen, keys, net, told, others>>

(* push, and on_connect up to its first await. *)
Push(c) ==
    /\ Step(c, "push", "initStamp")
    /\ registered' = registered \cup {c}
    /\ UNCHANGED <<db, seen, keys, net, told, others>>

InitStamp(c) ==
    /\ Step(c, "initStamp", "initFlag")
    /\ stamp' = "fresh"
    /\ UNCHANGED <<db, registered, seen, flag, net, told, others>>

InitFlag(c) ==
    /\ Step(c, "initFlag", "greet")
    /\ flag' = "1"
    /\ UNCHANGED <<db, registered, seen, stamp, net, told, others>>

(* ROOM_STATE is sent; if that fails the connection is dropped at once, and the *)
(* endpoint goes on.                                                            *)
Greet(c) ==
    /\ pc[c] = "greet"
    /\ \/ c \notin gone /\ Goto(c, "join") /\ UNCHANGED registered
       \/ c \in gone /\ Goto(c, "commit") /\ registered' = registered \ {c}
    /\ UNCHANGED <<db, seen, keys, net, told, others>>

Join(c) ==
    /\ Step(c, "join", "commit")
    /\ told' = TRUE
    /\ UNCHANGED <<db, registered, seen, keys, net, others>>

(* The session of the handshake ends.  If its commit fails the endpoint raises: *)
(* the finally with on_disconnect is not entered yet.                           *)
CommitJoin(c) ==
    /\ pc[c] = "commit"
    /\ Goto(c, IF Fails(seen[c], TRUE) THEN "crashed" ELSE "serve")
    /\ online' = Stored(seen[c], TRUE)
    /\ seen' = [seen EXCEPT ![c] = FALSE]
    /\ UNCHANGED <<exists, registered, keys, net, told, others>>

-----------------------------------------------------------------------------
(* A heartbeat frame: handle_heartbeat and mark_player_online. *)
Beat(c) ==
    /\ c \notin gone
    /\ Step(c, "serve", "beatFlag")
    /\ stamp' = "fresh"
    /\ UNCHANGED <<db, registered, seen, flag, net, told, others>>

BeatFlag(c) ==
    /\ pc[c] = "beatFlag"
    /\ Goto(c, IF flag = "1" THEN "serve" ELSE "beatSet")
    /\ UNCHANGED <<db, registered, seen, keys, net, told, others>>

(* Fault: the status is stored as a formatted Boolean. *)
BeatSetBoolean(c) ==
    /\ Step(c, "beatSet", "beatLoad")
    /\ flag' = "True"
    /\ UNCHANGED <<db, registered, seen, stamp, net, told, others>>

BeatSet(c) ==
    /\ Step(c, "beatSet", "beatLoad")
    /\ flag' = "1"
    /\ UNCHANGED <<db, registered, seen, stamp, net, told, others>>

BeatLoad(c) ==
    /\ pc[c] = "beatLoad"
    /\ Goto(c, IF exists THEN "beatCommit" ELSE "beatTell")
    /\ seen' = [seen EXCEPT ![c] = online]
    /\ UNCHANGED <<db, registered, keys, net, told, others>>

BeatCommit(c) ==
    /\ pc[c] = "beatCommit"
    /\ Goto(c, IF Fails(seen[c], TRUE) THEN "serve" ELSE "beatTell")
    /\ online' = Stored(seen[c], TRUE)
    /\ seen' = [seen EXCEPT ![c] = FALSE]
    /\ UNCHANGED <<exists, registered, keys, net, told, others>>

(* Fault: the status is stored and nobody hears of it. *)
BeatTellSilent(c) ==
    /\ Step(c, "beatTell", "serve")
    /\ UNCHANGED <<db, registered, seen, keys, net, told, others>>

BeatTell(c) ==
    /\ Step(c, "beatTell", "serve")
    /\ told' = TRUE
    /\ UNCHANGED <<db, registered, seen, keys, net, others>>

-----------------------------------------------------------------------------
(* receive() returns the disconnect, or a send to the peer that left failed before *)
(* it was received; on_disconnect runs.                                            *)
Disconnect(c) ==
    /\ c \in gone
    /\ Step(c, "serve", "leave")
    /\ noticed' \in {noticed, noticed \cup {c}}
    /\ UNCHANGED <<db, registered, seen, keys, gone, told, others>>

(* Fault: the connection finds itself. *)
LeaveCheckSelf(c) ==
    /\ pc[c] = "leave"
    /\ \/ registered = {} /\ Goto(c, "loadUser") /\ UNCHANGED registered
       \/ registered # {} /\ Goto(c, "out") /\ registered' = registered \ {c}
    /\ UNCHANGED <<db, seen, keys, net, told, others>>

(* Another registered connection of the user keeps him online. *)
LeaveCheck(c) ==
    /\ pc[c] = "leave"
    /\ \/ registered \subseteq {c} /\ Goto(c, "loadUser") /\ UNCHANGED registered
       \/ ~(registered \subseteq {c}) /\ Goto(c, "out") /\ registered' = registered \ {c}
    /\ UNCHANGED <<db, seen, keys, net, told, others>>

(* Fault: a user who is gone keeps his connection. *)
LoadUserEarlyReturn(c) ==
    /\ pc[c] = "loadUser"
    /\ \/ exists /\ Goto(c, "clean") /\ UNCHANGED registered
       \/ ~exists /\ Goto(c, "out") /\ UNCHANGED registered
    /\ seen' = [seen EXCEPT ![c] = online]
    /\ UNCHANGED <<db, keys, net, told, others>>

LoadUser(c) ==
    /\ pc[c] = "loadUser"
    /\ \/ exists /\ Goto(c, "clean") /\ UNCHANGED registered
       \/ ~exists /\ Goto(c, "out") /\ registered' = registered \ {c}
    /\ seen' = [seen EXCEPT ![c] = online]
    /\ UNCHANGED <<db, keys, net, told, others>>

Clean(c) ==
    /\ Step(c, "clean", "tellLeave")
    /\ stamp' = "none" /\ flag' = "none"
    /\ UNCHANGED <<db, registered, seen, net, told, others>>

TellLeave(c) ==
    /\ Step(c, "tellLeave", "pop")
    /\ told' = FALSE
    /\ UNCHANGED <<db, registered, seen, keys, net, others>>

(* Fault: the registry is keyed by user. *)
PopUser(c) ==
    /\ Step(c, "pop", "commitLeave")
    /\ registered' = {}
    /\ UNCHANGED <<db, seen, keys, net, told, others>>

Pop(c) ==
    /\ Step(c, "pop", "commitLeave")
    /\ registered' = registered \ {c}
    /\ UNCHANGED <<db, seen, keys, net, told, others>>

CommitLeave(c) ==
    /\ Step(c, "commitLeave", "out")
    /\ online' = Stored(seen[c], FALSE)
    /\ seen' = [seen EXCEPT ![c] = FALSE]
    /\ UNCHANGED <<exists, registered, keys, net, told, others>>

-----------------------------------------------------------------------------
(* HeartbeatMonitor._check for one registered connection. *)
MonitorStep(from, to) ==
    mpc = from /\ mpc' = to /\ UNCHANGED <<exists, registered, pc, seen, net, kpc>>

(* The snapshot is taken, then the timestamp is read; FALSE: it is recent. *)
MonitorPick ==
    /\ registered # {}
    /\ MonitorStep("sleep", "stamp")
    /\ UNCHANGED <<online, keys, told, mseen>>

MonitorStamp ==
    /\ MonitorStep("stamp", IF stamp = "fresh" THEN "sleep" ELSE "flag")
    /\ UNCHANGED <<online, keys, told, mseen>>

MonitorFlag ==
    /\ MonitorStep("flag", IF flag = "0" THEN "sleep" ELSE "set")
    /\ UNCHANGED <<online, keys, told, mseen>>

MonitorSet ==
    /\ MonitorStep("set", "delete")
    /\ flag' = "0"
    /\ UNCHANGED <<online, stamp, told, mseen>>

MonitorDelete ==
    /\ MonitorStep("delete", "load")
    /\ stamp' = "none"
    /\ UNCHANGED <<online, flag, told, mseen>>

(* A row that is gone is only logged, and the audience is told all the same. *)
MonitorLoad ==
    /\ MonitorStep("load", IF exists THEN "commit" ELSE "tell")
    /\ mseen' = online
    /\ UNCHANGED <<online, keys, told>>

MonitorCommit ==
    /\ MonitorStep("commit", IF Fails(mseen, FALSE) THEN "sleep" ELSE "tell")
    /\ online' = Stored(mseen, FALSE)
    /\ mseen' = FALSE
    /\ UNCHANGED <<keys, told>>

MonitorTell ==
    /\ MonitorStep("tell", "sleep")
    /\ told' = FALSE
    /\ UNCHANGED <<online, keys, mseen>>

-----------------------------------------------------------------------------
(* KICK_USER: the row is deleted, the audience is told, and the connections that *)
(* are registered by then are closed and dropped.                                *)
KickStep(from, to) == kpc = from /\ kpc' = to /\ UNCHANGED <<online, pc, seen, keys, noticed, monitor>>

KickDelete ==
    /\ Kicked /\ KickStep("idle", "tell")
    /\ exists' = FALSE
    /\ UNCHANGED <<registered, gone, told>>

KickTell ==
    /\ KickStep("tell", "close")
    /\ told' = FALSE
    /\ UNCHANGED <<exists, registered, gone>>

KickClose ==
    /\ KickStep("close", "done")
    /\ gone' = gone \cup registered
    /\ registered' = {}
    /\ UNCHANGED <<exists, told>>

-----------------------------------------------------------------------------
(* The peer leaves: a closed page, a lost network that the server has detected. *)
Vanish(c) ==
    /\ pc[c] \notin {"new", "out", "crashed"} /\ c \notin gone
    /\ gone' = gone \cup {c}
    /\ UNCHANGED <<db, registered, pc, seen, keys, noticed, told, others>>

(* 15 s without a heartbeat; 30 s after it was set the status is gone. *)
Age ==
    /\ stamp = "fresh" /\ stamp' = "none"
    /\ UNCHANGED <<db, registered, pc, seen, flag, net, told, others>>

(* Fault: the status key has no time to live. *)
ExpireFlagNever == flag = "none" /\ UNCHANGED vars

ExpireFlag ==
    /\ flag # "none" /\ flag' = "none"
    /\ UNCHANGED <<db, registered, pc, seen, stamp, net, told, others>>

Connect(c) ==
    \/ Admit(c) \/ Accept(c) \/ Push(c) \/ InitStamp(c) \/ InitFlag(c)
    \/ Greet(c) \/ Join(c) \/ CommitJoin(c)

Serve(c) == BeatFlag(c) \/ BeatSet(c) \/ BeatLoad(c) \/ BeatCommit(c) \/ BeatTell(c)

Leave(c) ==
    \/ Disconnect(c) \/ LeaveCheck(c) \/ LoadUser(c) \/ Clean(c)
    \/ TellLeave(c) \/ Pop(c) \/ CommitLeave(c)

Monitor ==
    \/ MonitorPick \/ MonitorStamp \/ MonitorFlag \/ MonitorSet \/ MonitorDelete
    \/ MonitorLoad \/ MonitorCommit \/ MonitorTell

Kick == KickDelete \/ KickTell \/ KickClose

Next ==
    \/ \E c \in Conns : Authenticate(c) \/ Connect(c) \/ Beat(c) \/ Serve(c) \/ Leave(c) \/ Vanish(c)
    \/ Monitor \/ Kick
    \/ Age \/ ExpireFlag

Spec == Init /\ [][Next]_vars

(* Tasks of one event loop are all scheduled, the client sends heartbeats while *)
(* it lives, and a time to live runs out.                                       *)
FairSpec ==
    /\ Spec
    /\ \A c \in Conns : WF_vars(Connect(c)) /\ WF_vars(Serve(c)) /\ WF_vars(Leave(c)) /\ WF_vars(Beat(c))
    /\ WF_vars(Monitor) /\ WF_vars(KickTell \/ KickClose)
    /\ SF_vars(ExpireFlag)

-----------------------------------------------------------------------------
TypeOK ==
    /\ {exists, online, told, mseen} \subseteq BOOLEAN
    /\ registered \cup gone \cup noticed \subseteq Conns
    /\ pc \in [Conns -> Labels] /\ seen \in [Conns -> BOOLEAN]
    /\ stamp \in {"fresh", "none"} /\ flag \in {"0", "1", "none"}
    /\ mpc \in {"sleep", "stamp", "flag", "set", "delete", "load", "commit", "tell"}
    /\ kpc \in {"idle", "tell", "close", "done"}

Served(c) == pc[c] \in Serving /\ c \notin gone

(* An endpoint that has come to its end leaves no entry in the registry: it would  *)
(* refuse the user for good (has_user_connection).  One whose handshake broke off   *)
(* at its commit does leave its entry, but only that of a user whose row a kick has *)
(* deleted, whom authentication refuses in any case.                                *)
NothingLeftBehind ==
    \A c \in registered : pc[c] # "out" /\ (pc[c] = "crashed" => ~exists)

(* A connection that is being served hears the broadcasts, whatever its       *)
(* predecessor, the kick or a second connection did to the registry meanwhile. *)
ServedIsRegistered == \A c \in Conns : Served(c) => c \in registered

(* A player who stays connected is shown online again, whatever the disconnect *)
(* of an earlier connection or the monitor wrote (mark_player_online).          *)
BackOnline == \A c \in Conns : <>[]Served(c) => []<>online

(* and the last the others hear of him does not stay "left". *)
BackTold == \A c \in Conns : <>[]Served(c) => []<>told

(* When every connection has ended without a kick the others have been told. *)
GoneIsTold == (\A c \in Conns : pc[c] = "out") ~> ~told
=============================================================================
