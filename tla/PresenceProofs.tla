--------------------------- MODULE PresenceProofs ---------------------------
(***************************************************************************)
(* Theorems about Presence for any number of connections, overlapping or   *)
(* not, with and without a kick, proved with TLAPS.                        *)
(***************************************************************************)
EXTENDS Presence, TLAPS

-----------------------------------------------------------------------------
USE DEF db, keys, net, monitor, others

LEMMA PresenceInit == Init => TypeOK
<1>. SUFFICES ASSUME Init PROVE TypeOK
  OBVIOUS
<1>1. {exists, online, told, mseen} \subseteq BOOLEAN /\ seen \in [Conns -> BOOLEAN]
  BY Zenon DEF Init
<1>2. registered \cup gone \cup noticed \subseteq Conns
  BY DEF Init
<1>3. /\ pc \in [Conns -> Labels] /\ stamp \in {"fresh", "none"} /\ flag \in {"0", "1", "none"}
      /\ mpc \in {"sleep", "stamp", "flag", "set", "delete", "load", "commit", "tell"}
      /\ kpc \in {"idle", "tell", "close", "done"}
  BY DEF Init, Labels
<1>. QED  BY <1>1, <1>2, <1>3 DEF TypeOK

(* What an endpoint may change, each variable within its type. *)
LEMMA EndpointTyped ==
    ASSUME TypeOK, NEW c \in Conns, NEW l \in Labels, Goto(c, l),
           online' \in BOOLEAN, told' \in BOOLEAN,
           registered' \subseteq registered \cup {c}, gone' \subseteq gone \cup {c},
           noticed' \subseteq noticed \cup {c},
           seen' = seen \/ \E v \in BOOLEAN : seen' = [seen EXCEPT ![c] = v],
           stamp' \in {stamp, "fresh", "none"}, flag' \in {flag, "1", "none"},
           UNCHANGED <<exists, mpc, mseen, kpc>>
    PROVE  TypeOK'
BY DEF TypeOK, Goto

LEMMA StoredTyped ==
    ASSUME TypeOK, NEW s \in BOOLEAN, NEW v \in BOOLEAN
    PROVE  Stored(s, v) \in BOOLEAN
BY DEF TypeOK, Stored

LEMMA TypedByEndpoint ==
    ASSUME TypeOK, NEW c \in Conns,
           Authenticate(c) \/ Connect(c) \/ Beat(c) \/ Serve(c) \/ Leave(c) \/ Vanish(c)
    PROVE  TypeOK'
<1>. /\ {"new", "out", "crashed"} \subseteq Labels
     /\ Connecting \subseteq Labels /\ Serving \subseteq Labels /\ Leaving \subseteq Labels
  BY DEF Labels
<1>. {exists, online, told, seen[c]} \subseteq BOOLEAN
  BY DEF TypeOK
<1>1. CASE Authenticate(c)
  BY <1>1, EndpointTyped DEF Authenticate, Connecting
<1>2. CASE Admit(c) \/ Accept(c) \/ Push(c) \/ InitStamp(c) \/ InitFlag(c) \/ Greet(c) \/ Join(c)
  BY <1>2, EndpointTyped DEF Admit, Accept, Push, InitStamp, InitFlag, Greet, Join, Step, Connecting
<1>3. CASE CommitJoin(c) \/ BeatCommit(c) \/ CommitLeave(c)
  BY <1>3, EndpointTyped, StoredTyped
     DEF CommitJoin, BeatCommit, CommitLeave, Step, Serving
<1>4. CASE Beat(c) \/ BeatFlag(c) \/ BeatSet(c) \/ BeatLoad(c) \/ BeatTell(c)
  BY <1>4, EndpointTyped DEF Beat, BeatFlag, BeatSet, BeatLoad, BeatTell, Step, Serving
<1>5. CASE Disconnect(c) \/ LeaveCheck(c) \/ LoadUser(c) \/ Clean(c) \/ TellLeave(c) \/ Pop(c)
  BY <1>5, EndpointTyped DEF Disconnect, LeaveCheck, LoadUser, Clean, TellLeave, Pop, Step, Leaving
<1>6. CASE Vanish(c)
  BY <1>6 DEF Vanish, TypeOK
<1>. QED  BY <1>1, <1>2, <1>3, <1>4, <1>5, <1>6 DEF Connect, Serve, Leave

LEMMA TypedByOthers ==
    ASSUME TypeOK, Monitor \/ Kick \/ Age \/ ExpireFlag
    PROVE  TypeOK'
<1>1. CASE MonitorPick \/ MonitorStamp \/ MonitorFlag \/ MonitorSet \/ MonitorDelete
  BY <1>1 DEF MonitorPick, MonitorStamp, MonitorFlag, MonitorSet, MonitorDelete, MonitorStep, TypeOK
<1>2. CASE MonitorLoad \/ MonitorTell
  BY <1>2 DEF MonitorLoad, MonitorTell, MonitorStep, TypeOK
<1>3. CASE MonitorCommit
  <2>1. Stored(mseen, FALSE) \in BOOLEAN
    BY StoredTyped DEF TypeOK
  <2>. QED  BY <1>3, <2>1 DEF MonitorCommit, MonitorStep, TypeOK
<1>4. CASE Kick
  BY <1>4 DEF Kick, KickDelete, KickTell, KickClose, KickStep, TypeOK
<1>5. CASE Age \/ ExpireFlag
  BY <1>5 DEF Age, ExpireFlag, TypeOK
<1>. QED  BY <1>1, <1>2, <1>3, <1>4, <1>5 DEF Monitor

LEMMA PresenceTypeStep == TypeOK /\ [Next]_vars => TypeOK'
<1>1. ASSUME TypeOK, UNCHANGED vars PROVE TypeOK'
  BY <1>1 DEF vars, TypeOK
<1>. QED  BY <1>1, TypedByEndpoint, TypedByOthers DEF Next

(* The rows, the keys and the tables keep their types. *)
THEOREM PresenceTyped == Spec => []TypeOK
BY PresenceInit, PresenceTypeStep, PTL DEF Spec

-----------------------------------------------------------------------------
(* The registry.  A registered connection is one between its push and its pop, or *)
(* one whose endpoint broke off, at a commit that failed because the user's row    *)
(* was gone, for good; a connection that is past its push, and whose peer is       *)
(* there, is registered.                                                           *)
Entered == {"initStamp", "initFlag", "greet", "join", "commit"} \cup Serving

EntryOfEndpoint ==
    \A c \in registered :
        pc[c] \in Entered \cup {"leave", "loadUser", "clean", "tellLeave", "pop", "crashed"}

EnteredIsRegistered == \A c \in Conns : pc[c] \in Entered /\ c \notin gone => c \in registered

CrashedIsDeleted == \A c \in Conns : pc[c] = "crashed" => ~exists

RegistryInv ==
    /\ TypeOK
    /\ noticed \subseteq gone
    /\ EntryOfEndpoint
    /\ EnteredIsRegistered
    /\ CrashedIsDeleted

LEMMA RegistryByEndpoint ==
    ASSUME RegistryInv, NEW c \in Conns,
           Authenticate(c) \/ Connect(c) \/ Beat(c) \/ Serve(c) \/ Leave(c) \/ Vanish(c)
    PROVE  (noticed \subseteq gone /\ EntryOfEndpoint /\ EnteredIsRegistered /\ CrashedIsDeleted)'
<1>. USE DEF RegistryInv, EntryOfEndpoint, EnteredIsRegistered, CrashedIsDeleted, Entered, Serving,
         Step, Goto
<1>. pc \in [Conns -> Labels] /\ registered \subseteq Conns
  BY DEF TypeOK
<1>1. CASE Authenticate(c)
  BY <1>1 DEF Authenticate
<1>2. CASE Admit(c)
  BY <1>2 DEF Admit
<1>3. CASE Accept(c)
  BY <1>3 DEF Accept
<1>4. CASE Push(c) \/ InitStamp(c) \/ InitFlag(c) \/ Join(c)
  BY <1>4 DEF Push, InitStamp, InitFlag, Join
<1>5. CASE Greet(c)
  BY <1>5 DEF Greet
<1>6. CASE CommitJoin(c) \/ BeatCommit(c) \/ CommitLeave(c)
  <2>1. exists' = exists
    BY <1>6 DEF CommitJoin, BeatCommit, CommitLeave
  <2>2. pc'[c] = "crashed" => ~exists
    BY <1>6 DEF CommitJoin, BeatCommit, CommitLeave, Fails
  <2>3. (noticed \subseteq gone /\ EntryOfEndpoint /\ EnteredIsRegistered)'
    BY <1>6 DEF CommitJoin, BeatCommit, CommitLeave
  <2>4. \A d \in Conns \ {c} : pc'[d] = pc[d]
    BY <1>6 DEF CommitJoin, BeatCommit, CommitLeave
  <2>. QED  BY <2>1, <2>2, <2>3, <2>4
<1>7. CASE Beat(c) \/ BeatFlag(c) \/ BeatSet(c) \/ BeatLoad(c) \/ BeatTell(c)
  BY <1>7 DEF Beat, BeatFlag, BeatSet, BeatLoad, BeatTell
<1>8. CASE Disconnect(c) \/ Clean(c) \/ TellLeave(c) \/ Pop(c)
  BY <1>8 DEF Disconnect, Clean, TellLeave, Pop
<1>9. CASE LeaveCheck(c)
  BY <1>9 DEF LeaveCheck
<1>10. CASE LoadUser(c)
  BY <1>10 DEF LoadUser
<1>11. CASE Vanish(c)
  BY <1>11 DEF Vanish
<1>. QED  BY <1>1, <1>2, <1>3, <1>4, <1>5, <1>6, <1>7, <1>8, <1>9, <1>10, <1>11
          DEF Connect, Serve, Leave

LEMMA RegistryStep == RegistryInv /\ [Next]_vars => RegistryInv'
<1>. SUFFICES ASSUME RegistryInv, [Next]_vars PROVE RegistryInv'
  OBVIOUS
<1>1. TypeOK /\ TypeOK'
  BY PresenceTypeStep DEF RegistryInv
<1>2. ASSUME UNCHANGED <<pc, noticed>>, gone' = gone \cup (registered \ registered'),
             registered' \subseteq registered, exists' => exists
      PROVE  RegistryInv'
  BY <1>1, <1>2 DEF RegistryInv, EntryOfEndpoint, EnteredIsRegistered, CrashedIsDeleted
<1>3. CASE Monitor
  BY <1>2, <1>3 DEF Monitor, MonitorPick, MonitorStamp, MonitorFlag, MonitorSet, MonitorDelete,
                    MonitorLoad, MonitorCommit, MonitorTell, MonitorStep
<1>4. CASE Kick
  <2>1. CASE KickDelete \/ KickTell
    BY <1>2, <2>1 DEF KickDelete, KickTell, KickStep
  <2>2. CASE KickClose
    BY <1>2, <2>2 DEF KickClose, KickStep
  <2>. QED  BY <1>4, <2>1, <2>2 DEF Kick
<1>5. CASE Age \/ ExpireFlag \/ UNCHANGED vars
  BY <1>2, <1>5 DEF Age, ExpireFlag, vars
<1>. QED  BY <1>1, <1>3, <1>4, <1>5, RegistryByEndpoint DEF Next, RegistryInv

LEMMA RegistryInit == Init => RegistryInv
BY PresenceInit DEF Init, RegistryInv, EntryOfEndpoint, EnteredIsRegistered, CrashedIsDeleted,
                    Entered, Serving

(* No endpoint that has ended leaves an entry that would refuse the user: for any     *)
(* number of connections that overlap, are refused, are closed by a kick or find the   *)
(* user deleted, also by a commit of the handshake that fails (websocket_endpoint,     *)
(* on_disconnect).  An entry that is left belongs to a user who does not exist.        *)
THEOREM NothingIsLeftBehind == Spec => []NothingLeftBehind
<1>1. RegistryInv => NothingLeftBehind
  BY DEF RegistryInv, EntryOfEndpoint, CrashedIsDeleted, NothingLeftBehind, TypeOK, Entered, Serving
<1>. QED  BY <1>1, RegistryInit, RegistryStep, PTL DEF Spec

(* A connection that is being served is in the registry, hence hears the broadcasts, *)
(* whatever the ends of the user's other connections or a kick took out of it.       *)
THEOREM ServedAreRegistered == Spec => []ServedIsRegistered
<1>1. RegistryInv => ServedIsRegistered
  BY DEF RegistryInv, EnteredIsRegistered, ServedIsRegistered, Served, Entered
<1>. QED  BY <1>1, RegistryInit, RegistryStep, PTL DEF Spec
=============================================================================
