--------------------------- MODULE PlaybackProofs ---------------------------
(***************************************************************************)
(* Theorems about Playback for every set of sockets and of open requests,  *)
(* every length of the song list and any number of faults, proved with     *)
(* TLAPS.                                                                  *)
(***************************************************************************)
EXTENDS Playback, TLAPS

-----------------------------------------------------------------------------
(* Types, in three parts: what the processes are at, what is stored, and the tokens. *)
ProcessType ==
    /\ pc \in [Processes -> Labels] /\ kind \in [Processes -> Kinds]
    /\ goal \in [Processes -> 0 .. Songs - 1]
    /\ got \in [Processes -> States]

StoredType ==
    /\ hash \in States /\ snap \in States
    /\ room \in [status: Statuses, index: 0 .. Songs - 1]
    /\ late \subseteq Processes /\ faults \in 0 .. Faults

FlagType == ttl \in BOOLEAN /\ spoiled \in BOOLEAN

TokenType ==
    /\ made \in Seq(1 .. Songs) /\ Len(made) <= MaxTokens
    /\ temp \in [1 .. Songs -> 0 .. Len(made)]
    /\ fresh \in [Processes -> SUBSET Tokens] /\ dead \subseteq Tokens

LEMMA TypeParts == TypeOK <=> ProcessType /\ StoredType /\ FlagType /\ TokenType
BY Zenon DEF TypeOK, ProcessType, StoredType, FlagType, TokenType

LEMMA Constants ==
    /\ Owner \in Players /\ Players \subseteq Processes /\ Requests \subseteq Processes
    /\ Songs \in Nat \ {0} /\ MaxTokens \in Nat /\ Faults \in Nat
    /\ Missing \in States /\ NoUrl \in States /\ Test \in States
    /\ 1 .. MaxTokens \subseteq States
    /\ 0 \in 0 .. Songs - 1
BY PlaybackAssumption DEF Processes, States, Urls, Missing, NoUrl, Test

(* A process goes on: nobody else does. *)
LEMMA Stepping ==
    ASSUME ProcessType, NEW p \in Processes, NEW l, NEW m \in Labels, Step(p, l, m)
    PROVE  /\ pc' \in [Processes -> Labels] /\ pc[p] = l /\ pc'[p] = m
           /\ \A q \in Processes : q # p => pc'[q] = pc[q]
BY DEF Step, ProcessType

LEMMA Received ==
    ASSUME ProcessType, NEW p \in Processes, NEW k \in Kinds, NEW a \in 0 .. Songs - 1,
           NEW s \in States, NEW m \in Labels, Receive(p, k, a, s, m)
    PROVE  /\ ProcessType'
           /\ pc[p] = "idle" /\ pc'[p] = m /\ kind'[p] = k /\ goal'[p] = a /\ got'[p] = s
           /\ \A q \in Processes : q # p => pc'[q] = pc[q] /\ kind'[q] = kind[q]
                                            /\ goal'[q] = goal[q] /\ got'[q] = got[q]
           /\ UNCHANGED <<redis, database, made, fresh, history, faults>>
BY DEF Receive, Step, ProcessType

LEMMA Ended ==
    ASSUME ProcessType, NEW p \in Processes, NEW l, End(p, l)
    PROVE  /\ ProcessType'
           /\ pc[p] = l /\ pc'[p] = "idle" /\ kind'[p] = "event"
           /\ \A q \in Processes : q # p => pc'[q] = pc[q] /\ kind'[q] = kind[q]
                                            /\ goal'[q] = goal[q] /\ got'[q] = got[q]
           /\ late' = late \ {p} /\ fresh' = [fresh EXCEPT ![p] = {}]
<1>1. "idle" \in Labels /\ "event" \in Kinds /\ 0 \in 0 .. Songs - 1 /\ Missing \in States
  BY Constants DEF Labels, Kinds
<1>. QED  BY <1>1 DEF End, Step, ProcessType

(* A token for a song is one that is known, or one more. *)
LEMMA TokenMinted ==
    ASSUME TokenType, NEW p \in Processes, NEW s \in 1 .. Songs, NEW t \in 1 .. MaxTokens,
           Minted(p, s, t)
    PROVE  /\ made' \in Seq(1 .. Songs) /\ Len(made') <= MaxTokens
           /\ fresh' \in [Processes -> SUBSET Tokens']
           /\ Tokens \subseteq Tokens' /\ \A u \in Tokens : made'[u] = made[u]
           /\ t \in Tokens' /\ made'[t] = s
           /\ Len(made) <= Len(made') /\ Len(made') \in Nat
<1>1. CASE t = temp[s] /\ t # 0 /\ Opens(t) = s /\ UNCHANGED <<made, fresh>>
  <2>1. t \in Tokens /\ made[t] = s
    BY <1>1, PlaybackAssumption DEF Opens
  <2>2. Len(made) \in Nat /\ Tokens' = Tokens /\ made' = made /\ fresh' = fresh
    BY <1>1 DEF TokenType, Tokens
  <2>3. fresh' \in [Processes -> SUBSET Tokens']
    BY <2>2 DEF TokenType
  <2>. QED  BY <2>1, <2>2, <2>3 DEF TokenType
<1>2. CASE /\ Len(made) < MaxTokens /\ t = Len(made) + 1
           /\ made' = Append(made, s)
           /\ fresh' = [fresh EXCEPT ![p] = @ \cup {t}]
  <2>1. /\ Len(made') = Len(made) + 1 /\ made' \in Seq(1 .. Songs) /\ made'[t] = s
        /\ Len(made) \in Nat /\ \A u \in Tokens : made'[u] = made[u]
    BY <1>2 DEF TokenType, Tokens
  <2>2. Tokens \subseteq Tokens' /\ t \in Tokens'
    BY <1>2, <2>1 DEF Tokens
  <2>3. fresh' \in [Processes -> SUBSET Tokens']
    BY <1>2, <2>2 DEF TokenType
  <2>4. Len(made') <= MaxTokens /\ Len(made) <= Len(made') /\ Len(made') \in Nat
    BY <1>2, <2>1, PlaybackAssumption
  <2>. QED  BY <2>1, <2>2, <2>3, <2>4
<1>. QED  BY <1>1, <1>2 DEF Minted

LEMMA TempTyped ==
    ASSUME TokenType, NEW p \in Processes
    PROVE  TempAfter(p) \in [1 .. Songs -> 0 .. Len(made)]
<1>1. ASSUME NEW s \in 1 .. Songs
      PROVE  (IF \E t \in fresh[p] : made[t] = s
              THEN CHOOSE t \in fresh[p] : made[t] = s ELSE temp[s]) \in 0 .. Len(made)
  <2>1. CASE \E t \in fresh[p] : made[t] = s
    <3>1. (CHOOSE t \in fresh[p] : made[t] = s) \in fresh[p]
      BY <2>1
    <3>2. fresh[p] \subseteq 0 .. Len(made)
      BY DEF TokenType, Tokens
    <3>. QED  BY <2>1, <3>1, <3>2
  <2>2. CASE ~ \E t \in fresh[p] : made[t] = s
    BY <2>2 DEF TokenType
  <2>. QED  BY <2>1, <2>2
<1>. QED  BY <1>1 DEF TempAfter

-----------------------------------------------------------------------------
(* The steps, by what they may change.  Some leave the tokens alone. *)
LEMMA TokensKept ==
    ASSUME TokenType, NEW p \in Processes, UNCHANGED <<made, dead>>,
           temp' = temp \/ temp' = TempAfter(p) \/ temp' = [s \in 1 .. Songs |-> 0],
           fresh' = fresh \/ fresh' = [fresh EXCEPT ![p] = {}]
    PROVE  TokenType'
<1>1. 0 \in 0 .. Len(made)
  BY DEF TokenType
<1>2. temp' \in [1 .. Songs -> 0 .. Len(made)]
  BY <1>1, TempTyped DEF TokenType
<1>. QED  BY <1>2 DEF TokenType, Tokens

LEMMA TokensMade ==
    ASSUME TokenType, NEW p \in Processes, NEW s \in 1 .. Songs, NEW t \in 1 .. MaxTokens,
           Minted(p, s, t), UNCHANGED <<dead, temp>>
    PROVE  TokenType'
<1>1. temp \in [1 .. Songs -> 0 .. Len(made')]
  BY TokenMinted DEF TokenType
<1>. QED  BY <1>1, TokenMinted DEF TokenType

(* The two flags are truth values whatever a step does. *)
LEMMA FlagsTyped ==
    ASSUME FlagType, [Next]_vars
    PROVE  FlagType'
<1>. USE DEF redis, database, process, history
<1>1. ttl' \in BOOLEAN
  BY Zenon DEF FlagType, Next, vars, Event, RoundEvent, Request, Work, Fault, Receive, Get, Load,
     Refill, RefillTtl, Default, Close, Control, WriteBack, Leave, Token, NextAudio, Hset, Expire,
     Save, Commit, Wipe, LoseHash, LoseToken, FailRead, FailToken, FailWrite, Start, Skip,
     Refresh, SetTest, AutoSetup, Dissolve
<1>2. spoiled' \in BOOLEAN
  BY Zenon DEF FlagType, Next, vars, Event, RoundEvent, Request, Work, Fault, Receive, Get, Load,
     Refill, RefillTtl, Default, Close, Control, WriteBack, Leave, Token, NextAudio, Hset, Expire,
     Save, Commit, Wipe, LoseHash, LoseToken, FailRead, FailToken, FailWrite, Start, Skip,
     Refresh, SetTest, AutoSetup, Dissolve
<1>. QED  BY <1>1, <1>2 DEF FlagType

PartsType == ProcessType /\ StoredType /\ TokenType

LEMMA RequestsTyped ==
    ASSUME PartsType, NEW p \in Processes,
           \/ p \in Players /\ Event(p)
           \/ p = Owner /\ RoundEvent(p)
           \/ p \in Requests /\ Request(p)
    PROVE  PartsType'
<1>. USE DEF redis, database, process, history
<1>. ProcessType /\ StoredType /\ TokenType
  BY DEF PartsType
<1>1. ASSUME NEW k \in Kinds, NEW a \in 0 .. Songs - 1, NEW s \in States, NEW m \in Labels,
             Receive(p, k, a, s, m)
      PROVE  PartsType'
  <2>1. ProcessType' /\ UNCHANGED <<redis, database, made, fresh, history, faults>>
    BY <1>1, Received
  <2>2. StoredType' /\ TokenType'
    BY <2>1 DEF StoredType, TokenType, Tokens
  <2>. QED  BY <2>1, <2>2 DEF PartsType
<1>2. /\ {"event", "GAME_START", "SKIP_ROUND", "refresh", "test"} \subseteq Kinds
      /\ {"get", "token", "hset"} \subseteq Labels
  BY DEF Kinds, Rounds, Labels
<1>3. room.index + 1 < Songs => room.index + 1 \in 0 .. Songs - 1
  BY Constants DEF StoredType
<1>4. CASE Event(p)
  BY <1>1, <1>2, <1>4, Constants DEF Event
<1>5. CASE Start(p)
  BY <1>1, <1>2, <1>5, Constants DEF Start
<1>6. CASE Skip(p)
  BY <1>1, <1>2, <1>3, <1>6, Constants DEF Skip
<1>7. CASE Refresh(p)
  BY <1>1, <1>2, <1>7, Constants DEF Refresh
<1>8. CASE SetTest(p) \/ AutoSetup(p)
  BY <1>1, <1>2, <1>8, Constants DEF SetTest, AutoSetup
<1>9. CASE Dissolve(p)
  <2>1. "wipe" \in Labels /\ "DISSOLVED" \in Statuses
    BY DEF Labels, Statuses
  <2>2. ProcessType'
    BY <1>9, <2>1, Stepping DEF Dissolve, ProcessType
  <2>3. StoredType'
    BY <1>9, <2>1, Constants DEF Dissolve, StoredType
  <2>4. TokenType'
    BY <1>9, TokensKept DEF Dissolve
  <2>. QED  BY <2>2, <2>3, <2>4 DEF PartsType
<1>. QED  BY <1>4, <1>5, <1>6, <1>7, <1>8, <1>9 DEF RoundEvent, Request

LEMMA ReadsTyped ==
    ASSUME PartsType, NEW p \in Processes,
           \/ Get(p) \/ Load(p) \/ Refill(p) \/ RefillTtl(p) \/ Default(p) \/ Close(p)
           \/ Control(p) \/ WriteBack(p) \/ Leave(p)
    PROVE  PartsType'
<1>. USE DEF redis, database, process, history
<1>. ProcessType /\ StoredType /\ TokenType
  BY DEF PartsType
<1>. {"load", "use", "default", "refill", "refillTtl", "close", "hset"} \subseteq Labels
  BY DEF Labels
<1>1. ASSUME NEW l, NEW m \in Labels, Step(p, l, m), UNCHANGED <<kind, goal>>,
             got' = got \/ \E s \in States : got' = [got EXCEPT ![p] = s]
      PROVE  ProcessType'
  BY <1>1, Stepping DEF ProcessType
<1>2. ASSUME UNCHANGED <<snap, room, faults>>, hash' \in States, late' \subseteq late
      PROVE  StoredType'
  BY <1>2 DEF StoredType
<1>3. UNCHANGED <<made, fresh, dead, temp>> => TokenType'
  BY DEF TokenType, Tokens
<1>4. got[p] \in States /\ hash \in States /\ snap \in States
  BY DEF ProcessType, StoredType
<1>5. CASE Get(p)
  BY <1>1, <1>2, <1>3, <1>4, <1>5 DEF Get, PartsType
<1>6. CASE Load(p)
  BY <1>1, <1>2, <1>3, <1>4, <1>6 DEF Load, PartsType
<1>7. CASE Refill(p)
  BY <1>1, <1>2, <1>3, <1>4, <1>7 DEF Refill, Merged, PartsType
<1>8. CASE RefillTtl(p)
  BY <1>1, <1>2, <1>3, <1>8 DEF RefillTtl, StoredType, PartsType
<1>9. CASE Default(p)
  <2>1. CASE /\ room.status # "RUNNING" /\ pc' = [pc EXCEPT ![p] = "use"]
             /\ UNCHANGED <<made, fresh, got>>
    <3>1. Step(p, "default", "use") /\ UNCHANGED <<redis, database, kind, goal, history, faults>>
      BY <1>9, <2>1 DEF Default, Step
    <3>. QED  BY <1>1, <1>2, <1>3, <1>4, <2>1, <3>1 DEF PartsType
  <2>2. CASE /\ pc' = [pc EXCEPT ![p] = "close"]
             /\ \E t \in 1 .. MaxTokens :
                   /\ Minted(p, room.index + 1, t)
                   /\ got' = [got EXCEPT ![p] = t]
    <3>1. PICK t \in 1 .. MaxTokens : /\ Minted(p, room.index + 1, t)
                                      /\ got' = [got EXCEPT ![p] = t]
      BY <2>2
    <3>2. Step(p, "default", "close") /\ UNCHANGED <<redis, database, kind, goal, history, faults>>
      BY <1>9, <2>2 DEF Default, Step
    <3>3. room.index + 1 \in 1 .. Songs
      BY Constants DEF StoredType
    <3>4. TokenType'
      BY <3>1, <3>2, <3>3, TokensMade
    <3>5. ProcessType'
      BY <1>1, <3>1, <3>2, Constants
    <3>. QED  BY <1>2, <1>4, <3>2, <3>4, <3>5 DEF PartsType
  <2>. QED  BY <1>9, <2>1, <2>2 DEF Default
<1>10. CASE Close(p)
  <2>1. TokenType'
    BY <1>10, TokensKept DEF Close
  <2>. QED  BY <1>1, <1>2, <1>4, <1>10, <2>1 DEF Close, PartsType
<1>11. CASE Control(p)
  <2>1. PICK u \in Named : got' = [got EXCEPT ![p] = Controlled(@, u)]
    BY <1>11 DEF Control
  <2>2. u \in States
    <3>1. 1 .. Len(made) \subseteq 1 .. MaxTokens /\ NoUrl \in States
      BY Constants DEF TokenType
    <3>. QED  BY <3>1, Constants DEF Named, Tokens
  <2>3. Controlled(got[p], u) \in States
    BY <1>4, <2>2 DEF Controlled
  <2>4. got' = [got EXCEPT ![p] = Controlled(got[p], u)]
    BY <2>1
  <2>. QED  BY <1>1, <1>2, <1>3, <1>4, <1>11, <2>3, <2>4 DEF Control, PartsType
<1>12. CASE WriteBack(p)
  BY <1>1, <1>2, <1>3, <1>4, <1>12 DEF WriteBack, PartsType
<1>13. CASE Leave(p)
  <2>1. ProcessType' /\ late' \subseteq late /\ fresh' = [fresh EXCEPT ![p] = {}]
    BY <1>13, Ended DEF Leave
  <2>. QED  BY <1>2, <1>4, <1>13, <2>1, TokensKept DEF Leave, PartsType
<1>. QED  BY <1>5, <1>6, <1>7, <1>8, <1>9, <1>10, <1>11, <1>12, <1>13

LEMMA WritesTyped ==
    ASSUME PartsType, NEW p \in Processes,
           Token(p) \/ NextAudio(p) \/ Hset(p) \/ Expire(p) \/ Save(p) \/ Commit(p) \/ Wipe(p)
    PROVE  PartsType'
<1>. USE DEF redis, database, process, history
<1>. ProcessType /\ StoredType /\ TokenType
  BY DEF PartsType
<1>. {"next", "hset", "expire", "save", "commit"} \subseteq Labels
  BY DEF Labels
<1>1. ASSUME NEW l, NEW m \in Labels, Step(p, l, m), UNCHANGED <<kind, goal>>,
             got' = got \/ \E s \in States : got' = [got EXCEPT ![p] = s]
      PROVE  ProcessType'
  BY <1>1, Stepping DEF ProcessType
<1>2. /\ got[p] \in States /\ goal[p] \in 0 .. Songs - 1 /\ goal[p] + 1 \in 1 .. Songs
      /\ Songs \in Nat
  BY Constants DEF ProcessType
<1>3. CASE Token(p)
  <2>1. PICK t \in 1 .. MaxTokens : Minted(p, goal[p] + 1, t) /\ got' = [got EXCEPT ![p] = t]
    BY <1>3 DEF Token
  <2>2. TokenType'
    BY <1>2, <1>3, <2>1, TokensMade DEF Token
  <2>3. ProcessType'
    BY <1>1, <1>3, <2>1, Constants DEF Token
  <2>. QED  BY <1>3, <2>2, <2>3 DEF Token, StoredType, PartsType
<1>4. CASE NextAudio(p)
  <2>1. TokenType'
    <3>1. CASE UNCHANGED <<made, fresh>>
      BY <1>4, <3>1 DEF NextAudio, TokenType, Tokens
    <3>2. CASE goal[p] + 2 <= Songs /\ \E t \in 1 .. MaxTokens : Minted(p, goal[p] + 2, t)
      <4>1. goal[p] + 2 \in 1 .. Songs
        BY <1>2, <3>2
      <4>. QED  BY <1>4, <3>2, <4>1, TokensMade DEF NextAudio
    <3>. QED  BY <1>4, <3>1, <3>2 DEF NextAudio
  <2>. QED  BY <1>1, <1>4, <2>1 DEF NextAudio, StoredType, PartsType
<1>5. CASE Hset(p)
  <2>1. ProcessType'
    BY <1>1, <1>5 DEF Hset
  <2>2. TokenType'
    BY <1>5 DEF Hset, TokenType, Tokens
  <2>3. hash' \in States /\ late' \subseteq Processes
    BY <1>2, <1>5 DEF Hset, Merged, StoredType
  <2>. QED  BY <1>5, <2>1, <2>2, <2>3 DEF Hset, StoredType, PartsType
<1>6. CASE Expire(p)
  BY <1>1, <1>6 DEF Expire, StoredType, TokenType, Tokens, PartsType
<1>7. CASE Save(p)
  <2>1. snap' \in States
    BY <1>2, <1>7, Constants DEF Save, Snapshot
  <2>2. ProcessType' /\ late' \subseteq late /\ (fresh' = fresh \/ fresh' = [fresh EXCEPT ![p] = {}])
    <3>1. CASE End(p, "save")
      BY <3>1, Ended
    <3>2. CASE Step(p, "save", "commit") /\ UNCHANGED <<kind, goal, got, fresh, late>>
      BY <1>1, <3>2
    <3>. QED  BY <1>7, <3>1, <3>2 DEF Save
  <2>3. TokenType'
    BY <1>7, <2>2, TokensKept DEF Save
  <2>. QED  BY <1>7, <2>1, <2>2, <2>3 DEF Save, StoredType, PartsType
<1>8. CASE Commit(p)
  <2>1. ProcessType' /\ late' \subseteq late /\ fresh' = [fresh EXCEPT ![p] = {}]
    BY <1>8, Ended DEF Commit
  <2>2. TokenType'
    BY <1>8, <2>1, TokensKept DEF Commit
  <2>3. room' \in [status: Statuses, index: 0 .. Songs - 1]
    <3>1. "RUNNING" \in Statuses
      BY DEF Statuses
    <3>2. room \in [status: Statuses, index: 0 .. Songs - 1]
      BY DEF StoredType
    <3>. QED  BY <1>2, <1>8, <3>1, <3>2 DEF Commit
  <2>. QED  BY <1>8, <2>1, <2>2, <2>3 DEF Commit, StoredType, PartsType
<1>9. CASE Wipe(p)
  <2>1. ProcessType' /\ late' \subseteq late /\ fresh' = [fresh EXCEPT ![p] = {}]
    BY <1>9, Ended DEF Wipe
  <2>. QED  BY <1>9, <2>1, TokensKept, Constants DEF Wipe, StoredType, PartsType
<1>. QED  BY <1>3, <1>4, <1>5, <1>6, <1>7, <1>8, <1>9

LEMMA FaultsTyped ==
    ASSUME PartsType, Fault
    PROVE  PartsType'
<1>. USE DEF redis, database, process, history
<1>. ProcessType /\ StoredType /\ TokenType
  BY DEF PartsType
<1>. {"use", "commit"} \subseteq Labels
  BY DEF Labels
<1>1. ASSUME faults < Faults, faults' = faults + 1 PROVE faults' \in 0 .. Faults
  BY <1>1, Constants DEF StoredType
<1>2. CASE LoseHash
  BY <1>1, <1>2, Constants DEF LoseHash, ProcessType, StoredType, TokenType, Tokens, PartsType
<1>3. ASSUME NEW t \in Tokens, LoseToken(t) PROVE PartsType'
  BY <1>1, <1>3 DEF LoseToken, ProcessType, StoredType, TokenType, Tokens, PartsType
<1>4. ASSUME NEW p \in Processes, FailRead(p) PROVE PartsType'
  <2>1. ProcessType'
    BY <1>4, Stepping, Constants DEF FailRead, ProcessType
  <2>. QED  BY <1>1, <1>4, <2>1 DEF FailRead, StoredType, TokenType, Tokens, PartsType
<1>5. ASSUME NEW p \in Processes,
             \/ \E l : End(p, l)
             \/ \E l, m : m \in Labels /\ Step(p, l, m) /\ UNCHANGED <<kind, goal, got, fresh, late>>,
             UNCHANGED <<redis, database, made>>, faults' \in 0 .. Faults
      PROVE  PartsType'
  <2>1. ProcessType' /\ late' \subseteq late /\ (fresh' = fresh \/ fresh' = [fresh EXCEPT ![p] = {}])
    <3>1. CASE \E l : End(p, l)
      BY <3>1, Ended
    <3>2. CASE \E l, m : m \in Labels /\ Step(p, l, m) /\ UNCHANGED <<kind, goal, got, fresh, late>>
      BY <3>2, Stepping DEF ProcessType
    <3>. QED  BY <1>5, <3>1, <3>2
  <2>2. TokenType'
    BY <1>5, <2>1, TokensKept
  <2>. QED  BY <1>5, <2>1, <2>2 DEF StoredType, PartsType
<1>6. ASSUME NEW p \in Processes, FailToken(p) PROVE PartsType'
  BY <1>5, <1>6 DEF FailToken, StoredType
<1>7. ASSUME NEW p \in Processes, FailWrite(p) PROVE PartsType'
  <2>1. PICK l : IF kind[p] \in Rounds \cup {"refresh"}
                 THEN Step(p, l, "commit") /\ UNCHANGED <<kind, goal, got, fresh, late>>
                 ELSE End(p, l)
    BY <1>7 DEF FailWrite
  <2>. QED  BY <1>1, <1>5, <1>7, <2>1 DEF FailWrite
<1>. QED  BY <1>2, <1>3, <1>4, <1>6, <1>7 DEF Fault

LEMMA TypeInit == Init => TypeOK
<1>. SUFFICES ASSUME Init PROVE TypeOK
  OBVIOUS
<1>1. ProcessType
  BY Constants DEF Init, ProcessType, Labels, Kinds
<1>2. StoredType
  BY Constants DEF Init, StoredType, Statuses
<1>3. TokenType
  <2>1. made = <<>> /\ Len(made) = 0 /\ made \in Seq(1 .. Songs)
    BY DEF Init
  <2>. QED  BY <2>1, Constants DEF Init, TokenType, Tokens
<1>4. FlagType
  BY Zenon DEF Init, FlagType
<1>. QED  BY <1>1, <1>2, <1>3, <1>4, TypeParts

LEMMA PartsStep ==
    ASSUME PartsType, [Next]_vars
    PROVE  PartsType'
<1>1. CASE UNCHANGED vars
  BY <1>1 DEF vars, redis, database, process, history, ProcessType, StoredType, TokenType, Tokens,
              PartsType
<1>2. CASE Next
  BY <1>2, RequestsTyped, ReadsTyped, WritesTyped, FaultsTyped, Constants DEF Next, Work
<1>. QED  BY <1>1, <1>2

(* What Redis, the row and the handlers hold keeps its type: the index of the row never *)
(* leaves the list, and every url that is stored was made, or names the test audio.     *)
THEOREM PlaybackTyped == Spec => []TypeOK
<1>1. TypeOK /\ [Next]_vars => TypeOK'
  <2>1. ASSUME PartsType', FlagType' PROVE TypeOK'
    BY Zenon, <2>1 DEF TypeOK, PartsType, ProcessType, StoredType, FlagType, TokenType
  <2>. QED  BY <2>1, TypeParts, PartsStep, FlagsTyped DEF PartsType
<1>. QED  BY TypeInit, <1>1, PTL DEF Spec

-----------------------------------------------------------------------------
(* HashExpires.  The two labels after a write of the hash are left by setting the time *)
(* to live, or by an error of Redis.                                                   *)
Expiring == {p \in Processes : pc[p] \in {"expire", "refillTtl"}}

(* A step that changes neither the hash nor its time to live. *)
LEMMA HashAlone ==
    ASSUME HashExpires, hash' = hash, ttl' = ttl, faults' = 0 => faults = 0,
           Expiring \subseteq Expiring'
    PROVE  HashExpires'
BY Zenon DEF HashExpires, Expiring

LEMMA ExpiresStep ==
    ASSUME PartsType, HashExpires, [Next]_vars
    PROVE  HashExpires'
<1>. USE DEF redis, database, process, history
<1>. ProcessType
  BY DEF PartsType
<1>1. ASSUME NEW p \in Processes, pc[p] \notin {"expire", "refillTtl"},
             \A q \in Processes : q # p => pc'[q] = pc[q]
      PROVE  Expiring \subseteq Expiring'
  BY <1>1 DEF Expiring
<1>2. ASSUME NEW p \in Processes, NEW l, NEW m, l \notin {"expire", "refillTtl"}, Step(p, l, m)
      PROVE  Expiring \subseteq Expiring'
  <2>1. pc[p] = l /\ \A q \in Processes : q # p => pc'[q] = pc[q]
    BY <1>2 DEF Step, ProcessType
  <2>. QED  BY <1>1, <1>2, <2>1
<1>3. CASE UNCHANGED vars
  BY <1>3, HashAlone DEF vars, Expiring
<1>4. ASSUME NEW p \in Processes, Event(p) \/ RoundEvent(p) \/ Request(p)
      PROVE  HashExpires'
  <2>1. hash' = hash /\ ttl' = ttl /\ faults' = faults
    BY <1>4 DEF Event, RoundEvent, Request, Start, Skip, Refresh, SetTest, AutoSetup, Dissolve,
                Receive
  <2>2. \E m : Step(p, "idle", m)
    BY <1>4 DEF Event, RoundEvent, Request, Start, Skip, Refresh, SetTest, AutoSetup, Dissolve,
                Receive
  <2>. QED  BY <1>2, <2>1, <2>2, HashAlone
<1>5. ASSUME NEW p \in Processes,
             \/ Get(p) \/ Load(p) \/ Default(p) \/ Close(p) \/ Control(p) \/ WriteBack(p)
             \/ Leave(p) \/ Token(p) \/ NextAudio(p) \/ Save(p) \/ Commit(p)
      PROVE  HashExpires'
  <2>1. hash' = hash /\ ttl' = ttl /\ faults' = faults
    BY <1>5 DEF Get, Load, Default, Close, Control, WriteBack, Leave, Token, NextAudio, Save, Commit
  <2>2. \E l, m : l \notin {"expire", "refillTtl"} /\ Step(p, l, m)
    BY <1>5 DEF Get, Load, Default, Close, Control, WriteBack, Leave, Token, NextAudio, Save,
                Commit, End, Step
  <2>. QED  BY <1>2, <2>1, <2>2, HashAlone
<1>6. ASSUME NEW p \in Processes, Refill(p) \/ Hset(p) PROVE HashExpires'
  <2>1. pc'[p] \in {"expire", "refillTtl"}
    BY <1>6 DEF Refill, Hset, Step, ProcessType
  <2>. QED  BY <2>1 DEF HashExpires
<1>7. ASSUME NEW p \in Processes, RefillTtl(p) \/ Expire(p) PROVE HashExpires'
  <2>1. hash' = hash /\ (hash # Missing => ttl')
    BY <1>7, Zenon DEF RefillTtl, Expire
  <2>. QED  BY Zenon, <2>1 DEF HashExpires
<1>8. ASSUME NEW p \in Processes, Wipe(p) \/ LoseHash PROVE HashExpires'
  BY <1>8 DEF Wipe, LoseHash, HashExpires
<1>9. ASSUME NEW t \in Tokens, LoseToken(t) PROVE HashExpires'
  BY <1>9 DEF LoseToken, HashExpires, PartsType, StoredType
<1>10. ASSUME NEW p \in Processes, FailRead(p) \/ FailWrite(p) PROVE HashExpires'
  <2>1. faults' # 0
    BY <1>10 DEF FailRead, FailWrite, PartsType, StoredType
  <2>. QED  BY <2>1 DEF HashExpires
<1>11. ASSUME NEW p \in Processes, FailToken(p) PROVE HashExpires'
  <2>1. hash' = hash /\ ttl' = ttl /\ faults' = faults
    BY <1>11 DEF FailToken
  <2>2. \E l, m : l \notin {"expire", "refillTtl"} /\ Step(p, l, m)
    BY <1>11 DEF FailToken, End, Step
  <2>. QED  BY <1>2, <2>1, <2>2, HashAlone
<1>. QED  BY <1>3, <1>4, <1>5, <1>6, <1>7, <1>8, <1>9, <1>10, <1>11, Constants
          DEF Next, Work, Fault

(* As long as Redis makes no error, no playback stays in it for ever: not even one that *)
(* a handler writes when the room is gone (set_room_playback_state, the refill in       *)
(* get_room_playback_state), for any number of handlers.                                *)
THEOREM HashesExpire == Spec => []HashExpires
<1>1. Init => PartsType /\ HashExpires
  BY TypeInit, TypeParts DEF PartsType, Init, HashExpires
<1>2. PartsType /\ HashExpires /\ [Next]_vars => PartsType' /\ HashExpires'
  BY PartsStep, ExpiresStep
<1>. QED  BY <1>1, <1>2, PTL DEF Spec

-----------------------------------------------------------------------------
(* Tokens are only added, and keep their songs. *)
Extends == Tokens \subseteq Tokens' /\ \A u \in Tokens : made'[u] = made[u]

LEMMA MadeExtends ==
    ASSUME PartsType, [Next]_vars
    PROVE  Extends
<1>. USE DEF redis, database, process, history
<1>. ProcessType /\ StoredType /\ TokenType
  BY DEF PartsType
<1>1. ASSUME made' = made PROVE Extends
  BY <1>1 DEF Extends, Tokens
<1>2. ASSUME NEW p \in Processes, NEW s \in 1 .. Songs, NEW t \in 1 .. MaxTokens, Minted(p, s, t)
      PROVE  Extends
  BY <1>2, TokenMinted DEF Extends
<1>3. ASSUME NEW p \in Processes, Default(p) PROVE Extends
  <2>1. room.index + 1 \in 1 .. Songs
    BY Constants DEF StoredType
  <2>. QED  BY <1>1, <1>2, <1>3, <2>1 DEF Default
<1>4. ASSUME NEW p \in Processes, Token(p) PROVE Extends
  <2>1. goal[p] + 1 \in 1 .. Songs
    BY Constants DEF ProcessType
  <2>. QED  BY <1>2, <1>4, <2>1 DEF Token
<1>5. ASSUME NEW p \in Processes, NextAudio(p) PROVE Extends
  <2>1. goal[p] + 2 <= Songs => goal[p] + 2 \in 1 .. Songs
    BY Constants DEF ProcessType
  <2>. QED  BY <1>1, <1>2, <1>5, <2>1 DEF NextAudio
<1>6. ASSUME NEW p \in Processes,
             \/ Event(p) \/ RoundEvent(p) \/ Request(p)
             \/ Get(p) \/ Load(p) \/ Refill(p) \/ RefillTtl(p) \/ Close(p)
             \/ Control(p) \/ WriteBack(p) \/ Leave(p) \/ Hset(p) \/ Expire(p) \/ Save(p)
             \/ Commit(p) \/ Wipe(p) \/ FailRead(p) \/ FailToken(p) \/ FailWrite(p)
      PROVE  Extends
  BY <1>1, <1>6 DEF Event, RoundEvent, Request, Start, Skip, Refresh, SetTest, AutoSetup, Dissolve,
     Receive, Get, Load, Refill, RefillTtl, Close, Control, WriteBack, Leave, Hset, Expire, Save,
     Commit, Wipe, FailRead, FailToken, FailWrite
<1>7. LoseHash \/ (\E t \in Tokens : LoseToken(t)) \/ UNCHANGED vars => Extends
  BY <1>1 DEF LoseHash, LoseToken, vars
<1>. QED  BY <1>3, <1>4, <1>5, <1>6, <1>7, Constants DEF Next, Work, Fault

-----------------------------------------------------------------------------
(* What a process handles goes with where it is.  Rounds are the owner's, a round and a *)
(* refresh have the url of their song once they made it, a process that had read when a *)
(* round was written is still at work, and a game is started in a room that waits.      *)
Making == {"next", "hset", "expire", "save", "commit"}

HandledBy(p) ==
    /\ kind[p] \in Rounds => p = Owner
    /\ kind[p] \in Rounds \cup {"refresh"} => pc[p] \in {"token"} \cup Making
    /\ kind[p] = "test" => pc[p] \in {"hset", "expire", "save"}
    /\ kind[p] = "event" => pc[p] \notin {"token", "next", "commit"}
    /\ kind[p] \in {"GAME_START", "refresh"} => goal[p] = 0
    /\ kind[p] \in Rounds \cup {"refresh"} /\ pc[p] \in Making => SongOf(got[p]) = goal[p] + 1
    /\ pc[p] = "wipe" => ~Exists
    /\ p \in late => pc[p] # "idle" /\ p # Owner

StartsWaiting == kind[Owner] = "GAME_START" => room.status # "RUNNING"

Handled == StartsWaiting /\ \A p \in Processes : HandledBy(p)

LEMMA OthersHandled ==
    ASSUME PartsType, Handled, Extends, ~Exists => ~Exists', NEW q \in Processes,
           pc'[q] = pc[q], kind'[q] = kind[q], goal'[q] = goal[q], got'[q] = got[q],
           q \in late' => q \in late \/ (pc[q] # "idle" /\ q # Owner)
    PROVE  HandledBy(q)'
<1>1. HandledBy(q) /\ goal[q] \in Nat
  BY DEF Handled, PartsType, ProcessType
<1>2. SongOf(got[q]) # 0 => SongOf(got[q])' = SongOf(got[q])
  BY DEF SongOf, Extends
<1>. QED  BY <1>1, <1>2 DEF HandledBy

(* The process that goes on, in the usual case that nobody else becomes late. *)
LEMMA StillHandled ==
    ASSUME PartsType, Handled, Extends, NEW p \in Processes, NEW m, room' = room,
           Step(p, pc[p], m), kind' = kind, goal' = goal,
           \A q \in Processes : q # p => got'[q] = got[q],
           late' \subseteq late,
           kind[p] \in Rounds \cup {"refresh"} =>
              m \in Making /\ SongOf(got[p])' = goal[p] + 1,
           kind[p] = "test" => m \in {"hset", "expire", "save"},
           kind[p] = "event" => m \notin {"token", "next", "commit", "wipe", "idle"}
    PROVE  Handled'
<1>. ProcessType
  BY DEF PartsType
<1>1. pc'[p] = m /\ \A q \in Processes : q # p => pc'[q] = pc[q]
  BY DEF Step, ProcessType
<1>2. \A q \in Processes : q # p => HandledBy(q)'
  BY <1>1, OthersHandled DEF Exists
<1>3. HandledBy(p)'
  <2>1. HandledBy(p) /\ kind[p] \in Kinds
    BY DEF Handled, ProcessType
  <2>2. m # "wipe" /\ m # "idle"
    BY <2>1 DEF Kinds, Making
  <2>3. pc[p] # "idle" \/ p \notin late'
    BY <2>1 DEF HandledBy
  <2>. QED  BY <1>1, <2>1, <2>2, <2>3 DEF HandledBy, Exists, Making
<1>. QED  BY <1>2, <1>3 DEF Handled, StartsWaiting

LEMMA EndHandled ==
    ASSUME PartsType, Handled, Extends, NEW p \in Processes, NEW l, End(p, l),
           ~Exists => ~Exists',
           room'.status = "RUNNING" => room.status = "RUNNING" \/ kind[p] = "GAME_START"
    PROVE  Handled'
<1>. ProcessType
  BY DEF PartsType
<1>1. /\ pc'[p] = "idle" /\ kind'[p] = "event" /\ late' = late \ {p}
      /\ \A q \in Processes : q # p => pc'[q] = pc[q] /\ kind'[q] = kind[q]
                                       /\ goal'[q] = goal[q] /\ got'[q] = got[q]
  BY Ended
<1>2. \A q \in Processes : q # p => HandledBy(q)'
  BY <1>1, OthersHandled
<1>3. HandledBy(p)'
  BY <1>1 DEF HandledBy, Rounds
<1>4. StartsWaiting'
  <2>1. Owner \in Processes /\ (kind[p] = "GAME_START" => p = Owner)
    BY Constants DEF Handled, HandledBy, Rounds
  <2>. QED  BY <1>1, <2>1 DEF Handled, StartsWaiting
<1>. QED  BY <1>2, <1>3, <1>4 DEF Handled

LEMMA BeginHandled ==
    ASSUME PartsType, Handled, Extends, NEW p \in Processes,
           \/ p \in Players /\ Event(p)
           \/ p = Owner /\ RoundEvent(p)
           \/ p \in Requests /\ Request(p)
    PROVE  Handled'
<1>. USE DEF redis, database, process, history
<1>. ProcessType
  BY DEF PartsType
<1>1. ASSUME NEW k \in Kinds, NEW a \in 0 .. Songs - 1, NEW s \in States, NEW m \in Labels,
             Receive(p, k, a, s, m),
             \/ k = "event" /\ m = "get"
             \/ k \in Rounds /\ m = "token" /\ p = Owner
             \/ k = "refresh" /\ m = "token"
             \/ k = "test" /\ m = "hset",
             k \in {"GAME_START", "refresh"} => a = 0,
             k = "GAME_START" => room.status # "RUNNING"
      PROVE  Handled'
  <2>1. /\ pc[p] = "idle" /\ pc'[p] = m /\ kind'[p] = k /\ goal'[p] = a
        /\ \A q \in Processes : q # p => pc'[q] = pc[q] /\ kind'[q] = kind[q]
                                         /\ goal'[q] = goal[q] /\ got'[q] = got[q]
        /\ room' = room /\ late' = late
    BY <1>1, Received
  <2>2. \A q \in Processes : q # p => HandledBy(q)'
    BY <2>1, OthersHandled DEF Exists
  <2>3. p \notin late
    BY <2>1 DEF Handled, HandledBy
  <2>4. HandledBy(p)'
    BY <1>1, <2>1, <2>3 DEF HandledBy, Rounds, Making
  <2>5. StartsWaiting'
    BY <1>1, <2>1, Constants DEF Handled, StartsWaiting
  <2>. QED  BY <2>2, <2>4, <2>5 DEF Handled
<1>2. /\ {"event", "GAME_START", "SKIP_ROUND", "refresh", "test"} \subseteq Kinds
      /\ {"get", "token", "hset"} \subseteq Labels
      /\ {"GAME_START", "SKIP_ROUND"} \subseteq Rounds
  BY DEF Kinds, Rounds, Labels
<1>3. room.index + 1 < Songs => room.index + 1 \in 0 .. Songs - 1
  BY Constants DEF StoredType, PartsType
<1>4. CASE Event(p)
  BY <1>1, <1>2, <1>4, Constants DEF Event
<1>5. CASE p = Owner /\ Start(p)
  BY <1>1, <1>2, <1>5, Constants DEF Start
<1>6. CASE p = Owner /\ Skip(p)
  BY <1>1, <1>2, <1>3, <1>6, Constants DEF Skip
<1>7. CASE Refresh(p)
  BY <1>1, <1>2, <1>7, Constants DEF Refresh
<1>8. CASE SetTest(p) \/ AutoSetup(p)
  BY <1>1, <1>2, <1>8, Constants DEF SetTest, AutoSetup
<1>9. CASE Dissolve(p)
  <2>1. /\ pc[p] = "idle" /\ pc'[p] = "wipe" /\ \A q \in Processes : q # p => pc'[q] = pc[q]
        /\ kind' = kind /\ goal' = goal /\ got' = got /\ late' = late
        /\ room'.status = "DISSOLVED"
    BY <1>9, Stepping DEF Dissolve, Labels
  <2>2. \A q \in Processes : q # p => HandledBy(q)'
    BY <2>1, OthersHandled DEF Exists
  <2>3. kind[p] = "event" /\ p \notin late
    <3>1. HandledBy(p) /\ kind[p] \in Kinds
      BY DEF Handled, ProcessType
    <3>. QED  BY <2>1, <3>1 DEF HandledBy, Kinds, Making
  <2>4. HandledBy(p)'
    BY <2>1, <2>3 DEF HandledBy, Rounds, Exists
  <2>. QED  BY <2>1, <2>2, <2>4 DEF Handled, StartsWaiting
<1>. QED  BY <1>4, <1>5, <1>6, <1>7, <1>8, <1>9 DEF RoundEvent, Request

LEMMA WorkHandled ==
    ASSUME PartsType, Handled, Extends, NEW p \in Processes, Work(p)
    PROVE  Handled'
<1>. USE DEF redis, database, process, history
<1>. ProcessType /\ StoredType /\ TokenType
  BY DEF PartsType
<1>1. HandledBy(p) /\ kind[p] \in Kinds /\ goal[p] \in 0 .. Songs - 1
  BY DEF Handled, ProcessType
<1>2. SongOf(got[p]) # 0 /\ got'[p] = got[p] => SongOf(got[p])' = SongOf(got[p])
  BY DEF SongOf, Extends
<1>3. CASE Get(p)
  <2>1. \E m \in {"load", "use"} : Step(p, pc[p], m)
    BY <1>3 DEF Get, Step
  <2>2. kind[p] = "event"
    BY <1>1, <1>3 DEF Get, Step, HandledBy, Kinds, Making
  <2>. QED  BY <1>3, <2>1, <2>2, StillHandled DEF Get, Rounds, ProcessType
<1>4. CASE Load(p)
  <2>1. \E m \in {"default", "refill"} : Step(p, pc[p], m)
    BY <1>4 DEF Load, Step
  <2>2. kind[p] = "event"
    BY <1>1, <1>4 DEF Load, Step, HandledBy, Kinds, Making
  <2>. QED  BY <1>4, <2>1, <2>2, StillHandled DEF Load, Rounds, ProcessType
<1>5. CASE Refill(p) \/ RefillTtl(p) \/ Close(p) \/ WriteBack(p)
  <2>1. \E m \in {"refillTtl", "use", "hset"} : Step(p, pc[p], m)
    BY <1>5 DEF Refill, RefillTtl, Close, WriteBack, Step
  <2>2. kind[p] = "event"
    BY <1>1, <1>5 DEF Refill, RefillTtl, Close, WriteBack, Step, HandledBy, Kinds, Making
  <2>3. kind' = kind /\ goal' = goal /\ got' = got /\ late' = late /\ room' = room
    BY <1>5 DEF Refill, RefillTtl, Close, WriteBack
  <2>. QED  BY <2>1, <2>2, <2>3, StillHandled DEF Rounds
<1>6. CASE Default(p)
  <2>1. \E m \in {"close", "use"} : Step(p, pc[p], m)
    BY <1>6 DEF Default, Step
  <2>2. kind[p] = "event"
    BY <1>1, <1>6 DEF Default, HandledBy, Kinds, Making
  <2>3. kind' = kind /\ goal' = goal /\ late' = late /\ room' = room
        /\ \A q \in Processes : q # p => got'[q] = got[q]
    BY <1>6 DEF Default, ProcessType
  <2>. QED  BY <2>1, <2>2, <2>3, StillHandled DEF Rounds
<1>7. CASE Control(p)
  <2>1. kind[p] = "event" /\ Step(p, pc[p], "hset")
    BY <1>7 DEF Control, Step
  <2>2. kind' = kind /\ goal' = goal /\ late' = late /\ room' = room
        /\ \A q \in Processes : q # p => got'[q] = got[q]
    BY <1>7 DEF Control, ProcessType
  <2>. QED  BY <2>1, <2>2, StillHandled DEF Rounds
<1>8. CASE Leave(p) \/ Wipe(p)
  BY <1>8, EndHandled DEF Leave, Wipe, Exists
<1>9. CASE Token(p)
  <2>1. PICK t \in 1 .. MaxTokens : Minted(p, goal[p] + 1, t) /\ got' = [got EXCEPT ![p] = t]
    BY <1>9 DEF Token
  <2>2. goal[p] + 1 \in 1 .. Songs
    BY <1>1, Constants
  <2>3. got'[p] = t /\ t \in Tokens' /\ made'[t] = goal[p] + 1
    BY <2>1, <2>2, TokenMinted DEF ProcessType
  <2>4. SongOf(got[p])' = goal[p] + 1
    BY <2>3 DEF SongOf
  <2>5. \E m \in {"next", "hset"} : Step(p, pc[p], m)
    BY <1>9 DEF Token, Step
  <2>6. kind[p] \in Rounds \cup {"refresh"}
    BY <1>1, <1>9 DEF Token, Step, HandledBy, Kinds
  <2>. QED  BY <1>9, <2>1, <2>4, <2>5, <2>6, StillHandled DEF Token, Making, Rounds, ProcessType
<1>10. CASE NextAudio(p)
  <2>1. Step(p, pc[p], "hset") /\ pc[p] = "next"
    BY <1>10 DEF NextAudio, Step
  <2>2. kind[p] \in Rounds \cup {"refresh"}
    BY <1>1, <2>1 DEF HandledBy, Kinds
  <2>3. SongOf(got[p])' = goal[p] + 1
    BY <1>1, <1>2, <1>10, <2>1, <2>2 DEF NextAudio, HandledBy, Making
  <2>. QED  BY <1>10, <2>1, <2>2, <2>3, StillHandled DEF NextAudio, Making, Rounds
<1>11. CASE Hset(p) /\ kind[p] \in Rounds
  <2>1. /\ pc[p] = "hset" /\ pc'[p] = "expire" /\ \A q \in Processes : q # p => pc'[q] = pc[q]
        /\ kind' = kind /\ goal' = goal /\ got' = got /\ room' = room
        /\ late' = {q \in Processes \ {p} : pc[q] \notin {"idle", "get"}}
    BY <1>11, Stepping DEF Hset, Labels
  <2>2. p = Owner
    BY <1>1, <1>11 DEF HandledBy
  <2>3. \A q \in Processes : q # p => HandledBy(q)'
    BY <2>1, <2>2, OthersHandled DEF Exists
  <2>4. SongOf(got[p])' = goal[p] + 1
    BY <1>1, <1>2, <1>11, <2>1 DEF HandledBy, Making
  <2>5. HandledBy(p)'
    BY <1>1, <1>11, <2>1, <2>2, <2>4 DEF HandledBy, Making, Rounds
  <2>. QED  BY <2>1, <2>3, <2>5 DEF Handled, StartsWaiting
<1>12. CASE (Hset(p) /\ kind[p] \notin Rounds) \/ Expire(p)
  <2>1. \E m \in {"expire", "save"} : Step(p, pc[p], m) /\ pc[p] \in {"hset", "expire"}
    BY <1>12 DEF Hset, Expire, Step
  <2>2. kind' = kind /\ goal' = goal /\ got' = got /\ room' = room /\ late' = late
    BY <1>12 DEF Hset, Expire
  <2>3. kind[p] \in Rounds \cup {"refresh"} => SongOf(got[p])' = goal[p] + 1
    BY <1>1, <1>2, <2>1, <2>2 DEF HandledBy, Making
  <2>. QED  BY <2>1, <2>2, <2>3, StillHandled DEF Making
<1>13. CASE Save(p)
  <2>1. CASE kind[p] \in Rounds \cup {"refresh"}
    <3>1. /\ Step(p, pc[p], "commit") /\ pc[p] = "save" /\ UNCHANGED <<kind, goal, got, late, room>>
      BY <1>13, <2>1 DEF Save, Step
    <3>2. SongOf(got[p])' = goal[p] + 1
      BY <1>1, <1>2, <2>1, <3>1 DEF HandledBy, Making
    <3>. QED  BY <2>1, <3>1, <3>2, StillHandled DEF Making, Rounds
  <2>2. CASE kind[p] \notin Rounds \cup {"refresh"}
    BY <1>13, <2>2, EndHandled DEF Save, Exists
  <2>. QED  BY <2>1, <2>2
<1>14. CASE Commit(p)
  <2>1. /\ room'.status = "RUNNING" => room.status = "RUNNING" \/ kind[p] = "GAME_START"
        /\ ~Exists => ~Exists'
    BY <1>14 DEF Commit, StoredType, Exists
  <2>. QED  BY <1>14, <2>1, EndHandled DEF Commit
<1>. QED  BY <1>3, <1>4, <1>5, <1>6, <1>7, <1>8, <1>9, <1>10, <1>11, <1>12, <1>13, <1>14 DEF Work

LEMMA FaultHandled ==
    ASSUME PartsType, Handled, Extends, Fault
    PROVE  Handled'
<1>. USE DEF redis, database, process, history
<1>. ProcessType /\ StoredType /\ TokenType
  BY DEF PartsType
<1>1. ASSUME UNCHANGED <<room, pc, kind, goal, got, late>> PROVE Handled'
  BY <1>1, OthersHandled DEF Handled, StartsWaiting, Exists
<1>2. CASE LoseHash \/ \E t \in Tokens : LoseToken(t)
  BY <1>1, <1>2 DEF LoseHash, LoseToken
<1>3. ASSUME NEW p \in Processes, FailRead(p) PROVE Handled'
  <2>1. PICK l \in {"get", "refill", "refillTtl"} : Step(p, l, "use")
    BY <1>3 DEF FailRead
  <2>2. HandledBy(p) /\ pc[p] = l /\ kind[p] \in Kinds
    BY <2>1 DEF Handled, Step, ProcessType
  <2>3. kind[p] = "event"
    BY <2>1, <2>2 DEF HandledBy, Kinds, Making
  <2>. QED  BY <1>3, <2>1, <2>2, <2>3, StillHandled DEF FailRead, Rounds, ProcessType
<1>4. ASSUME NEW p \in Processes, FailToken(p) PROVE Handled'
  <2>1. CASE End(p, pc[p])
    BY <1>4, <2>1, EndHandled DEF FailToken, Exists
  <2>2. CASE Step(p, "default", "use") /\ UNCHANGED <<kind, goal, got, late>>
    <3>1. HandledBy(p) /\ pc[p] = "default" /\ kind[p] \in Kinds
      BY <2>2 DEF Handled, Step, ProcessType
    <3>2. kind[p] = "event"
      BY <3>1 DEF HandledBy, Kinds, Making
    <3>. QED  BY <1>4, <2>2, <3>1, <3>2, StillHandled DEF FailToken, Rounds
  <2>. QED  BY <1>4, <2>1, <2>2 DEF FailToken
<1>5. ASSUME NEW p \in Processes, FailWrite(p) PROVE Handled'
  <2>1. PICK l \in {"hset", "expire"} :
           IF kind[p] \in Rounds \cup {"refresh"}
           THEN Step(p, l, "commit") /\ UNCHANGED <<kind, goal, got, fresh, late>>
           ELSE End(p, l)
    BY <1>5 DEF FailWrite
  <2>2. CASE kind[p] \in Rounds \cup {"refresh"}
    <3>1. HandledBy(p) /\ pc[p] = l /\ goal[p] \in Nat /\ Step(p, pc[p], "commit")
          /\ UNCHANGED <<kind, goal, got, late, room>>
      BY <1>5, <2>1, <2>2 DEF Handled, Step, ProcessType, FailWrite
    <3>2. SongOf(got[p]) = goal[p] + 1
      BY <2>2, <3>1 DEF HandledBy, Making
    <3>3. SongOf(got[p])' = goal[p] + 1
      BY <3>1, <3>2 DEF SongOf, Extends
    <3>. QED  BY <2>2, <3>1, <3>3, StillHandled DEF Making, Rounds
  <2>3. CASE kind[p] \notin Rounds \cup {"refresh"}
    BY <1>5, <2>1, <2>3, EndHandled DEF FailWrite, Exists
  <2>. QED  BY <2>2, <2>3
<1>. QED  BY <1>2, <1>3, <1>4, <1>5 DEF Fault

LEMMA HandledStep ==
    ASSUME PartsType, Handled, [Next]_vars
    PROVE  Handled'
<1>1. Extends
  BY MadeExtends
<1>2. CASE UNCHANGED vars
  BY <1>2 DEF vars, process, database, history, Handled, HandledBy, StartsWaiting, SongOf, Tokens, Exists
<1>. QED  BY <1>1, <1>2, BeginHandled, WorkHandled, FaultHandled, Constants DEF Next

LEMMA HandledInit == Init => Handled
BY Constants DEF Init, Handled, HandledBy, StartsWaiting, Rounds, Making

-----------------------------------------------------------------------------
(* PlaysIndexed and RecoversIndexed.  From the write of its playback to the commit of   *)
(* its index a round is written in part: what plays is then ahead of the row.  As long  *)
(* as nothing spoiled the round, the hash names its song, the snapshot does so once it  *)
(* was saved, and everybody who read since holds a state of this round.                 *)
Written == kind[Owner] \in Rounds /\ pc[Owner] \in {"expire", "save", "commit"}

Saving == Written /\ pc[Owner] # "commit"

Current == IF Written THEN goal[Owner] + 1 ELSE room.index + 1

OnAir ==
    /\ ~spoiled
    /\ \/ room.status = "RUNNING"
       \/ room.status = "WAITING" /\ Written /\ kind[Owner] = "GAME_START"

OfThisRound(p) ==
    /\ kind[p] = "event" /\ pc[p] \notin {"idle", "get", "load", "wipe"} =>
          pc[p] \notin {"default", "close"} /\ SongOf(got[p]) = Current
    /\ kind[p] = "event" /\ pc[p] = "load" => ~Saving
    /\ kind[p] = "test" => pc[p] = "hset"
    /\ kind[p] = "refresh" => Current = 1

HashOfRound == (hash = Missing \/ SongOf(hash) = Current) /\ (Saving => hash # Missing)

SnapOfRound == Saving \/ SongOf(snap) = Current

AirInv ==
    OnAir => HashOfRound /\ SnapOfRound /\ \A p \in Processes \ late : OfThisRound(p)

LEMMA CurrentIsSong == ASSUME PartsType PROVE Current \in 1 .. Songs
<1>1. room.index + 1 \in 1 .. Songs /\ goal[Owner] + 1 \in 1 .. Songs
  BY Constants DEF PartsType, StoredType, ProcessType
<1>. QED  BY <1>1 DEF Current

(* The round is the same after a step as before. *)
SameRound ==
    /\ OnAir' => OnAir
    /\ Written' <=> Written
    /\ Saving' <=> Saving
    /\ Current' = Current

LEMMA OthersOfRound ==
    ASSUME PartsType, Extends, Current' = Current, Saving' => Saving,
           NEW q \in Processes, OfThisRound(q),
           pc'[q] = pc[q], kind'[q] = kind[q], got'[q] = got[q]
    PROVE  OfThisRound(q)'
<1>1. Current \in 1 .. Songs
  BY CurrentIsSong
<1>2. SongOf(got[q]) = Current => SongOf(got[q])' = Current
  BY <1>1, Constants DEF SongOf, Extends
<1>. QED  BY <1>2 DEF OfThisRound

LEMMA AirKept ==
    ASSUME PartsType, AirInv, Extends, SameRound, NEW p \in Processes,
           \A q \in Processes : q # p => /\ pc'[q] = pc[q] /\ kind'[q] = kind[q]
                                         /\ got'[q] = got[q]
                                         /\ q \in late => q \in late',
           OnAir' => hash' = hash \/ SongOf(hash)' = Current \/ (hash' = Missing /\ ~Saving),
           OnAir' => snap' = snap \/ SongOf(snap)' = Current,
           OnAir' /\ p \notin late' => OfThisRound(p)'
    PROVE  AirInv'
<1>. SUFFICES ASSUME OnAir'
              PROVE  (HashOfRound /\ SnapOfRound /\ \A q \in Processes \ late : OfThisRound(q))'
  BY DEF AirInv
<1>1. Current \in 1 .. Songs /\ OnAir
  BY CurrentIsSong DEF SameRound
<1>2. SongOf(hash) = Current => SongOf(hash)' = Current \/ hash' # hash
  BY <1>1, Constants DEF SongOf, Extends
<1>3. SongOf(snap) = Current => SongOf(snap)' = Current \/ snap' # snap
  BY <1>1, Constants DEF SongOf, Extends
<1>4. SongOf(hash)' = Current => hash' # Missing
  BY <1>1, Constants DEF SongOf, Tokens, Missing
<1>5. HashOfRound'
  BY <1>1, <1>2, <1>4 DEF AirInv, HashOfRound, SameRound
<1>6. SnapOfRound'
  BY <1>1, <1>3 DEF AirInv, SnapOfRound, SameRound
<1>7. ASSUME NEW q \in Processes, q \notin late' PROVE OfThisRound(q)'
  <2>1. CASE q = p
    BY <1>7, <2>1
  <2>2. CASE q # p
    <3>1. OfThisRound(q)
      BY <1>1, <1>7, <2>2 DEF AirInv
    <3>. QED  BY <2>2, <3>1, OthersOfRound DEF SameRound
  <2>. QED  BY <2>1, <2>2
<1>. QED  BY <1>5, <1>6, <1>7

(* A process that writes no round, or makes the token of one, leaves the round as it is. *)
LEMMA RoundKept ==
    ASSUME PartsType, NEW p \in Processes, room' = room, ~spoiled' => ~spoiled,
           \A q \in Processes : q # p => pc'[q] = pc[q] /\ kind'[q] = kind[q] /\ goal'[q] = goal[q],
           \/ p # Owner
           \/ /\ kind[p] \notin Rounds \/ pc[p] \notin {"expire", "save", "commit"}
              /\ kind'[p] \notin Rounds \/ pc'[p] \notin {"expire", "save", "commit"}
           \/ /\ kind'[p] = kind[p] /\ goal'[p] = goal[p]
              /\ pc[p] = "expire" /\ pc'[p] = "save"
    PROVE  SameRound
<1>. Owner \in Processes
  BY Constants
<1>1. (Written' <=> Written) /\ (Saving' <=> Saving)
  BY DEF Written, Saving
<1>2. Written => kind'[Owner] = kind[Owner] /\ goal'[Owner] = goal[Owner]
  BY DEF Written
<1>. QED  BY <1>1, <1>2 DEF SameRound, OnAir, Current

LEMMA TokenSongs == ASSUME TokenType PROVE \A u \in Tokens : made[u] \in 1 .. Songs
BY PlaybackAssumption DEF TokenType, Tokens

LEMMA OffAir == ASSUME ~OnAir' PROVE AirInv'
BY DEF AirInv

LEMMA SpoiledOffAir == ASSUME spoiled' PROVE AirInv'
BY Zenon DEF AirInv, OnAir

LEMMA BeginOnAir ==
    ASSUME PartsType, Handled, AirInv, Extends, NEW p \in Processes,
           \/ p \in Players /\ Event(p)
           \/ p = Owner /\ RoundEvent(p)
           \/ p \in Requests /\ Request(p)
    PROVE  AirInv'
<1>. USE DEF redis, database, process, history
<1>. ProcessType /\ Owner \in Processes
  BY Constants DEF PartsType
<1>1. ASSUME NEW k \in Kinds, NEW a \in 0 .. Songs - 1, NEW s \in States, NEW m \in Labels,
             Receive(p, k, a, s, m),
             \/ k = "event" /\ m = "get"
             \/ k \in Rounds /\ m = "token"
             \/ k = "refresh" /\ m = "token" /\ room.status = "WAITING"
             \/ k = "test" /\ m = "hset"
      PROVE  AirInv'
  <2>1. /\ pc[p] = "idle" /\ pc'[p] = m /\ kind'[p] = k
        /\ \A q \in Processes : q # p => pc'[q] = pc[q] /\ kind'[q] = kind[q]
                                         /\ goal'[q] = goal[q] /\ got'[q] = got[q]
        /\ room' = room /\ late' = late /\ spoiled' = spoiled /\ hash' = hash /\ snap' = snap
    BY <1>1, Received
  <2>2. SameRound
    BY <1>1, <2>1, RoundKept
  <2>3. ASSUME OnAir', k = "refresh" PROVE Current' = 1
    <3>1. OnAir /\ room.status = "WAITING"
      BY <1>1, <2>2, <2>3 DEF SameRound, Rounds
    <3>2. Written /\ kind[Owner] = "GAME_START"
      BY <3>1 DEF OnAir
    <3>3. goal[Owner] = 0
      BY <3>2 DEF Handled, HandledBy
    <3>4. Current = 1
      BY <3>2, <3>3 DEF Current
    <3>. QED  BY <2>2, <3>4 DEF SameRound
  <2>4. OnAir' => OfThisRound(p)'
    BY <1>1, <2>1, <2>3 DEF OfThisRound, Rounds
  <2>. QED  BY <2>1, <2>2, <2>4, AirKept
<1>2. /\ {"event", "GAME_START", "SKIP_ROUND", "refresh", "test"} \subseteq Kinds
      /\ {"get", "token", "hset"} \subseteq Labels
      /\ {"GAME_START", "SKIP_ROUND"} \subseteq Rounds
  BY DEF Kinds, Rounds, Labels
<1>3. room.index + 1 < Songs => room.index + 1 \in 0 .. Songs - 1
  BY Constants DEF StoredType, PartsType
<1>4. CASE Event(p)
  BY <1>1, <1>2, <1>4, Constants DEF Event
<1>5. CASE Start(p)
  BY <1>1, <1>2, <1>5, Constants DEF Start
<1>6. CASE Skip(p)
  BY <1>1, <1>2, <1>3, <1>6, Constants DEF Skip
<1>7. CASE Refresh(p)
  BY <1>1, <1>2, <1>7, Constants DEF Refresh
<1>8. CASE SetTest(p) \/ AutoSetup(p)
  BY <1>1, <1>2, <1>8, Constants DEF SetTest, AutoSetup
<1>9. CASE Dissolve(p)
  <2>1. ~OnAir'
    BY <1>9 DEF Dissolve, OnAir
  <2>. QED  BY <2>1, OffAir
<1>. QED  BY <1>4, <1>5, <1>6, <1>7, <1>8, <1>9 DEF RoundEvent, Request

(* A read gets the state of this round, and writes back no other. *)
LEMMA ReadOnAir ==
    ASSUME PartsType, Handled, AirInv, Extends, NEW p \in Processes,
           \/ Get(p) \/ Load(p) \/ Refill(p) \/ RefillTtl(p) \/ Default(p) \/ Close(p)
           \/ Control(p) \/ WriteBack(p) \/ Leave(p)
    PROVE  AirInv'
<1>. USE DEF redis, database, process, history
<1>. ProcessType /\ StoredType /\ TokenType /\ Owner \in Processes
  BY Constants DEF PartsType
<1>. {"load", "use", "default", "refill", "refillTtl", "close", "hset"} \subseteq Labels
  BY DEF Labels
<1>1. HandledBy(p) /\ kind[p] \in Kinds
  BY DEF Handled, ProcessType
<1>2. ASSUME pc[p] \in {"get", "load", "refill", "refillTtl", "default", "close", "use"}
      PROVE  kind[p] = "event"
  BY <1>1, <1>2 DEF HandledBy, Kinds, Making
<1>3. Current \in 1 .. Songs /\ Missing \notin Tokens /\ NoUrl \notin Tokens
  BY CurrentIsSong DEF Tokens, Missing, NoUrl
<1>4. SongOf(Missing) # Current /\ SongOf(NoUrl) # Current
  BY <1>3 DEF SongOf
<1>5. ASSUME NEW u, SongOf(u) = Current PROVE SongOf(u)' = Current
  BY <1>3, <1>5 DEF SongOf, Extends
<1>6. ASSUME NEW l \in {"get", "load", "refill", "refillTtl", "default", "close", "use"},
             NEW m \in Labels, Step(p, l, m), UNCHANGED <<kind, goal, room, late, snap>>,
             ~spoiled' => ~spoiled,
             \A q \in Processes : q # p => got'[q] = got[q],
             OnAir' => hash' = hash \/ SongOf(hash)' = Current,
             OnAir' /\ OnAir /\ p \notin late /\ OfThisRound(p) =>
                \/ m = "load" /\ ~Saving
                \/ m \notin {"load", "default", "close", "commit"} /\ SongOf(got[p])' = Current
      PROVE  AirInv'
  <2>1. /\ pc[p] = l /\ pc'[p] = m /\ kind[p] = "event" /\ kind'[p] = "event"
        /\ \A q \in Processes : q # p => pc'[q] = pc[q] /\ kind'[q] = kind[q] /\ goal'[q] = goal[q]
    BY <1>2, <1>6, Stepping
  <2>2. SameRound
    BY <1>6, <2>1, RoundKept DEF Rounds
  <2>3. OnAir' /\ p \notin late' => OfThisRound(p)'
    <3>. SUFFICES ASSUME OnAir', p \notin late' PROVE OfThisRound(p)'
      OBVIOUS
    <3>1. OnAir /\ p \notin late /\ OfThisRound(p)
      BY <1>6, <2>2 DEF SameRound, AirInv
    <3>. QED  BY <1>6, <2>1, <2>2, <3>1 DEF OfThisRound, SameRound
  <2>. QED  BY <1>6, <2>1, <2>2, <2>3, AirKept
<1>7. CASE Get(p)
  <2>1. got'[p] = hash /\ hash' = hash
    BY <1>7 DEF Get, ProcessType
  <2>2. OnAir /\ hash # Missing => SongOf(got[p])' = Current
    BY <1>5, <2>1 DEF AirInv, HashOfRound, SongOf
  <2>3. OnAir /\ hash = Missing => ~Saving
    BY DEF AirInv, HashOfRound
  <2>4. CASE hash = Missing
    BY <1>6, <1>7, <2>3, <2>4 DEF Get, ProcessType
  <2>5. CASE hash # Missing
    BY <1>6, <1>7, <2>2, <2>5 DEF Get, ProcessType
  <2>. QED  BY <2>4, <2>5
<1>8. CASE Load(p)
  <2>1. pc[p] = "load" /\ kind[p] = "event" /\ got'[p] = snap
    BY <1>2, <1>8 DEF Load, Step, ProcessType
  <2>2. OnAir /\ p \notin late => SongOf(snap) = Current
    BY <2>1 DEF AirInv, SnapOfRound, OfThisRound
  <2>3. OnAir /\ p \notin late => SongOf(got[p])' = Current /\ snap # Missing
    BY <1>4, <1>5, <2>1, <2>2 DEF SongOf
  <2>4. CASE snap = Missing
    BY <1>6, <1>8, <2>3, <2>4 DEF Load, ProcessType
  <2>5. CASE snap # Missing
    BY <1>6, <1>8, <2>3, <2>5 DEF Load, ProcessType
  <2>. QED  BY <2>4, <2>5
<1>9. ASSUME pc[p] \in {"refill", "refillTtl", "use"}, OnAir, p \notin late
      PROVE  SongOf(got[p]) = Current /\ got[p] # Missing /\ got[p] # NoUrl
  BY <1>2, <1>4, <1>9 DEF AirInv, OfThisRound
<1>10. CASE Refill(p)
  <2>1. /\ Step(p, "refill", "refillTtl") /\ UNCHANGED <<kind, goal, got, room, late, snap>>
        /\ hash' = Merged(hash, got[p])
    BY <1>10 DEF Refill
  <2>2. ~spoiled' => ~spoiled /\ p \notin late
    BY <1>10, Zenon DEF Refill
  <2>3. pc[p] = "refill"
    BY <2>1, Stepping
  <2>4. OnAir' => OnAir
    BY <2>1, <2>2, <2>3, Stepping, RoundKept DEF SameRound
  <2>5. OnAir' => SongOf(hash)' = Current /\ SongOf(got[p])' = Current
    <3>1. OnAir' => p \notin late
      BY <2>2 DEF OnAir
    <3>2. ASSUME OnAir' PROVE got[p] = hash' /\ SongOf(got[p]) = Current
      BY <1>9, <2>1, <2>3, <2>4, <3>1, <3>2 DEF Merged
    <3>. QED  BY <1>5, <2>1, <3>2 DEF SongOf
  <2>. QED  BY <1>6, <2>1, <2>2, <2>5
<1>11. CASE RefillTtl(p) \/ WriteBack(p)
  <2>1. \E l \in {"refillTtl", "use"}, m \in {"use", "hset"} : Step(p, l, m)
    BY <1>11 DEF RefillTtl, WriteBack
  <2>2. UNCHANGED <<kind, goal, got, room, late, snap, hash, spoiled>>
    BY <1>11 DEF RefillTtl, WriteBack
  <2>3. pc[p] \in {"refillTtl", "use"}
    BY <2>1, Stepping
  <2>4. OnAir /\ p \notin late => SongOf(got[p])' = Current
    BY <1>5, <1>9, <2>2, <2>3 DEF SongOf
  <2>. QED  BY <1>6, <2>1, <2>2, <2>4
<1>12. CASE Default(p) \/ Close(p)
  <2>1. \E l \in {"default", "close"}, m \in {"use", "close"} : Step(p, l, m)
    BY <1>12 DEF Default, Close, Step
  <2>2. UNCHANGED <<kind, goal, room, late, snap, hash, spoiled>>
        /\ \A q \in Processes : q # p => got'[q] = got[q]
    BY <1>12 DEF Default, Close, ProcessType
  <2>3. pc[p] \in {"default", "close"}
    BY <2>1, Stepping
  <2>4. ~OfThisRound(p)
    BY <1>2, <2>3 DEF OfThisRound
  <2>. QED  BY <1>6, <2>1, <2>2, <2>4
<1>13. CASE Control(p)
  <2>1. PICK u \in Named : /\ got' = [got EXCEPT ![p] = Controlled(@, u)]
                           /\ spoiled' = (spoiled \/ (u # NoUrl /\ SongOf(u) # SongOf(hash)))
    BY <1>13 DEF Control
  <2>2. /\ Step(p, "use", "hset") /\ UNCHANGED <<kind, goal, room, late, snap, hash>>
        /\ \A q \in Processes : q # p => got'[q] = got[q]
        /\ got'[p] = Controlled(got[p], u)
    BY <1>13, <2>1 DEF Control, ProcessType
  <2>3. ~spoiled' => ~spoiled /\ (u # NoUrl => SongOf(u) = SongOf(hash))
    BY <2>1, Zenon
  <2>4. pc[p] = "use"
    BY <2>2, Stepping
  <2>5. ASSUME OnAir', OnAir, p \notin late PROVE SongOf(got[p])' = Current
    <3>1. CASE u = NoUrl
      <4>1. got'[p] = got[p]
        BY <1>9, <2>2, <2>4, <2>5, <3>1 DEF Controlled
      <4>. QED  BY <1>5, <1>9, <2>4, <2>5, <4>1 DEF SongOf
    <3>2. CASE u # NoUrl
      <4>1. SongOf(u) = SongOf(hash) /\ got'[p] = u
        BY <2>2, <2>3, <2>5, <3>2 DEF Controlled, OnAir
      <4>2. u \in Tokens
        BY <3>2 DEF Named
      <4>3. SongOf(u) # SongOf(Missing)
        <5>1. made[u] \in 1 .. Songs
          BY <4>2, TokenSongs
        <5>2. SongOf(u) = made[u] /\ SongOf(Missing) = 0
          BY <1>3, <4>2 DEF SongOf
        <5>. QED  BY <5>1, <5>2, Constants
      <4>4. SongOf(u) = Current
        BY <2>5, <4>1, <4>3 DEF AirInv, HashOfRound
      <4>. QED  BY <1>5, <4>1, <4>4 DEF SongOf
    <3>. QED  BY <3>1, <3>2
  <2>. QED  BY <1>6, <2>2, <2>3, <2>5
<1>14. CASE Leave(p)
  <2>1. /\ pc[p] = "use" /\ kind[p] = "event" /\ pc'[p] = "idle" /\ kind'[p] = "event"
        /\ \A q \in Processes : q # p => pc'[q] = pc[q] /\ kind'[q] = kind[q]
                                         /\ goal'[q] = goal[q] /\ got'[q] = got[q]
        /\ late' = late \ {p} /\ UNCHANGED <<room, hash, snap, spoiled>>
    BY <1>2, <1>14, Ended DEF Leave
  <2>2. SameRound
    BY <2>1, RoundKept DEF Rounds
  <2>. QED  BY <2>1, <2>2, AirKept DEF OfThisRound
<1>. QED  BY <1>7, <1>8, <1>10, <1>11, <1>12, <1>13, <1>14

(* The write of a round makes it the one on air; other writes, if they do not spoil it, *)
(* write what it plays.                                                                 *)
LEMMA HsetOnAir ==
    ASSUME PartsType, Handled, AirInv, Extends, NEW p \in Processes, Hset(p)
    PROVE  AirInv'
<1>. USE DEF redis, database, process, history
<1>. ProcessType /\ StoredType /\ TokenType /\ Owner \in Processes
  BY Constants DEF PartsType
<1>1. /\ pc[p] = "hset" /\ pc'[p] = "expire" /\ \A q \in Processes : q # p => pc'[q] = pc[q]
      /\ kind' = kind /\ goal' = goal /\ got' = got /\ room' = room /\ snap' = snap
      /\ hash' = Merged(hash, got[p])
  BY Stepping DEF Hset, Labels
<1>2. HandledBy(p) /\ kind[p] \in Kinds /\ goal[p] \in 0 .. Songs - 1
  BY DEF Handled, ProcessType
<1>3. Current \in 1 .. Songs /\ Missing \notin Tokens /\ NoUrl \notin Tokens
  BY CurrentIsSong DEF Tokens, Missing, NoUrl
<1>4. ASSUME SongOf(got[p]) # 0 PROVE hash' # Missing /\ SongOf(hash)' = SongOf(got[p])
  BY <1>1, <1>3, <1>4 DEF SongOf, Merged, Extends
<1>5. CASE kind[p] \in Rounds
  <2>1. p = Owner /\ late' = {q \in Processes \ {p} : pc[q] \notin {"idle", "get"}}
    BY <1>2, <1>5 DEF Hset, HandledBy
  <2>2. SongOf(got[p]) = goal[p] + 1
    BY <1>1, <1>2, <1>5 DEF HandledBy, Making
  <2>3. hash' # Missing /\ SongOf(hash)' = goal[p] + 1
    BY <1>2, <1>4, <2>2
  <2>4. Written' /\ Saving' /\ Current' = goal[p] + 1
    BY <1>1, <1>5, <2>1 DEF Written, Saving, Current
  <2>5. ASSUME NEW q \in Processes, q \notin late' PROVE OfThisRound(q)'
    <3>1. CASE q = p
      BY <1>1, <1>5, <3>1 DEF OfThisRound, Rounds
    <3>2. CASE q # p
      <4>1. pc[q] \in {"idle", "get"} /\ HandledBy(q) /\ kind[q] \in Kinds
        BY <2>1, <2>5, <3>2 DEF Handled, ProcessType
      <4>2. kind[q] = "event"
        BY <4>1 DEF HandledBy, Kinds, Making
      <4>. QED  BY <1>1, <3>2, <4>1, <4>2 DEF OfThisRound
    <3>. QED  BY <3>1, <3>2
  <2>. QED  BY <2>3, <2>4, <2>5 DEF AirInv, HashOfRound, SnapOfRound
<1>6. CASE kind[p] \notin Rounds
  <2>1. late' = late /\ (~spoiled' => ~spoiled /\ p \notin late /\ kind[p] # "test")
    BY <1>6, Zenon DEF Hset, Spoils
  <2>2. SameRound
    BY <1>1, <1>6, <2>1, RoundKept
  <2>3. ASSUME OnAir' PROVE SongOf(got[p]) = Current /\ OfThisRound(p) /\ kind[p] # "test"
    <3>1. OnAir /\ p \notin late /\ kind[p] # "test"
      BY <2>1, <2>2, <2>3 DEF SameRound, OnAir
    <3>2. OfThisRound(p)
      BY <3>1 DEF AirInv
    <3>3. CASE kind[p] = "event"
      BY <1>1, <3>1, <3>2, <3>3 DEF OfThisRound
    <3>4. CASE kind[p] = "refresh"
      BY <1>1, <1>2, <3>1, <3>2, <3>4 DEF OfThisRound, HandledBy, Making
    <3>. QED  BY <1>2, <1>6, <3>1, <3>2, <3>3, <3>4 DEF Kinds
  <2>4. OnAir' => SongOf(hash)' = Current
    BY <1>3, <1>4, <2>3
  <2>5. ASSUME OnAir' PROVE OfThisRound(p)'
    <3>1. SongOf(got[p])' = Current
      BY <1>1, <1>3, <2>3, <2>5 DEF SongOf, Extends
    <3>. QED  BY <1>1, <2>2, <2>3, <2>5, <3>1 DEF OfThisRound, SameRound
  <2>. QED  BY <1>1, <2>1, <2>2, <2>4, <2>5, AirKept
<1>. QED  BY <1>5, <1>6

LEMMA SaveOnAir ==
    ASSUME PartsType, Handled, AirInv, Extends, NEW p \in Processes, Save(p)
    PROVE  AirInv'
<1>. USE DEF redis, database, process, history
<1>. ProcessType /\ StoredType /\ TokenType /\ Owner \in Processes
  BY Constants DEF PartsType
<1>1. HandledBy(p) /\ kind[p] \in Kinds /\ goal[p] \in 0 .. Songs - 1 /\ pc[p] = "save"
  BY DEF Handled, ProcessType, Save, End, Step
<1>2. Current \in 1 .. Songs
  BY CurrentIsSong
<1>3. snap' = Snapshot(p) /\ room' = room /\ hash' = hash /\ (~spoiled' => ~spoiled /\ p \notin late)
  BY Zenon DEF Save
<1>4. ASSUME NEW u, SongOf(u) = Current PROVE SongOf(u)' = Current
  BY <1>2, <1>4, Constants DEF SongOf, Extends
<1>5. OnAir' => OnAir /\ p \notin late
  <2>1. kind'[Owner] \in Rounds /\ pc'[Owner] \in {"expire", "save", "commit"}
           => kind[Owner] = kind'[Owner] /\ pc[Owner] \in {"expire", "save", "commit"}
    <3>1. CASE End(p, "save")
      BY <3>1, Ended DEF Rounds
    <3>2. CASE Step(p, "save", "commit") /\ UNCHANGED <<kind, goal, got, fresh, late>>
      BY <3>2 DEF Step, ProcessType
    <3>. QED  BY <3>1, <3>2 DEF Save
  <2>. QED  BY <1>3, <2>1 DEF OnAir, Written
<1>6. ASSUME OnAir', OnAir, p \notin late
      PROVE  SongOf(got[p]) = Current /\ SongOf(snap)' = Current
  <2>1. OfThisRound(p) /\ Exists
    BY <1>6 DEF AirInv, OnAir, Exists
  <2>2. SongOf(got[p]) = Current
    <3>1. CASE kind[p] = "event"
      BY <1>1, <2>1, <3>1 DEF OfThisRound
    <3>2. CASE kind[p] = "refresh"
      BY <1>1, <2>1, <3>2 DEF OfThisRound, HandledBy, Making
    <3>3. CASE kind[p] \in Rounds
      BY <1>1, <3>3 DEF HandledBy, Making, Current, Written
    <3>4. kind[p] # "test"
      BY <1>1, <2>1 DEF OfThisRound
    <3>. QED  BY <1>1, <3>1, <3>2, <3>3, <3>4 DEF Kinds
  <2>3. snap' = got[p]
    BY <1>3, <2>1 DEF Snapshot
  <2>. QED  BY <1>4, <2>2, <2>3 DEF SongOf
<1>7. CASE p = Owner /\ kind[p] \in Rounds
  <2>1. /\ pc'[p] = "commit" /\ kind' = kind /\ goal' = goal /\ got' = got /\ late' = late
        /\ \A q \in Processes : q # p => pc'[q] = pc[q]
    BY <1>7, Stepping DEF Save, Labels
  <2>2. Saving /\ ~Saving' /\ Current' = Current
    BY <1>1, <1>7, <2>1 DEF Saving, Written, Current
  <2>3. ASSUME OnAir' PROVE HashOfRound' /\ SnapOfRound'
    <3>1. SongOf(hash) = Current /\ SongOf(snap)' = Current
      BY <1>5, <1>6, <2>2, <2>3 DEF AirInv, HashOfRound
    <3>. QED  BY <1>3, <1>4, <2>2, <3>1 DEF HashOfRound, SnapOfRound, SongOf
  <2>4. ASSUME OnAir', NEW q \in Processes, q \notin late' PROVE OfThisRound(q)'
    <3>1. OfThisRound(q)
      BY <1>5, <2>1, <2>4 DEF AirInv
    <3>2. CASE q = p
      BY <1>7, <2>1, <3>2 DEF OfThisRound, Rounds
    <3>3. CASE q # p
      BY <2>1, <2>2, <3>1, <3>3, OthersOfRound
    <3>. QED  BY <3>2, <3>3
  <2>. QED  BY <2>3, <2>4 DEF AirInv
<1>8. CASE kind[p] \notin Rounds
  <2>1. /\ pc'[p] \in {"commit", "idle"} /\ kind'[p] \in {kind[p], "event"}
        /\ (pc'[p] = "commit" => kind[p] = "refresh" /\ kind'[p] = kind[p])
        /\ (pc'[p] = "idle" => kind'[p] = "event")
        /\ \A q \in Processes : q # p => /\ pc'[q] = pc[q] /\ kind'[q] = kind[q]
                                         /\ goal'[q] = goal[q] /\ got'[q] = got[q]
        /\ late' \in {late, late \ {p}}
    <3>1. CASE End(p, "save")
      BY <3>1, Ended
    <3>2. CASE /\ kind[p] = "refresh" /\ Step(p, "save", "commit")
               /\ UNCHANGED <<kind, goal, got, fresh, late>>
      BY <3>2, Stepping DEF Labels
    <3>. QED  BY <1>8, <3>1, <3>2 DEF Save
  <2>2. SameRound
    BY <1>3, <1>8, <2>1, RoundKept DEF Rounds
  <2>3. OnAir' => SongOf(snap)' = Current
    BY <1>5, <1>6
  <2>4. ASSUME OnAir' PROVE OfThisRound(p)'
    <3>1. OfThisRound(p) /\ (kind[p] = "refresh" => Current' = 1)
      BY <1>5, <2>2, <2>4 DEF AirInv, SameRound, OfThisRound
    <3>. QED  BY <2>1, <3>1 DEF OfThisRound
  <2>. QED  BY <1>3, <2>1, <2>2, <2>3, <2>4, AirKept
<1>. QED  BY <1>1, <1>7, <1>8 DEF HandledBy

(* The commit puts the index of the round into the row, where Current takes it from now. *)
LEMMA CommitOnAir ==
    ASSUME PartsType, Handled, AirInv, Extends, NEW p \in Processes, Commit(p)
    PROVE  AirInv'
<1>. USE DEF redis, database, process, history
<1>. ProcessType /\ StoredType /\ TokenType /\ Owner \in Processes
  BY Constants DEF PartsType
<1>1. /\ pc[p] = "commit" /\ pc'[p] = "idle" /\ kind'[p] = "event" /\ late' = late \ {p}
      /\ \A q \in Processes : q # p => /\ pc'[q] = pc[q] /\ kind'[q] = kind[q]
                                       /\ goal'[q] = goal[q] /\ got'[q] = got[q]
  BY Ended DEF Commit
<1>2. HandledBy(p) /\ kind[p] \in Kinds /\ goal[p] \in 0 .. Songs - 1
  BY DEF Handled, ProcessType
<1>3. kind[p] \in Rounds \cup {"refresh"}
  BY <1>1, <1>2 DEF HandledBy, Kinds
<1>4. /\ hash' = hash /\ snap' = snap /\ (~spoiled' => ~spoiled /\ p \notin late)
      /\ room' = IF Exists
                 THEN [room EXCEPT !.index = goal[p],
                          !.status = IF kind[p] = "GAME_START" THEN "RUNNING" ELSE @]
                 ELSE room
  BY Zenon DEF Commit
<1>5. room \in [status: Statuses, index: 0 .. Songs - 1]
  BY DEF StoredType
<1>6. ASSUME Exists
      PROVE  /\ room'.index = goal[p]
             /\ room'.status = IF kind[p] = "GAME_START" THEN "RUNNING" ELSE room.status
  BY <1>4, <1>5, <1>6
<1>7. ~Exists => ~OnAir'
  BY <1>4 DEF Exists, OnAir
<1>8. Current \in 1 .. Songs
  BY CurrentIsSong
<1>9. ASSUME NEW u, SongOf(u) = Current PROVE SongOf(u)' = Current
  BY <1>8, <1>9, Constants DEF SongOf, Extends
<1>10. CASE Exists /\ kind[p] \in Rounds
  <2>1. p = Owner /\ Written /\ ~Saving /\ ~Written' /\ ~Saving'
    BY <1>1, <1>2, <1>10 DEF HandledBy, Written, Saving, Rounds
  <2>2. Current' = Current
    BY <1>6, <1>10, <2>1 DEF Current
  <2>3. OnAir' => OnAir
    <3>1. CASE kind[p] = "GAME_START"
      <4>1. room.status = "WAITING"
        BY <1>5, <1>10, <2>1, <3>1 DEF Handled, StartsWaiting, Statuses, Exists
      <4>. QED  BY <1>4, <2>1, <3>1, <4>1 DEF OnAir
    <3>2. CASE kind[p] # "GAME_START"
      BY <1>4, <1>6, <1>10, <2>1, <3>2 DEF OnAir
    <3>. QED  BY <3>1, <3>2
  <2>4. ASSUME OnAir' PROVE HashOfRound' /\ SnapOfRound'
    BY <1>4, <1>9, <2>1, <2>2, <2>3, <2>4 DEF AirInv, HashOfRound, SnapOfRound, SongOf
  <2>5. ASSUME OnAir', NEW q \in Processes, q \notin late' PROVE OfThisRound(q)'
    <3>1. CASE q = p
      BY <1>1, <3>1 DEF OfThisRound
    <3>2. CASE q # p
      <4>1. OfThisRound(q)
        BY <1>1, <2>3, <2>5, <3>2 DEF AirInv
      <4>. QED  BY <1>1, <2>1, <2>2, <3>2, <4>1, OthersOfRound
    <3>. QED  BY <3>1, <3>2
  <2>. QED  BY <2>4, <2>5 DEF AirInv
<1>11. CASE Exists /\ kind[p] = "refresh"
  <2>1. (Written' <=> Written) /\ (Saving' <=> Saving)
        /\ (Written => kind'[Owner] = kind[Owner] /\ goal'[Owner] = goal[Owner])
    BY <1>1, <1>11 DEF Written, Saving, Rounds
  <2>2. room'.status = room.status /\ room'.index = 0
    BY <1>2, <1>6, <1>11 DEF HandledBy
  <2>3. OnAir' => OnAir /\ p \notin late
    BY <1>4, <2>1, <2>2 DEF OnAir
  <2>4. CASE OnAir'
    <3>1. Current = 1
      BY <1>11, <2>3, <2>4 DEF AirInv, OfThisRound
    <3>2. SameRound
      BY <2>1, <2>2, <2>3, <3>1 DEF SameRound, Current
    <3>. QED  BY <1>1, <1>4, <3>2, AirKept DEF OfThisRound
  <2>. QED  BY <2>4, OffAir
<1>. QED  BY <1>3, <1>7, <1>10, <1>11, OffAir

LEMMA MakeOnAir ==
    ASSUME PartsType, Handled, AirInv, Extends, NEW p \in Processes,
           Token(p) \/ NextAudio(p) \/ Expire(p)
    PROVE  AirInv'
<1>. USE DEF redis, database, process, history
<1>. ProcessType /\ StoredType /\ TokenType /\ Owner \in Processes
  BY Constants DEF PartsType
<1>. {"next", "hset", "save"} \subseteq Labels
  BY DEF Labels
<1>1. HandledBy(p) /\ kind[p] \in Kinds
  BY DEF Handled, ProcessType
<1>2. /\ UNCHANGED <<room, kind, goal, late, spoiled, hash, snap>>
      /\ \A q \in Processes : q # p => got'[q] = got[q] /\ pc'[q] = pc[q]
      /\ \/ pc[p] = "expire" /\ pc'[p] = "save" /\ got'[p] = got[p]
         \/ pc[p] \in {"token", "next"} /\ pc'[p] \in {"next", "hset"}
  BY Stepping DEF Token, NextAudio, Expire, Step, ProcessType
<1>3. SameRound
  BY <1>2, RoundKept
<1>4. pc[p] # "expire" => kind[p] # "event" /\ kind[p] # "test"
  BY <1>1, <1>2 DEF HandledBy
<1>5. OnAir' /\ p \notin late' => OfThisRound(p)'
  <2>. SUFFICES ASSUME OnAir', p \notin late' PROVE OfThisRound(p)'
    OBVIOUS
  <2>1. OfThisRound(p)
    BY <1>2, <1>3 DEF AirInv, SameRound
  <2>2. CASE pc[p] = "expire"
    <3>1. Current \in 1 .. Songs
      BY CurrentIsSong
    <3>2. SongOf(got[p]) = Current => SongOf(got[p])' = Current
      BY <1>2, <2>2, <3>1, Constants DEF SongOf, Extends
    <3>. QED  BY <1>2, <1>3, <2>1, <2>2, <3>2 DEF OfThisRound, SameRound
  <2>3. CASE pc[p] # "expire"
    BY <1>2, <1>3, <1>4, <2>1, <2>3 DEF OfThisRound, SameRound
  <2>. QED  BY <2>2, <2>3
<1>. QED  BY <1>2, <1>3, <1>5, AirKept

LEMMA FaultOnAir ==
    ASSUME PartsType, Handled, AirInv, Extends, Fault
    PROVE  AirInv'
<1>. USE DEF redis, database, process, history
<1>. ProcessType /\ StoredType /\ TokenType /\ Owner \in Processes
  BY Constants DEF PartsType
<1>1. ASSUME UNCHANGED <<snap, room, pc, kind, goal, got, late>>,
             ~spoiled' => ~spoiled,
             OnAir' => hash' = hash \/ (hash' = Missing /\ ~Saving)
      PROVE  AirInv'
  <2>1. SameRound
    BY <1>1 DEF SameRound, OnAir, Written, Saving, Current
  <2>2. OnAir' /\ Owner \notin late' => OfThisRound(Owner)'
    BY <1>1, <2>1, OthersOfRound DEF AirInv, SameRound
  <2>. QED  BY <1>1, <2>1, <2>2, AirKept
<1>2. CASE LoseHash
  <2>1. ~spoiled' => ~spoiled /\ ~ \E p \in Processes : kind[p] \in Rounds /\ pc[p] \in {"expire", "save"}
    BY <1>2, Zenon DEF LoseHash
  <2>2. ~spoiled' => ~Saving
    BY <2>1 DEF Saving, Written
  <2>3. hash' = Missing /\ UNCHANGED <<snap, room, pc, kind, goal, got, late>>
    BY <1>2 DEF LoseHash
  <2>. QED  BY <1>1, <2>1, <2>2, <2>3 DEF OnAir
<1>3. ASSUME NEW t \in Tokens, LoseToken(t) PROVE AirInv'
  BY <1>1, <1>3 DEF LoseToken
<1>4. ASSUME NEW p \in Processes, FailRead(p) \/ FailWrite(p) PROVE AirInv'
  <2>1. spoiled'
    BY <1>4, Zenon DEF FailRead, FailWrite
  <2>. QED  BY <2>1, SpoiledOffAir
<1>5. ASSUME NEW p \in Processes, FailToken(p) PROVE AirInv'
  <2>1. CASE pc[p] \in {"token", "next"} /\ End(p, pc[p]) /\ spoiled' = spoiled
    <3>1. /\ pc'[p] = "idle" /\ kind'[p] = "event" /\ late' = late \ {p}
          /\ \A q \in Processes : q # p => pc'[q] = pc[q] /\ kind'[q] = kind[q]
                                           /\ goal'[q] = goal[q] /\ got'[q] = got[q]
          /\ UNCHANGED <<hash, snap, room>>
      BY <1>5, <2>1, Ended DEF FailToken
    <3>2. SameRound
      BY <2>1, <3>1, RoundKept DEF Rounds
    <3>. QED  BY <3>1, <3>2, AirKept DEF OfThisRound
  <2>2. CASE spoiled'
    BY <2>2, SpoiledOffAir
  <2>3. (pc[p] \in {"token", "next"} /\ End(p, pc[p]) /\ spoiled' = spoiled) \/ spoiled'
    BY <1>5, Zenon DEF FailToken
  <2>. QED  BY <2>1, <2>2, <2>3
<1>. QED  BY <1>2, <1>3, <1>4, <1>5 DEF Fault

LEMMA AirStep ==
    ASSUME PartsType, Handled, AirInv, [Next]_vars
    PROVE  AirInv'
<1>1. Extends
  BY MadeExtends
<1>2. CASE UNCHANGED vars
  BY <1>2 DEF vars, redis, process, database, history, AirInv, HashOfRound, SnapOfRound,
              OfThisRound, OnAir, Written, Saving, Current, SongOf, Tokens
<1>3. ASSUME NEW p \in Processes, Wipe(p) PROVE AirInv'
  <2>1. pc[p] = "wipe" /\ room' = room
    BY <1>3 DEF Wipe, End, Step, database
  <2>2. ~OnAir'
    BY <2>1 DEF Handled, HandledBy, Exists, OnAir
  <2>. QED  BY <2>2, OffAir
<1>. QED  BY <1>1, <1>2, <1>3, BeginOnAir, ReadOnAir, HsetOnAir, SaveOnAir, CommitOnAir, MakeOnAir,
             FaultOnAir, Constants DEF Next, Work

LEMMA RoundInit == Init => PartsType /\ Handled /\ AirInv
BY TypeInit, TypeParts, HandledInit, Constants DEF PartsType, Init, AirInv, OnAir, Written, Rounds

LEMMA RoundStep ==
    PartsType /\ Handled /\ AirInv /\ [Next]_vars => PartsType' /\ Handled' /\ AirInv'
BY PartsStep, HandledStep, AirStep

(* With the handlers of the owner done, the round on air is the one of the row. *)
LEMMA RoundOnAir ==
    ASSUME PartsType, AirInv, RoundOn, ~spoiled
    PROVE  /\ HashOfRound /\ SnapOfRound /\ ~Saving /\ Current = room.index + 1
           /\ Current \in 1 .. Songs
BY CurrentIsSong DEF RoundOn, AirInv, OnAir, Written, Saving, Current

(* Whatever controls, turns, reads and edits of the list interleave, for any number of  *)
(* them, Redis plays the song of the index while a round is on, unless a handler that   *)
(* had read before the round was written, a url named by a player, a test audio or an   *)
(* error of Redis put another one there (set_room_playback_state, handle_skip_round).   *)
THEOREM PlaysTheIndex == Spec => []PlaysIndexed
<1>1. ASSUME PartsType, AirInv PROVE PlaysIndexed
  <2>. SUFFICES ASSUME RoundOn, ~spoiled, hash # Missing, hash \notin dead
                PROVE  Opens(hash) = room.index + 1
    BY DEF PlaysIndexed
  <2>1. SongOf(hash) = room.index + 1 /\ room.index + 1 \in 1 .. Songs
    BY <1>1, RoundOnAir DEF HashOfRound
  <2>2. hash \in Tokens
    BY <2>1, Constants DEF SongOf
  <2>. QED  BY <2>1, <2>2 DEF SongOf, Opens
<1>. QED  BY RoundInit, RoundStep, <1>1, PTL DEF Spec

(* And the snapshot names the same song, so that a hash that Redis dropped comes back   *)
(* with it (the refill in get_room_playback_state).                                     *)
THEOREM RecoversTheIndex == Spec => []RecoversIndexed
<1>1. ASSUME PartsType, AirInv PROVE RecoversIndexed
  <2>. SUFFICES ASSUME RoundOn, ~spoiled
                PROVE  snap # Missing /\ SongOf(snap) = room.index + 1
    BY DEF RecoversIndexed
  <2>1. SongOf(snap) = room.index + 1 /\ room.index + 1 \in 1 .. Songs
    BY <1>1, RoundOnAir DEF SnapOfRound
  <2>. QED  BY <2>1, Constants DEF SongOf, Tokens, Missing
<1>. QED  BY RoundInit, RoundStep, <1>1, PTL DEF Spec
=============================================================================
