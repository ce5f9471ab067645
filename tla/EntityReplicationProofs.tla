----------------------- MODULE EntityReplicationProofs -----------------------
(***************************************************************************)
(* Proofs about EntityReplication for every set of clients, values and      *)
(* faults and every batch size.  The lemmas say what a packet does to the   *)
(* entities a client shows and what sending one changes; the typing theorem *)
(* follows, then the shape of a pass over the clients and of a level        *)
(* change, and with it what a client has been promised.                     *)
(***************************************************************************)
EXTENDS EntityReplication, FiniteSetTheorems, TLAPS

-----------------------------------------------------------------------------
(* Packets and what they do to a client.                                    *)

View == [Ids -> Maybe(Values \cup {Blank})]

\* The packets the lobby sends are packets.
LEMMA PacketTypes ==
  /\ \A id \in Ids : Spawn(id) \in Packet /\ Death(id) \in Packet
  /\ Clear \in Packet
  /\ \A S \in SUBSET Ids : \A of \in [S -> Values] : State(of) \in Packet
<1>1. \A id \in Ids : Spawn(id) \in Packet /\ Death(id) \in Packet
  BY DEF Packet, Spawn, Death
<1>2. Clear \in Packet
  BY DEF Packet, Clear
<1>3. ASSUME NEW S \in SUBSET Ids, NEW of \in [S -> Values]
      PROVE  State(of) \in Packet
  BY <1>3 DEF Packet, State
<1> QED BY <1>1, <1>2, <1>3

\* A SPAWN shows the entity as its prefab made it, a DEATH removes it, and neither
\* touches another entity; NEXT_LEVEL removes all.
LEMMA ApplyOne ==
  ASSUME NEW shown \in View, NEW id \in Ids
  PROVE  /\ Apply(shown, Spawn(id)) = [shown EXCEPT ![id] = Blank]
         /\ Apply(shown, Death(id)) = [shown EXCEPT ![id] = Nothing]
         /\ Apply(shown, Clear) = None
  BY DEF Apply, Spawn, Death, Clear

\* A state is taken over for the entities the client knows.
LEMMA ApplyState ==
  ASSUME NEW shown \in View, NEW of
  PROVE  Apply(shown, State(of)) =
           [id \in Ids |-> IF id \in DOMAIN of /\ shown[id] # Nothing
                           THEN of[id] ELSE shown[id]]
  BY DEF Apply, State

\* Whatever packet arrives, the client shows entities.
LEMMA ApplyType ==
  ASSUME NEW shown \in View, NEW p \in Packet
  PROVE  Apply(shown, p) \in View
<1>1. CASE p \in [kind : {"spawn", "death"}, id : Ids]
  BY <1>1 DEF Apply, View, Maybe
<1>2. CASE p \in [kind : {"clear"}]
  BY <1>2 DEF Apply, View, Maybe, None
<1>3. CASE p \in [kind : {"state"}, of : UNION {[S -> Values] : S \in SUBSET Ids}]
  <2>1. p.kind = "state"
    BY <1>3
  <2>2. PICK S \in SUBSET Ids : p.of \in [S -> Values]
    BY <1>3
  <2>3. Apply(shown, p) =
          [id \in Ids |-> IF id \in S /\ shown[id] # Nothing
                          THEN p.of[id] ELSE shown[id]]
    BY <2>1, <2>2 DEF Apply
  <2>4. \A id \in S : p.of[id] \in Values
    BY <2>2
  <2> QED BY <2>3, <2>4 DEF View, Maybe
<1> QED BY <1>1, <1>2, <1>3 DEF Packet

\* Taking a packet off the wire leaves packets, one less.
LEMMA RemoveAtType ==
  ASSUME NEW S, NEW s \in Seq(S), NEW i \in DOMAIN s
  PROVE  RemoveAt(s, i) \in Seq(S) /\ Len(RemoveAt(s, i)) = Len(s) - 1
<1> DEFINE before == SubSeq(s, 1, i - 1)
           after == SubSeq(s, i + 1, Len(s))
<1>1. i \in 1..Len(s) /\ Len(s) \in Nat
  OBVIOUS
<1>2. before \in Seq(S) /\ Len(before) = i - 1
  BY <1>1
<1>3. after \in Seq(S) /\ Len(after) = Len(s) - i
  BY <1>1
<1>4. RemoveAt(s, i) = before \o after
  BY DEF RemoveAt
<1> HIDE DEF before, after
<1> QED BY <1>1, <1>2, <1>3, <1>4

-----------------------------------------------------------------------------
(* Typing.                                                                  *)

\* A packet sent to one client keeps the types of what it changes.
LEMMA SendToType ==
  ASSUME TypeOK, NEW c \in Clients, NEW p \in Packet, SendTo(c, p)
  PROVE  /\ wire' \in [Clients -> Seq(Packet)]
         /\ promised' \in [Clients -> View]
<1>1. promised \in [Clients -> View] /\ wire \in [Clients -> Seq(Packet)]
  BY DEF TypeOK, View
<1>2. Apply(promised[c], p) \in View /\ Append(wire[c], p) \in Seq(Packet)
  BY <1>1, ApplyType
<1> QED BY <1>1, <1>2 DEF SendTo

\* So does a broadcast, and who missed it is no longer steady.
LEMMA BroadcastType ==
  ASSUME TypeOK, NEW p \in Packet, NEW room, Broadcast(p, room)
  PROVE  /\ wire' \in [Clients -> Seq(Packet)]
         /\ promised' \in [Clients -> View]
         /\ steady' \subseteq members
         /\ \A c \in steady' : /\ c \in steady
                               /\ promised'[c] = Apply(promised[c], p)
         /\ \A c \in Clients : promised'[c] \in {promised[c], Apply(promised[c], p)}
         /\ \A c \in Clients : wire'[c] \in {wire[c], Append(wire[c], p)}
<1>1. promised \in [Clients -> View] /\ wire \in [Clients -> Seq(Packet)]
  BY DEF TypeOK, View
<1>2. \A c \in Clients : /\ Apply(promised[c], p) \in View
                         /\ Append(wire[c], p) \in Seq(Packet)
  BY <1>1, ApplyType
<1>3. PICK reached \in SUBSET members :
        /\ wire' = [c \in Clients |->
                      IF c \in reached THEN Append(wire[c], p) ELSE wire[c]]
        /\ promised' = [c \in Clients |->
                          IF c \in reached THEN Apply(promised[c], p) ELSE promised[c]]
        /\ steady' = steady \ (members \ reached)
  BY DEF Broadcast
<1>4. steady \subseteq members /\ members \subseteq Clients
  BY DEF TypeOK
<1> QED BY <1>1, <1>2, <1>3, <1>4

\* What a pass is comparing and has batched are entities of its snapshot, and
\* between two clients there is neither.
PassShape ==
  /\ \A id \in left \cup batched : snapshot[id] # Nothing
  /\ target = NoClient => left = {} /\ batched = {}

TypeInv == TypeOK /\ PassShape

\* The batch is a packet.
LEMMA BatchType ==
  ASSUME TypeInv
  PROVE  /\ [id \in batched |-> snapshot[id]] \in [batched -> Values]
         /\ Batch \in Packet
         /\ IsFiniteSet(batched)
<1>1. [id \in batched |-> snapshot[id]] \in [batched -> Values]
  BY DEF TypeInv, TypeOK, PassShape, Maybe
<1>2. batched \in SUBSET Ids
  BY DEF TypeInv, TypeOK
<1>3. IsFiniteSet(Ids)
  BY FS_Interval, ReplicationConstants DEF Ids
<1> QED BY <1>1, <1>2, <1>3, PacketTypes, FS_Subset DEF Batch

\* While entities are compared, there is a client they are compared for.
LEMMA TurnTarget ==
  ASSUME TypeInv, NEW id \in Ids, Turn(id)
  PROVE  target \in Clients /\ snapshot[id] \in Values
  BY DEF TypeInv, TypeOK, PassShape, Turn, Maybe

\* A ship that is being announced has an id.
LEMMA ShipId ==
  ASSUME TypeOK, ship # 0
  PROVE  ship \in Ids
<1>1. ship \in 0..MaxEntity
  BY DEF TypeOK
<1> QED BY <1>1, ReplicationConstants DEF Ids

\* The game thread's steps keep the types.
LEMMA TypeStepGame == TypeInv /\ GameThread => TypeInv'
<1> SUFFICES ASSUME TypeInv, GameThread
             PROVE  TypeInv'
  OBVIOUS
<1> USE DEF registry, lobby, pass, whoami, history
<1>1. ASSUME NEW v \in Values, Instantiate(v)
      PROVE  TypeInv'
  BY <1>1, ReplicationConstants
  DEF Instantiate, Create, TypeInv, TypeOK, PassShape, Ids, Maybe
<1>u. ASSUME NEW v \in Values, CreateUntold(v)
      PROVE  TypeInv'
  BY <1>u, ReplicationConstants
  DEF CreateUntold, Create, TypeInv, TypeOK, PassShape, Ids, Maybe
<1>2. CASE Announce
  <2>0. newborn # 0
    BY <1>2 DEF Announce
  <2>1. newborn \in Ids /\ TypeOK
    <3>1. newborn \in 0..MaxEntity /\ TypeOK
      BY DEF TypeInv, TypeOK
    <3> QED BY <2>0, <3>1, ReplicationConstants DEF Ids
  <2>2. Broadcast(Spawn(newborn), MaxWire - 1) /\ Spawn(newborn) \in Packet
    BY <1>2, <2>1, PacketTypes DEF Announce
  <2>3. /\ wire' \in [Clients -> Seq(Packet)] /\ promised' \in [Clients -> View]
        /\ steady' \subseteq members
    BY <2>1, <2>2, BroadcastType
  <2>4. toServe' \subseteq Clients /\ clientToEntity' \in [Clients -> 0..MaxEntity]
    BY <1>2, <2>1 DEF Announce, TypeOK
  <2>5. /\ newborn' = 0
        /\ UNCHANGED <<entities, nextEntity, untold, game, level, members, joining,
                       synced, cache, pass, view, strays>>
    BY <1>2 DEF Announce
  <2>6. newborn' \in 0..MaxEntity
    BY <2>5, ReplicationConstants
  <2>7. PassShape'
    BY <2>5 DEF TypeInv, PassShape
  <2> QED BY <2>1, <2>3, <2>4, <2>5, <2>6, <2>7 DEF TypeInv, TypeOK, View
<1>3. ASSUME NEW id \in Ids, NEW v \in Values, Change(id, v)
      PROVE  TypeInv'
  BY <1>3 DEF Change, TypeInv, TypeOK, PassShape, Maybe
<1>4. ASSUME NEW id \in Ids, Destroy(id)
      PROVE  TypeInv'
  <2>1. Broadcast(Death(id), MaxWire - 1) /\ Death(id) \in Packet /\ TypeOK
    BY <1>4, PacketTypes DEF Destroy, TypeInv
  <2>2. /\ wire' \in [Clients -> Seq(Packet)] /\ promised' \in [Clients -> View]
        /\ steady' \subseteq members
    BY <2>1, BroadcastType
  <2>3. untold' \subseteq Ids /\ strays' \subseteq Ids
    BY <1>4, <2>1 DEF Destroy, TypeOK
  <2> QED BY <1>4, <2>2, <2>3 DEF Destroy, TypeInv, TypeOK, PassShape, View, Maybe
<1>5. CASE ClearLevel
  <2>1. strays' \subseteq Ids
    BY <1>5, ReplicationConstants DEF ClearLevel, TypeInv, TypeOK, Ids
  <2> QED BY <1>5, <2>1, ReplicationConstants
          DEF ClearLevel, TypeInv, TypeOK, PassShape, None, Maybe
<1>6. CASE ClearCaches
  BY <1>6 DEF ClearCaches, TypeInv, TypeOK, PassShape, None, Maybe
<1>7. CASE NextLevelPacket
  <2>1. Broadcast(Clear, MaxWire - 1) /\ Clear \in Packet /\ TypeOK
    BY <1>7, PacketTypes DEF NextLevelPacket, TypeInv
  <2>2. /\ wire' \in [Clients -> Seq(Packet)] /\ promised' \in [Clients -> View]
        /\ steady' \subseteq members
    BY <2>1, BroadcastType
  <2>3. strays' \subseteq Ids
    BY <1>7, <2>1 DEF NextLevelPacket, Living, TypeOK
  <2> QED BY <1>7, <2>2, <2>3 DEF NextLevelPacket, TypeInv, TypeOK, PassShape, View
<1> QED BY <1>1, <1>u, <1>2, <1>3, <1>4, <1>5, <1>6, <1>7 DEF GameThread

\* The network thread's steps keep the types.
LEMMA TypeStepNetwork == TypeInv /\ NetworkThread => TypeInv'
<1> SUFFICES ASSUME TypeInv, NetworkThread
             PROVE  TypeInv'
  OBVIOUS
<1> USE DEF registry, lobby, pass, whoami, history
<1>9. ASSUME NEW c \in Clients, WhoAmI(c)
      PROVE  TypeInv'
  BY <1>9 DEF WhoAmI, TypeInv, TypeOK, PassShape
<1>10. ASSUME NEW v \in Values, CreateShip(v)
       PROVE  TypeInv'
  BY <1>10, ReplicationConstants
  DEF CreateShip, Create, TypeInv, TypeOK, PassShape, Ids, Maybe
<1>11. CASE AnnounceShip
  <2>1. TypeOK /\ ship \in Ids
    BY <1>11, ShipId DEF AnnounceShip, TypeInv
  <2>2. Broadcast(Spawn(ship), MaxWire) /\ Spawn(ship) \in Packet
    BY <1>11, <2>1, PacketTypes DEF AnnounceShip
  <2>3. /\ wire' \in [Clients -> Seq(Packet)] /\ promised' \in [Clients -> View]
        /\ steady' \subseteq members
    BY <2>1, <2>2, BroadcastType
  <2>4. strays' \subseteq Ids /\ clientToEntity' \in [Clients -> 0..MaxEntity]
    BY <1>11, <2>1 DEF AnnounceShip, TypeOK
  <2>5. asker' = NoClient /\ ship' \in 0..MaxEntity
    BY <1>11, ReplicationConstants DEF AnnounceShip
  <2> QED BY <1>11, <2>3, <2>4, <2>5
          DEF AnnounceShip, TypeInv, TypeOK, PassShape, View
<1>1. CASE Serialise
  <2>1. entities' \in [Ids -> Maybe(Values)]
    BY <1>1, ReplicationConstants DEF Serialise, TypeInv, TypeOK, Maybe
  <2>2. cache' \in [Clients -> [Ids -> Maybe(Values)]]
    BY <1>1 DEF Serialise, TypeInv, TypeOK, Maybe
  <2> QED BY <1>1, <2>1, <2>2 DEF Serialise, Idle, TypeInv, TypeOK, PassShape
<1>2. ASSUME NEW c \in Clients, NextTarget(c)
      PROVE  TypeInv'
  BY <1>2, ReplicationConstants DEF NextTarget, TypeInv, TypeOK, PassShape
<1>3. ASSUME NEW id \in Ids, CompareUnchanged(id)
      PROVE  TypeInv'
  BY <1>3 DEF CompareUnchanged, TypeInv, TypeOK, PassShape
<1>4. ASSUME NEW id \in Ids, CompareChanged(id)
      PROVE  TypeInv'
  <2>1. target \in Clients /\ snapshot[id] \in Values
    BY <1>4, TurnTarget DEF CompareChanged
  <2>2. Cardinality(batched') <= MaxBatch
    <3>1. IsFiniteSet(batched) /\ Cardinality(batched) < MaxBatch
      BY <1>4, BatchType DEF CompareChanged, Fits
    <3>2. Cardinality(batched \cup {id}) \in {Cardinality(batched), Cardinality(batched) + 1}
      BY <3>1, FS_AddElement
    <3>3. Cardinality(batched) \in Nat
      BY <3>1, FS_CardinalityType
    <3>4. batched' = batched \cup {id}
      BY <1>4 DEF CompareChanged
    <3> QED BY <3>1, <3>2, <3>3, <3>4, ReplicationConstants
  <2>3. cache' \in [Clients -> [Ids -> Maybe(Values)]]
    BY <1>4, <2>1 DEF CompareChanged, Remember, TypeInv, TypeOK, Maybe
  <2>4. \A other \in left' \cup batched' : snapshot'[other] # Nothing
    BY <1>4, <2>1, ReplicationConstants DEF CompareChanged, TypeInv, PassShape
  <2> QED BY <1>4, <2>1, <2>2, <2>3, <2>4, ReplicationConstants
          DEF CompareChanged, TypeInv, TypeOK, PassShape
<1>5. ASSUME NEW id \in Ids, FlushFull(id)
      PROVE  TypeInv'
  <2>1. target \in Clients /\ snapshot[id] \in Values
    BY <1>5, TurnTarget DEF FlushFull
  <2>2. wire' \in [Clients -> Seq(Packet)] /\ promised' \in [Clients -> View]
    BY <1>5, <2>1, BatchType, SendToType DEF FlushFull, TypeInv
  <2>3. Cardinality(batched') <= MaxBatch
    <3>1. batched' = {id}
      BY <1>5 DEF FlushFull
    <3>2. Cardinality({id}) = 1
      BY FS_Singleton
    <3> QED BY <3>1, <3>2, ReplicationConstants
  <2>4. cache' \in [Clients -> [Ids -> Maybe(Values)]]
    BY <1>5, <2>1 DEF FlushFull, Remember, TypeInv, TypeOK, Maybe
  <2>5. \A other \in left' \cup batched' : snapshot'[other] # Nothing
    BY <1>5, <2>1, ReplicationConstants DEF FlushFull, TypeInv, PassShape
  <2> QED BY <1>5, <2>1, <2>2, <2>3, <2>4, <2>5, ReplicationConstants
          DEF FlushFull, TypeInv, TypeOK, PassShape, View
<1>6. ASSUME NEW id \in Ids, FlushFullFails(id)
      PROVE  TypeInv'
  <2>1. target \in Clients /\ snapshot[id] \in Values
    BY <1>6, TurnTarget DEF FlushFullFails
  <2>2. cache' \in [Clients -> [Ids -> Maybe(Values)]]
    BY <1>6, <2>1 DEF FlushFullFails, Remember, TypeInv, TypeOK, Maybe
  <2>3. /\ members' \subseteq Clients /\ steady' \subseteq members'
        /\ clientToEntity' \in [Clients -> 0..MaxEntity]
    BY <1>6, <2>1, ReplicationConstants DEF FlushFullFails, Drop, TypeInv, TypeOK
  <2>4. /\ left' = {}
        /\ UNCHANGED <<whoami, snapshot, targets, target, batched, registry, joining,
                       synced, wire, view, promised, strays>>
    BY <1>6 DEF FlushFullFails
  <2> QED BY <2>1, <2>2, <2>3, <2>4, ReplicationConstants
          DEF TypeInv, TypeOK, PassShape
<1>7. CASE FlushLast
  <2>1. target \in Clients
    BY <1>7 DEF FlushLast, TypeInv, TypeOK
  <2>2. wire' \in [Clients -> Seq(Packet)] /\ promised' \in [Clients -> View]
    BY <1>7, <2>1, BatchType, SendToType DEF FlushLast, TypeInv, TypeOK, View
  <2>3. Cardinality(batched') <= MaxBatch
    BY <1>7, FS_EmptySet, ReplicationConstants DEF FlushLast, EndOfTarget
  <2> QED BY <1>7, <2>2, <2>3
          DEF FlushLast, EndOfTarget, TypeInv, TypeOK, PassShape, View, None, Maybe
<1>8. CASE FlushLastFails
  <2>1. Cardinality(batched') <= MaxBatch
    BY <1>8, FS_EmptySet, ReplicationConstants DEF FlushLastFails, EndOfTarget
  <2> QED BY <1>8, <2>1, ReplicationConstants
          DEF FlushLastFails, EndOfTarget, Drop, TypeInv, TypeOK, PassShape, None, Maybe
<1> QED BY <1>1, <1>2, <1>3, <1>4, <1>5, <1>6, <1>7, <1>8, <1>9, <1>10, <1>11
        DEF NetworkThread

\* The main thread's steps keep the types.
LEMMA TypeStepMain == TypeInv /\ MainThread => TypeInv'
<1> SUFFICES ASSUME TypeInv, MainThread
             PROVE  TypeInv'
  OBVIOUS
<1> USE DEF registry, lobby, pass, whoami, history
<1>1. ASSUME NEW c \in Clients, Join(c)
      PROVE  TypeInv'
  <2>1. wire' \in [Clients -> Seq(Packet)] /\ promised' \in [Clients -> View]
    BY <1>1, PacketTypes, SendToType DEF Join, TypeInv
  <2> QED BY <1>1, <2>1 DEF Join, TypeInv, TypeOK, PassShape, View
<1>2. ASSUME NEW id \in Ids, SyncPlayer(id)
      PROVE  TypeInv'
  <2>1. joining \in Clients
    BY <1>2 DEF SyncPlayer, TypeInv, TypeOK
  <2>2. wire' \in [Clients -> Seq(Packet)] /\ promised' \in [Clients -> View]
    BY <1>2, <2>1, PacketTypes, SendToType DEF SyncPlayer, TypeInv
  <2> QED BY <1>2, <2>2 DEF SyncPlayer, TypeInv, TypeOK, PassShape, View
<1>3. CASE SyncDone
  BY <1>3 DEF SyncDone, TypeInv, TypeOK, PassShape
<1>4. ASSUME NEW c \in Clients, JoinAgain(c)
      PROVE  TypeInv'
  <2>1. wire' \in [Clients -> Seq(Packet)] /\ promised' \in [Clients -> View]
    BY <1>4, PacketTypes, SendToType DEF JoinAgain, TypeInv
  <2> QED BY <1>4, <2>1 DEF JoinAgain, TypeInv, TypeOK, PassShape, View
<1>5. ASSUME NEW c \in Clients, Leave(c)
      PROVE  TypeInv'
  <2>1. /\ members' \subseteq Clients /\ steady' \subseteq members'
        /\ clientToEntity' \in [Clients -> 0..MaxEntity]
    BY <1>5, ReplicationConstants DEF Leave, Drop, TypeInv, TypeOK
  <2> QED BY <1>5, <2>1 DEF Leave, TypeInv, TypeOK, PassShape
<1> QED BY <1>1, <1>2, <1>3, <1>4, <1>5 DEF MainThread

\* A client that receives shows entities.
LEMMA TypeStepReceive ==
  ASSUME TypeInv, NEW c \in Clients, Receive(c)
  PROVE  TypeInv'
<1>1. PICK i \in DOMAIN wire[c], handled \in BOOLEAN, stays \in BOOLEAN :
        /\ view' = [view EXCEPT ![c] = IF handled THEN Apply(@, wire[c][i]) ELSE @]
        /\ wire' = [wire EXCEPT ![c] = IF stays THEN @ ELSE RemoveAt(@, i)]
        /\ UNCHANGED <<registry, lobby, cache, pass, history>>
  BY DEF Receive
<1>2. view \in [Clients -> View] /\ wire \in [Clients -> Seq(Packet)]
  BY DEF TypeInv, TypeOK, View
<1>3. Apply(view[c], wire[c][i]) \in View
  BY <1>2, ApplyType
<1>4. RemoveAt(wire[c], i) \in Seq(Packet)
  BY <1>2, RemoveAtType
<1>5. view' \in [Clients -> View]
  BY <1>1, <1>2, <1>3
<1>6. wire' \in [Clients -> Seq(Packet)]
  BY <1>1, <1>2, <1>4
<1> QED BY <1>1, <1>5, <1>6
        DEF TypeInv, TypeOK, PassShape, View, registry, lobby, pass, whoami, history

LEMMA TypeInit == Init => TypeInv
<1> SUFFICES ASSUME Init
             PROVE  TypeInv
  OBVIOUS
<1>1. Cardinality(batched) <= MaxBatch
  BY FS_EmptySet, ReplicationConstants DEF Init
<1>2. None \in [Ids -> Maybe(Values)] /\ None \in View
  BY DEF None, Maybe, View
<1>3. nextEntity \in 1..(MaxEntity + 1) /\ newborn \in 0..MaxEntity /\ level \in 0..MaxLevels
  BY ReplicationConstants DEF Init
<1>4. clientToEntity \in [Clients -> 0..MaxEntity] /\ Starters \subseteq Clients
  BY ReplicationConstants DEF Init
<1>5. /\ cache \in [Clients -> [Ids -> Maybe(Values)]]
      /\ view \in [Clients -> View] /\ promised \in [Clients -> View]
      /\ wire \in [Clients -> Seq(Packet)]
  BY <1>2 DEF Init
<1>6. entities \in [Ids -> Maybe(Values)] /\ snapshot \in [Ids -> Maybe(Values)]
  BY <1>2 DEF Init
<1> QED BY <1>1, <1>3, <1>4, <1>5, <1>6 DEF Init, TypeInv, TypeOK, PassShape, View

LEMMA TypeStep == TypeInv /\ [Next]_vars => TypeInv'
<1>1. TypeInv /\ UNCHANGED vars => TypeInv'
  BY DEF vars, registry, lobby, pass, whoami, history, TypeInv, TypeOK, PassShape
<1> QED BY <1>1, TypeStepGame, TypeStepNetwork, TypeStepMain, TypeStepReceive
        DEF Next

LEMMA TypeInvariant == Spec => []TypeInv
BY TypeInit, TypeStep, PTL DEF Spec

\* Every variable keeps its type, and a packet carries at most MAX_BATCH_SIZE
\* entities, whatever is sent, lost, reordered or dropped.
THEOREM TypeCorrect == Spec => []TypeOK
<1>1. TypeInv => TypeOK
  BY DEF TypeInv
<1> QED BY <1>1, TypeInvariant, PTL

-----------------------------------------------------------------------------
(* The living entities.                                                     *)

\* Between the steps of a level change the game thread has made nothing; ids that
\* have not been given out name no entity; what is being announced is in the
\* registry and will be told of, a ship of the network thread unless it crossed its
\* end or a new level; and the client being let in is not one that was there from
\* the start.
GameShape ==
  /\ game # "run" => newborn = 0
  /\ \A id \in Ids : id >= nextEntity => entities[id] = Nothing
  /\ \A id \in untold : entities[id] # Nothing
  /\ newborn # 0 => entities[newborn] # Nothing /\ newborn \notin untold
  /\ ship # 0 /\ ship \notin strays
       => entities[ship] # Nothing /\ ship \notin untold /\ ship # newborn
  /\ joining \notin steady

LivingInv == TypeInv /\ GameShape /\ PromisesTheLiving

\* A state neither adds nor removes an entity at the client.
LEMMA StateKnown ==
  ASSUME NEW shown \in View, NEW S \in SUBSET Ids, NEW of \in [S -> Values]
  PROVE  Known(Apply(shown, State(of))) = Known(shown)
<1>1. Apply(shown, State(of)) =
        [id \in Ids |-> IF id \in S /\ shown[id] # Nothing
                        THEN of[id] ELSE shown[id]]
  BY ApplyState
<1>2. \A id \in S : of[id] # Nothing
  BY ReplicationConstants
<1> QED BY <1>1, <1>2 DEF Known

\* A SPAWN adds one entity, a DEATH takes one.
LEMMA SpawnDeathKnown ==
  ASSUME NEW shown \in View, NEW id \in Ids
  PROVE  /\ Known(Apply(shown, Spawn(id))) = Known(shown) \cup {id}
         /\ Known(Apply(shown, Death(id))) = Known(shown) \ {id}
<1>1. \A v : Known([shown EXCEPT ![id] = v]) =
               {i \in Ids : IF i = id THEN v # Nothing ELSE shown[i] # Nothing}
  BY DEF Known, View
<1>2. Blank # Nothing
  BY ReplicationConstants
<1>3. Known(Apply(shown, Spawn(id))) =
        {i \in Ids : IF i = id THEN Blank # Nothing ELSE shown[i] # Nothing}
  BY <1>1, ApplyOne
<1>4. Known(Apply(shown, Death(id))) =
        {i \in Ids : IF i = id THEN FALSE ELSE shown[i] # Nothing}
  BY <1>1, ApplyOne
<1> QED BY <1>2, <1>3, <1>4 DEF Known

\* A step that leaves the registry alone keeps the promise if it promises no client
\* anything but states.
LEMMA LivingKept ==
  ASSUME LivingInv, UNCHANGED <<registry, ship, strays>>,
         joining' \notin steady', steady' \subseteq steady,
         \A c \in steady' : Known(promised'[c]) = Known(promised[c])
  PROVE  GameShape' /\ PromisesTheLiving'
BY DEF LivingInv, GameShape, PromisesTheLiving, Living, registry

\* A packet of states sent to one client keeps what every client knows.
LEMMA SendStateKnown ==
  ASSUME TypeInv, target \in Clients, SendTo(target, Batch)
  PROVE  \A c \in steady : Known(promised'[c]) = Known(promised[c])
<1>1. promised \in [Clients -> View] /\ steady \subseteq Clients
  BY DEF TypeInv, TypeOK, View
<1>2. promised' = [promised EXCEPT ![target] = Apply(@, Batch)]
  BY DEF SendTo
<1>3. batched \in SUBSET Ids
  BY DEF TypeInv, TypeOK
<1>4. Known(Apply(promised[target], Batch)) = Known(promised[target])
  BY <1>1, <1>3, BatchType, StateKnown DEF Batch
<1> QED BY <1>1, <1>2, <1>4

\* The game thread keeps the promise: what it adds to and takes from the registry it
\* tells the clients, and a level begins with nothing on both sides.
LEMMA LivingStepGame ==
  LivingInv /\ GameThread => GameShape' /\ PromisesTheLiving'
<1> SUFFICES ASSUME LivingInv, GameThread
             PROVE  GameShape' /\ PromisesTheLiving'
  OBVIOUS
<1> USE DEF registry, lobby, pass, whoami, history
<1>t. /\ TypeOK
      /\ entities \in [Ids -> Maybe(Values)]
      /\ promised \in [Clients -> View] /\ steady \subseteq Clients
      /\ nextEntity \in Int
      /\ untold \subseteq Ids /\ strays \subseteq Ids
  <2>1. nextEntity \in 1..(MaxEntity + 1)
    BY DEF LivingInv, TypeInv, TypeOK
  <2>2. nextEntity \in Int
    BY <2>1
  <2>3. TypeOK /\ steady \subseteq Clients
    BY DEF LivingInv, TypeInv, TypeOK
  <2> QED BY <2>2, <2>3 DEF TypeOK, View
<1>c. Nothing \notin Values /\ Blank # Nothing /\ 0 \notin Ids
  <2>1. 0 \notin Ids
    BY DEF Ids
  <2> QED BY <2>1, ReplicationConstants
<1>e. ASSUME nextEntity \in Ids
      PROVE  /\ entities[nextEntity] = Nothing
             /\ nextEntity \notin untold /\ nextEntity # newborn
             /\ ship # 0 /\ ship \notin strays => ship # nextEntity
  BY <1>t, <1>c, <1>e DEF LivingInv, GameShape
<1>1. ASSUME NEW v \in Values, Instantiate(v)
      PROVE  GameShape' /\ PromisesTheLiving'
  <2>1. /\ entities' = [entities EXCEPT ![nextEntity] = v]
        /\ nextEntity \in Ids /\ nextEntity' = nextEntity + 1
        /\ newborn = 0 /\ newborn' = nextEntity /\ game = "run"
        /\ UNCHANGED <<untold, game, ship, strays, promised, steady, joining>>
    BY <1>1 DEF Instantiate, Create
  <2>3. Living' = Living
    BY <1>t, <1>c, <1>e, <2>1 DEF Living
  <2>4. PromisesTheLiving'
    BY <2>1, <2>3 DEF LivingInv, PromisesTheLiving
  <2>5. GameShape'
    <3>1. \A id \in Ids : id >= nextEntity + 1 => id >= nextEntity /\ id # nextEntity
      BY <1>t DEF Ids
    <3> QED BY <1>t, <1>c, <1>e, <2>1, <3>1 DEF LivingInv, GameShape
  <2> QED BY <2>4, <2>5
<1>u. ASSUME NEW v \in Values, CreateUntold(v)
      PROVE  GameShape' /\ PromisesTheLiving'
  <2>1. /\ entities' = [entities EXCEPT ![nextEntity] = v]
        /\ nextEntity \in Ids /\ nextEntity' = nextEntity + 1
        /\ untold' = untold \cup {nextEntity} /\ newborn = 0
        /\ UNCHANGED <<newborn, game, ship, strays, promised, steady, joining>>
    BY <1>u DEF CreateUntold, Create, Playing
  <2>3. Living' = Living
    BY <1>t, <1>c, <1>e, <2>1 DEF Living
  <2>4. PromisesTheLiving'
    BY <2>1, <2>3 DEF LivingInv, PromisesTheLiving
  <2>5. GameShape'
    <3>1. \A id \in Ids : id >= nextEntity + 1 => id >= nextEntity /\ id # nextEntity
      BY <1>t DEF Ids
    <3> QED BY <1>t, <1>c, <1>e, <2>1, <3>1 DEF LivingInv, GameShape
  <2> QED BY <2>4, <2>5
<1>2. CASE Announce
  <2>1. /\ newborn # 0 /\ newborn' = 0 /\ Broadcast(Spawn(newborn), MaxWire - 1)
        /\ UNCHANGED <<entities, nextEntity, untold, game, ship, strays, joining>>
    BY <1>2 DEF Announce
  <2>2. /\ newborn \in Ids /\ game = "run"
        /\ entities[newborn] # Nothing /\ newborn \notin untold
        /\ newborn = ship => newborn \in strays
    <3>1. newborn \in 0..MaxEntity
      BY <1>t DEF TypeOK
    <3>2. newborn \in Ids
      BY <2>1, <3>1, ReplicationConstants DEF Ids
    <3> QED BY <2>1, <3>2 DEF LivingInv, GameShape
  <2>3. \A c \in steady' : c \in steady /\ promised'[c] = Apply(promised[c], Spawn(newborn))
    BY <1>t, <1>c, <2>1, <2>2, PacketTypes, BroadcastType
  <2>4. Living' \ strays' = (Living \cup {newborn}) \ strays
    BY <1>t, <1>c, <2>1, <2>2 DEF Living
  <2>5. \A c \in steady' : Known(promised'[c]) = Known(promised[c]) \cup {newborn}
    BY <1>t, <2>2, <2>3, SpawnDeathKnown
  <2>6. PromisesTheLiving'
    BY <2>1, <2>2, <2>3, <2>4, <2>5 DEF LivingInv, PromisesTheLiving
  <2> QED BY <1>c, <2>1, <2>2, <2>3, <2>6 DEF LivingInv, GameShape
<1>3. ASSUME NEW id \in Ids, NEW v \in Values, Change(id, v)
      PROVE  GameShape' /\ PromisesTheLiving'
  <2>1. /\ entities' = [entities EXCEPT ![id] = v] /\ entities[id] # Nothing
        /\ UNCHANGED <<nextEntity, newborn, untold, game, ship, strays, promised,
                       steady, joining>>
        /\ game = "run" /\ newborn = 0
    BY <1>3 DEF Change, Playing
  <2>2. Living' = Living
    BY <1>t, <1>c, <2>1 DEF Living
  <2>3. PromisesTheLiving'
    BY <2>1, <2>2 DEF LivingInv, PromisesTheLiving
  <2> QED BY <1>t, <1>c, <2>1, <2>3 DEF LivingInv, GameShape
<1>4. ASSUME NEW id \in Ids, Destroy(id)
      PROVE  GameShape' /\ PromisesTheLiving'
  <2>1. /\ entities' = [entities EXCEPT ![id] = Nothing]
        /\ Broadcast(Death(id), MaxWire - 1)
        /\ untold' = untold \ {id} /\ strays' = strays \cup ({id} \cap {ship})
        /\ UNCHANGED <<nextEntity, newborn, game, ship, joining>>
        /\ game = "run" /\ newborn = 0
    BY <1>4 DEF Destroy, Playing
  <2>2. \A c \in steady' : c \in steady /\ promised'[c] = Apply(promised[c], Death(id))
    BY <1>t, <1>c, <2>1, PacketTypes, BroadcastType
  <2>3. Living' = Living \ {id}
    BY <1>t, <1>c, <2>1 DEF Living
  <2>4. \A c \in steady' : Known(promised'[c]) = Known(promised[c]) \ {id}
    BY <1>t, <2>2, SpawnDeathKnown
  <2>5. PromisesTheLiving'
    <3>1. ASSUME NEW c \in steady'
          PROVE  Known(promised'[c]) \ strays' = Living' \ strays'
      <4>1. Known(promised[c]) \ strays = Living \ strays
        BY <2>1, <2>2 DEF LivingInv, PromisesTheLiving
      <4>2. \A i : i \in Known(promised'[c]) <=> i \in Known(promised[c]) /\ i # id
        BY <2>4
      <4>3. \A i : i \in Living' <=> i \in Living /\ i # id
        BY <2>3
      <4>4. \A i : i # id => (i \in strays' <=> i \in strays)
        BY <2>1
      <4>5. \A i : i # id /\ i \notin strays => (i \in Known(promised[c]) <=> i \in Living)
        BY <4>1
      <4> QED BY <4>2, <4>3, <4>4, <4>5
    <3> QED BY <3>1 DEF PromisesTheLiving
  <2>6. \A i \in Ids : entities'[i] = IF i = id THEN Nothing ELSE entities[i]
    BY <1>t, <2>1
  <2>7. ship' # 0 /\ ship' \notin strays'
          => entities'[ship'] # Nothing /\ ship' \notin untold' /\ ship' # newborn'
    <3> SUFFICES ASSUME ship # 0, ship \notin strays, ship # id
                 PROVE  entities'[ship] # Nothing /\ ship \notin untold' /\ ship # newborn'
      BY <2>1
    <3>1. ship \in Ids
      BY <1>t, ShipId
    <3> QED BY <2>1, <2>6, <3>1 DEF LivingInv, GameShape
  <2>8. \A i \in untold' : entities'[i] # Nothing
    BY <1>t, <2>1, <2>6 DEF LivingInv, GameShape
  <2> QED BY <1>c, <2>1, <2>2, <2>5, <2>6, <2>7, <2>8 DEF LivingInv, GameShape
<1>5. CASE ClearLevel
  <2>1. /\ entities' = None /\ untold' = {} /\ game' = "cleared" /\ newborn = 0
        /\ strays' = strays \cup ({ship} \ {0})
        /\ UNCHANGED <<newborn, ship, steady, joining>>
    BY <1>5 DEF ClearLevel, Playing
  <2> QED BY <2>1 DEF LivingInv, GameShape, PromisesTheLiving, None
<1>6. CASE ClearCaches
  <2>1. /\ game = "cleared" /\ game' = "uncached"
        /\ UNCHANGED <<entities, nextEntity, newborn, untold, ship, strays, steady,
                       joining>>
    BY <1>6 DEF ClearCaches
  <2> QED BY <2>1 DEF LivingInv, GameShape, PromisesTheLiving
<1>7. CASE NextLevelPacket
  <2>1. /\ game = "uncached" /\ Broadcast(Clear, MaxWire - 1)
        /\ strays' = Living \cup (strays \cap {ship})
        /\ UNCHANGED <<entities, nextEntity, newborn, untold, ship, joining>>
    BY <1>7 DEF NextLevelPacket
  <2>2. newborn = 0
    BY <2>1 DEF LivingInv, GameShape
  <2>3. \A c \in steady' : c \in steady /\ promised'[c] = Apply(promised[c], Clear)
    BY <1>t, <1>c, <2>1, PacketTypes, BroadcastType
  <2>4. \A c \in steady' : promised'[c] = None
    BY <1>t, <1>c, <2>3 DEF Apply, Clear
  <2>5. Living' \ strays' = {} /\ Known(None) = {}
    <3>1. Living' = Living
      BY <2>1 DEF Living
    <3> QED BY <2>1, <3>1 DEF Known, None
  <2>6. PromisesTheLiving'
    BY <2>4, <2>5 DEF PromisesTheLiving
  <2> QED BY <2>1, <2>2, <2>3, <2>6 DEF LivingInv, GameShape
<1> QED BY <1>1, <1>u, <1>2, <1>3, <1>4, <1>5, <1>6, <1>7 DEF GameThread

\* The network thread keeps the promise: it sends nothing but states and the SPAWN of
\* a ship it made, and the clients it drops are steady no longer.
LEMMA LivingStepNetwork ==
  LivingInv /\ NetworkThread => GameShape' /\ PromisesTheLiving'
<1> SUFFICES ASSUME LivingInv, NetworkThread
             PROVE  GameShape' /\ PromisesTheLiving'
  OBVIOUS
<1> USE DEF registry, lobby, pass, whoami, history
<1>t. TypeInv /\ joining \notin steady
  BY DEF LivingInv, GameShape
<1>c. Nothing \notin Values /\ 0 \notin Ids
  <2>1. 0 \notin Ids
    BY DEF Ids
  <2> QED BY <2>1, ReplicationConstants
<1>8. ASSUME NEW c \in Clients, WhoAmI(c)
      PROVE  GameShape' /\ PromisesTheLiving'
  <2>1. UNCHANGED <<registry, ship, strays, joining, promised, steady>>
    BY <1>8 DEF WhoAmI
  <2> QED BY <1>t, <2>1, LivingKept
<1>9. ASSUME NEW v \in Values, CreateShip(v)
      PROVE  GameShape' /\ PromisesTheLiving'
  <2>1. /\ entities' = [entities EXCEPT ![nextEntity] = v]
        /\ nextEntity \in Ids /\ nextEntity' = nextEntity + 1
        /\ ship = 0 /\ ship' = nextEntity
        /\ UNCHANGED <<newborn, untold, game, strays, promised, steady, joining>>
    BY <1>9 DEF CreateShip, Create
  <2>2. /\ entities \in [Ids -> Maybe(Values)] /\ nextEntity \in Int
        /\ untold \subseteq Ids
    <3>1. nextEntity \in 1..(MaxEntity + 1)
      BY <1>t DEF TypeInv, TypeOK
    <3> QED BY <1>t, <3>1 DEF TypeInv, TypeOK
  <2>3. /\ entities[nextEntity] = Nothing
        /\ nextEntity \notin untold /\ nextEntity # newborn
    BY <1>c, <2>1, <2>2 DEF LivingInv, GameShape
  <2>4. Living' = Living
    BY <1>c, <2>1, <2>2, <2>3 DEF Living
  <2>5. PromisesTheLiving'
    BY <2>1, <2>4 DEF LivingInv, PromisesTheLiving
  <2>6. GameShape'
    <3>1. \A id \in Ids : id >= nextEntity + 1 => id >= nextEntity /\ id # nextEntity
      BY <2>2 DEF Ids
    <3> QED BY <1>c, <2>1, <2>2, <2>3, <3>1 DEF LivingInv, GameShape
  <2> QED BY <2>5, <2>6
<1>10. CASE AnnounceShip
  <2>1. /\ ship # 0 /\ ship' = 0 /\ Broadcast(Spawn(ship), MaxWire)
        /\ strays' = IF game = "run" THEN strays ELSE strays \cup {ship}
        /\ UNCHANGED <<registry, joining>>
    BY <1>10 DEF AnnounceShip
  <2>2. ship \in Ids /\ promised \in [Clients -> View] /\ steady \subseteq Clients
    BY <1>t, <2>1, ShipId DEF TypeInv, TypeOK, View
  <2>3. \A c \in steady' : c \in steady /\ promised'[c] = Apply(promised[c], Spawn(ship))
    BY <1>t, <2>1, <2>2, PacketTypes, BroadcastType DEF TypeInv
  <2>4. \A c \in steady' : Known(promised'[c]) = Known(promised[c]) \cup {ship}
    BY <2>2, <2>3, SpawnDeathKnown
  <2>5. ASSUME game = "run"
        PROVE  Living' \ strays' = (Living \cup {ship}) \ strays
    <3>1. ship \notin strays
            => entities[ship] # Nothing /\ ship \notin untold /\ ship # newborn
      BY <2>1 DEF LivingInv, GameShape
    <3> QED BY <1>c, <2>1, <2>2, <2>5, <3>1 DEF Living
  <2>6. PromisesTheLiving'
    BY <2>1, <2>3, <2>4, <2>5 DEF LivingInv, PromisesTheLiving
  <2> QED BY <2>1, <2>3, <2>6 DEF LivingInv, GameShape
<1>1. CASE Serialise
  <2>1. /\ UNCHANGED <<nextEntity, newborn, untold, game, ship, strays, joining,
                       promised, steady>>
        /\ entities' = [id \in Ids |-> IF entities[id] = Nothing THEN Nothing
                                       ELSE Settled[entities[id]]]
    BY <1>1 DEF Serialise
  <2>2. \A id \in Ids : entities'[id] = Nothing <=> entities[id] = Nothing
    <3>1. Nothing \notin Values /\ Settled \in [Values -> Values]
      BY ReplicationConstants
    <3>2. \A id \in Ids : entities[id] # Nothing => entities[id] \in Values
      BY <1>t DEF TypeInv, TypeOK, Maybe
    <3> QED BY <2>1, <3>1, <3>2
  <2>3. Living' = Living
    BY <2>1, <2>2 DEF Living
  <2>4. PromisesTheLiving'
    BY <2>1, <2>3 DEF LivingInv, PromisesTheLiving
  <2>5. newborn # 0 => newborn \in Ids
    <3>1. newborn \in 0..MaxEntity
      BY <1>t DEF TypeInv, TypeOK
    <3> QED BY <3>1, ReplicationConstants DEF Ids
  <2>6. (ship # 0 => ship \in Ids) /\ untold \subseteq Ids
    BY <1>t, ReplicationConstants DEF TypeInv, TypeOK, Ids
  <2> QED BY <2>1, <2>2, <2>4, <2>5, <2>6 DEF LivingInv, GameShape
<1>2. ASSUME NEW c \in Clients, NextTarget(c)
      PROVE  GameShape' /\ PromisesTheLiving'
  <2>1. UNCHANGED <<registry, ship, strays, joining, promised, steady>>
    BY <1>2 DEF NextTarget
  <2> QED BY <1>t, <2>1, LivingKept
<1>3. ASSUME NEW id \in Ids, CompareUnchanged(id) \/ CompareChanged(id)
      PROVE  GameShape' /\ PromisesTheLiving'
  <2>1. UNCHANGED <<registry, ship, strays, joining, promised, steady>>
    BY <1>3 DEF CompareUnchanged, CompareChanged
  <2> QED BY <1>t, <2>1, LivingKept
<1>4. ASSUME NEW id \in Ids, FlushFull(id)
      PROVE  GameShape' /\ PromisesTheLiving'
  <2>1. target \in Clients
    BY <1>t, <1>4, TurnTarget DEF FlushFull
  <2>2. UNCHANGED <<registry, ship, strays, joining, steady>> /\ SendTo(target, Batch)
    BY <1>4 DEF FlushFull
  <2>3. \A c \in steady : Known(promised'[c]) = Known(promised[c])
    BY <1>t, <2>1, <2>2, SendStateKnown
  <2> QED BY <1>t, <2>2, <2>3, LivingKept
<1>5. ASSUME NEW id \in Ids, FlushFullFails(id)
      PROVE  GameShape' /\ PromisesTheLiving'
  <2>1. UNCHANGED <<registry, ship, strays, joining, promised>> /\ steady' \subseteq steady
    BY <1>5 DEF FlushFullFails, Drop
  <2> QED BY <1>t, <2>1, LivingKept
<1>6. CASE FlushLast
  <2>1. UNCHANGED <<registry, ship, strays, joining, steady>>
    BY <1>6 DEF FlushLast, EndOfTarget
  <2>2. CASE UNCHANGED promised
    BY <1>t, <2>1, <2>2, LivingKept
  <2>3. CASE SendTo(target, Batch)
    <3>1. target \in Clients
      BY <1>t, <1>6 DEF FlushLast, TypeInv, TypeOK
    <3>2. \A c \in steady : Known(promised'[c]) = Known(promised[c])
      BY <1>t, <2>3, <3>1, SendStateKnown
    <3> QED BY <1>t, <2>1, <3>2, LivingKept
  <2> QED BY <1>6, <2>2, <2>3 DEF FlushLast
<1>7. CASE FlushLastFails
  <2>1. UNCHANGED <<registry, ship, strays, joining, promised>> /\ steady' \subseteq steady
    BY <1>7 DEF FlushLastFails, EndOfTarget, Drop
  <2> QED BY <1>t, <2>1, LivingKept
<1> QED BY <1>1, <1>2, <1>3, <1>4, <1>5, <1>6, <1>7, <1>8, <1>9, <1>10
        DEF NetworkThread

\* The main thread keeps the promise: whoever it sends a packet to is not, or no
\* longer, one of the clients that were there from the start.
LEMMA LivingStepMain ==
  LivingInv /\ MainThread => GameShape' /\ PromisesTheLiving'
<1> SUFFICES ASSUME LivingInv, MainThread
             PROVE  GameShape' /\ PromisesTheLiving'
  OBVIOUS
<1> USE DEF registry, lobby, pass, whoami, history
<1>t. /\ joining \notin steady /\ steady \subseteq members /\ members \subseteq Clients
      /\ promised \in [Clients -> View] /\ NoClient \notin Clients
  BY ReplicationConstants DEF LivingInv, GameShape, TypeInv, TypeOK, View
<1>1. ASSUME NEW c \in Clients, Join(c)
      PROVE  GameShape' /\ PromisesTheLiving'
  <2>1. /\ UNCHANGED <<registry, ship, strays, steady>> /\ c \notin steady /\ joining' = c
        /\ promised' = [promised EXCEPT ![c] = Apply(@, Clear)]
    BY <1>t, <1>1 DEF Join, SendTo
  <2>2. \A d \in steady : promised'[d] = promised[d]
    BY <1>t, <2>1
  <2> QED BY <1>t, <2>1, <2>2, LivingKept
<1>2. ASSUME NEW id \in Ids, SyncPlayer(id)
      PROVE  GameShape' /\ PromisesTheLiving'
  <2>1. /\ UNCHANGED <<registry, ship, strays, steady, joining>>
        /\ promised' = [promised EXCEPT ![joining] = Apply(@, Spawn(id))]
    BY <1>2 DEF SyncPlayer, SendTo
  <2>2. \A d \in steady : promised'[d] = promised[d]
    BY <1>t, <2>1
  <2> QED BY <1>t, <2>1, <2>2, LivingKept
<1>3. CASE SyncDone
  <2>1. UNCHANGED <<registry, ship, strays, promised, steady>> /\ joining' = NoClient
    BY <1>3 DEF SyncDone
  <2> QED BY <1>t, <2>1, LivingKept
<1>4. ASSUME NEW c \in Clients, JoinAgain(c)
      PROVE  GameShape' /\ PromisesTheLiving'
  <2>1. /\ UNCHANGED <<registry, ship, strays, joining>> /\ steady' = steady \ {c}
        /\ promised' = [promised EXCEPT ![c] = Apply(@, Clear)]
    BY <1>4 DEF JoinAgain, SendTo
  <2>2. \A d \in steady' : promised'[d] = promised[d]
    BY <1>t, <2>1
  <2> QED BY <1>t, <2>1, <2>2, LivingKept
<1>5. ASSUME NEW c \in Clients, Leave(c)
      PROVE  GameShape' /\ PromisesTheLiving'
  <2>1. UNCHANGED <<registry, ship, strays, joining, promised>> /\ steady' \subseteq steady
    BY <1>5 DEF Leave, Drop
  <2> QED BY <1>t, <2>1, LivingKept
<1> QED BY <1>1, <1>2, <1>3, <1>4, <1>5 DEF MainThread

LEMMA LivingStep == LivingInv /\ [Next]_vars => LivingInv'
<1> SUFFICES ASSUME LivingInv, [Next]_vars
             PROVE  LivingInv'
  OBVIOUS
<1>1. TypeInv'
  BY TypeStep DEF LivingInv
<1>2. ASSUME NEW c \in Clients, Receive(c)
      PROVE  GameShape' /\ PromisesTheLiving'
  <2>1. UNCHANGED <<registry, ship, strays, joining, promised, steady>>
    BY <1>2 DEF Receive, lobby, pass, whoami, history
  <2> QED BY <2>1, LivingKept DEF LivingInv, GameShape
<1>3. ASSUME UNCHANGED vars
      PROVE  GameShape' /\ PromisesTheLiving'
  <2>1. UNCHANGED <<registry, ship, strays, joining, promised, steady>>
    BY <1>3 DEF vars, lobby, pass, whoami, history
  <2>2. joining' \notin steady' /\ steady' \subseteq steady
    BY <2>1 DEF LivingInv, GameShape
  <2> QED BY <2>1, <2>2, LivingKept
<1>4. GameThread \/ NetworkThread \/ MainThread \/ (\E c \in Clients : Receive(c))
        \/ UNCHANGED vars
  BY DEF Next
<1>5. GameShape' /\ PromisesTheLiving'
  BY <1>2, <1>3, <1>4, LivingStepGame, LivingStepNetwork, LivingStepMain
<1> QED BY <1>1, <1>5 DEF LivingInv

LEMMA LivingInvariant == Spec => []LivingInv
<1>1. Init => LivingInv
  <2>1. Init => GameShape /\ PromisesTheLiving
    BY ReplicationConstants
    DEF Init, GameShape, PromisesTheLiving, Living, Known, None
  <2> QED BY <2>1, TypeInit DEF LivingInv
<1> QED BY <1>1, LivingStep, PTL DEF Spec

\* What has been sent to a client that was there from the start adds up to the
\* living entities that are announced, through every level change, every dropped
\* client and every ship the network thread makes meanwhile: only ships that cross
\* their own end or a level change are excepted.
THEOREM LivingCorrect == Spec => []PromisesTheLiving
<1>1. LivingInv => PromisesTheLiving
  BY DEF LivingInv
<1> QED BY <1>1, LivingInvariant, PTL

-----------------------------------------------------------------------------
(* Spawns.                                                                  *)

\* What an appended packet says of the one that was appended.
LEMMA AppendTells ==
  ASSUME NEW s \in Seq(Packet), NEW p \in Packet, NEW q \in Packet
  PROVE  /\ Append(s, p) # s
         /\ Append(s, p) = Append(s, q) => p = q
<1>1. /\ Len(Append(s, p)) = Len(s) + 1 /\ Len(s) \in Nat
      /\ Append(s, p)[Len(s) + 1] = p
      /\ Append(s, q)[Len(s) + 1] = q
  OBVIOUS
<1> QED BY <1>1

\* Only a SPAWN is a SPAWN.
LEMMA SpawnsDiffer ==
  /\ \A id, other \in Ids : Spawn(id) = Spawn(other) => id = other
  /\ \A id, other \in Ids : Spawn(id) # Death(other)
  /\ \A id \in Ids : Spawn(id) # Clear
  /\ \A id \in Ids : \A of : Spawn(id) # State(of)
<1>1. \A id \in Ids : Spawn(id).kind = "spawn" /\ Spawn(id).id = id /\ Death(id).kind = "death"
  BY DEF Spawn, Death
<1>2. Clear.kind = "clear" /\ \A of : State(of).kind = "state"
  BY DEF Clear, State
<1> QED BY <1>1, <1>2

SpawnsNew ==
  \A c \in steady, id \in Ids :
    wire'[c] = Append(wire[c], Spawn(id))
      => promised[c][id] = Nothing \/ id \in strays'

\* A broadcast of anything but a SPAWN of an entity some client knows is fine.
LEMMA BroadcastNew ==
  ASSUME TypeOK, NEW p \in Packet, NEW room, Broadcast(p, room),
         \A c \in steady, id \in Ids :
           p = Spawn(id) => promised[c][id] = Nothing \/ id \in strays'
  PROVE  SpawnsNew
<1> SUFFICES ASSUME NEW c \in steady, NEW id \in Ids,
                    wire'[c] = Append(wire[c], Spawn(id))
             PROVE  promised[c][id] = Nothing \/ id \in strays'
  BY DEF SpawnsNew
<1>1. c \in Clients /\ wire[c] \in Seq(Packet)
  BY DEF TypeOK
<1>2. wire'[c] \in {wire[c], Append(wire[c], p)}
  BY <1>1, BroadcastType
<1>3. p = Spawn(id)
  BY <1>1, <1>2, AppendTells, PacketTypes
<1> QED BY <1>3

\* So is a packet sent to one client, if it is not a SPAWN or the client is not
\* steady.
LEMMA SendToNew ==
  ASSUME TypeOK, NEW d \in Clients, NEW p \in Packet, SendTo(d, p),
         d \in steady => \A id \in Ids : p # Spawn(id)
  PROVE  SpawnsNew
<1> SUFFICES ASSUME NEW c \in steady, NEW id \in Ids,
                    wire'[c] = Append(wire[c], Spawn(id))
             PROVE  promised[c][id] = Nothing \/ id \in strays'
  BY DEF SpawnsNew
<1>1. c \in Clients /\ wire \in [Clients -> Seq(Packet)] /\ wire[c] \in Seq(Packet)
  BY DEF TypeOK
<1>2. wire'[c] = IF c = d THEN Append(wire[c], p) ELSE wire[c]
  BY <1>1 DEF SendTo
<1> QED BY <1>1, <1>2, AppendTells, PacketTypes

\* Nothing is sent.
LEMMA SilentNew ==
  ASSUME TypeOK, wire' = wire
  PROVE  SpawnsNew
<1> SUFFICES ASSUME NEW c \in steady, NEW id \in Ids,
                    wire'[c] = Append(wire[c], Spawn(id))
             PROVE  FALSE
  BY DEF SpawnsNew
<1>1. wire[c] \in Seq(Packet)
  BY DEF TypeOK
<1> QED BY <1>1, AppendTells, PacketTypes

LEMMA SpawnsNewStep == LivingInv /\ [Next]_vars => SpawnsNew
<1> SUFFICES ASSUME LivingInv, [Next]_vars
             PROVE  SpawnsNew
  OBVIOUS
<1> USE DEF registry, lobby, pass, whoami, history
<1>t. TypeInv /\ TypeOK
  BY DEF LivingInv, TypeInv
<1>1. CASE Announce
  <2>1. newborn # 0 /\ Broadcast(Spawn(newborn), MaxWire - 1)
    BY <1>1 DEF Announce
  <2>2. newborn \in Ids
    <3>1. newborn \in 0..MaxEntity
      BY <1>t DEF TypeOK
    <3> QED BY <2>1, <3>1, ReplicationConstants DEF Ids
  <2>3. game = "run"
    BY <2>1 DEF LivingInv, GameShape
  <2>4. \A c \in steady : newborn \notin Known(promised[c]) \/ newborn \in strays'
    <3>1. newborn \notin Living /\ strays' = strays
      BY <1>1 DEF Announce, Living
    <3> QED BY <2>3, <3>1 DEF LivingInv, PromisesTheLiving
  <2>5. \A c \in steady, id \in Ids :
          Spawn(newborn) = Spawn(id) => promised[c][id] = Nothing \/ id \in strays'
    BY <2>2, <2>4, SpawnsDiffer DEF Known
  <2> QED BY <1>t, <2>1, <2>2, <2>5, PacketTypes, BroadcastNew
<1>15. CASE AnnounceShip
  <2>1. /\ ship # 0 /\ Broadcast(Spawn(ship), MaxWire)
        /\ strays' = IF game = "run" THEN strays ELSE strays \cup {ship}
    BY <1>15 DEF AnnounceShip
  <2>2. ship \in Ids
    BY <1>t, <2>1, ShipId
  <2>3. \A c \in steady : ship \notin Known(promised[c]) \/ ship \in strays'
    <3>1. ship \notin Living
      BY DEF Living
    <3> QED BY <2>1, <3>1 DEF LivingInv, PromisesTheLiving
  <2>4. \A c \in steady, id \in Ids :
          Spawn(ship) = Spawn(id) => promised[c][id] = Nothing \/ id \in strays'
    BY <2>2, <2>3, SpawnsDiffer DEF Known
  <2> QED BY <1>t, <2>1, <2>2, <2>4, PacketTypes, BroadcastNew
<1>2. ASSUME NEW id \in Ids, Destroy(id)
      PROVE  SpawnsNew
  <2>1. Broadcast(Death(id), MaxWire - 1) /\ Death(id) \in Packet
    BY <1>2, PacketTypes DEF Destroy
  <2> QED BY <1>t, <2>1, SpawnsDiffer, BroadcastNew
<1>3. CASE NextLevelPacket
  <2>1. Broadcast(Clear, MaxWire - 1) /\ Clear \in Packet
    BY <1>3, PacketTypes DEF NextLevelPacket
  <2> QED BY <1>t, <2>1, SpawnsDiffer, BroadcastNew
<1>4. ASSUME SendTo(target, Batch), target \in Clients
      PROVE  SpawnsNew
  <2>1. Batch \in Packet /\ \A id \in Ids : Batch # Spawn(id)
    BY <1>t, BatchType, SpawnsDiffer DEF Batch
  <2> QED BY <1>t, <1>4, <2>1, SendToNew
<1>5. ASSUME NEW id \in Ids, FlushFull(id)
      PROVE  SpawnsNew
  BY <1>t, <1>4, <1>5, TurnTarget DEF FlushFull
<1>6. CASE FlushLast
  <2>1. target \in Clients
    BY <1>6, <1>t DEF FlushLast, TypeOK
  <2>2. wire' = wire \/ SendTo(target, Batch)
    BY <1>6 DEF FlushLast
  <2> QED BY <1>t, <1>4, <2>1, <2>2, SilentNew
<1>7. ASSUME NEW c \in Clients, Join(c) \/ JoinAgain(c)
      PROVE  SpawnsNew
  <2>1. SendTo(c, Clear) /\ Clear \in Packet
    BY <1>7, PacketTypes DEF Join, JoinAgain
  <2> QED BY <1>t, <2>1, SpawnsDiffer, SendToNew
<1>8. ASSUME NEW id \in Ids, SyncPlayer(id)
      PROVE  SpawnsNew
  <2>1. SendTo(joining, Spawn(id)) /\ joining \in Clients /\ joining \notin steady
    BY <1>8, <1>t DEF SyncPlayer, TypeOK, LivingInv, GameShape
  <2> QED BY <1>t, <2>1, PacketTypes, SendToNew
<1>9. ASSUME NEW c \in Clients, Receive(c)
      PROVE  SpawnsNew
  <2>1. PICK i \in DOMAIN wire[c] : \E stays \in BOOLEAN :
          wire' = [wire EXCEPT ![c] = IF stays THEN @ ELSE RemoveAt(@, i)]
    BY <1>9 DEF Receive
  <2>2. wire \in [Clients -> Seq(Packet)] /\ steady \subseteq Clients
    BY <1>t DEF TypeOK
  <2>3. \A d \in Clients : wire'[d] \in Seq(Packet) /\ Len(wire'[d]) <= Len(wire[d])
    <3>1. Len(RemoveAt(wire[c], i)) = Len(wire[c]) - 1 /\ RemoveAt(wire[c], i) \in Seq(Packet)
      BY <2>2, RemoveAtType
    <3>2. Len(wire[c]) \in Nat
      BY <2>2
    <3>3. \A d \in Clients : /\ wire'[d] \in {wire[d], RemoveAt(wire[c], i)}
                             /\ d # c => wire'[d] = wire[d]
      BY <2>1, <2>2
    <3>4. \A d \in Clients : Len(wire[d]) \in Nat
      BY <2>2
    <3> QED BY <2>2, <3>1, <3>2, <3>3, <3>4
  <2>4. \A d \in Clients, id \in Ids : Len(Append(wire[d], Spawn(id))) = Len(wire[d]) + 1
    BY <2>2, PacketTypes
  <2>5. \A d \in Clients, id \in Ids : wire'[d] # Append(wire[d], Spawn(id))
    <3>1. \A d \in Clients : Len(wire[d]) \in Nat /\ Len(wire'[d]) \in Nat
      BY <2>2, <2>3
    <3> QED BY <2>3, <2>4, <3>1
  <2> QED BY <2>2, <2>5 DEF SpawnsNew
<1>10. CASE UNCHANGED vars
  BY <1>t, <1>10, SilentNew DEF vars
<1>11. ASSUME wire' = wire
       PROVE  SpawnsNew
  BY <1>t, <1>11, SilentNew
<1>12. CASE GameThread
  BY <1>1, <1>2, <1>3, <1>11, <1>12
  DEF GameThread, Instantiate, CreateUntold, Change, ClearLevel, ClearCaches
<1>13. CASE NetworkThread
  BY <1>5, <1>6, <1>11, <1>13, <1>15
  DEF NetworkThread, WhoAmI, CreateShip, Serialise, NextTarget, CompareUnchanged, CompareChanged,
      FlushFullFails, FlushLastFails
<1>14. CASE MainThread
  BY <1>7, <1>8, <1>11, <1>14 DEF MainThread, SyncDone, Leave
<1> QED BY <1>9, <1>10, <1>12, <1>13, <1>14 DEF Next

\* No SPAWN names an entity a client still has, so no local entity is left behind,
\* whichever thread made the entity; a ship that crosses its end or a level change is
\* the exception.
THEOREM NewSpawns == Spec => SpawnsAreNew
<1>1. LivingInv /\ [Next]_vars =>
        [\A c \in steady, id \in Ids :
           wire'[c] = Append(wire[c], Spawn(id))
             => promised[c][id] = Nothing \/ id \in strays']_vars
  BY SpawnsNewStep DEF SpawnsNew
<1> QED BY <1>1, LivingInvariant, PTL DEF Spec, SpawnsAreNew

-----------------------------------------------------------------------------
(* The delta cache.                                                         *)

\* What is batched for the client of the pass has been entered in its cache, unless
\* a level change has emptied the cache since.
PendingInv == \A id \in batched : cache[target][id] \in {Nothing, snapshot[id]}

LatestInv == TypeInv /\ PendingInv /\ PromisesTheLatest

\* A packet other than a state leaves an entity as it was, without updates, or gone.
LEMMA ApplyOther ==
  ASSUME NEW shown \in View, NEW id \in Ids, NEW i \in Ids
  PROVE  /\ Apply(shown, Spawn(id))[i] \in {shown[i], Blank}
         /\ Apply(shown, Death(id))[i] \in {shown[i], Nothing}
         /\ Apply(shown, Clear)[i] = Nothing
BY ApplyOne, SMTT(30) DEF View, None

\* A step that adds nothing to the cache and sends a member nothing but packets of
\* that kind keeps what the cache says true.
LEMMA LatestKept ==
  ASSUME LatestInv, UNCHANGED <<snapshot, target, batched>>,
         \A c \in Clients, id \in Ids : cache'[c][id] \in {Nothing, cache[c][id]},
         members' \subseteq Clients,
         \A c \in members', id \in Ids :
           \/ promised'[c][id] \in {Blank, Nothing}
           \/ c \in members /\ promised'[c][id] = promised[c][id]
  PROVE  PendingInv' /\ PromisesTheLatest'
<1>1. batched \subseteq Ids /\ (batched # {} => target \in Clients)
  BY DEF LatestInv, TypeInv, TypeOK, PassShape
<1>2. PendingInv'
  BY <1>1 DEF LatestInv, PendingInv
<1>3. ASSUME NEW c \in members', NEW id \in Ids, cache'[c][id] # Nothing,
             ~(target' = c /\ id \in batched')
      PROVE  promised'[c][id] \in {cache'[c][id], Blank, Nothing}
  <2>1. cache'[c][id] = cache[c][id]
    BY <1>3
  <2> QED BY <1>3, <2>1 DEF LatestInv, PromisesTheLatest
<1> QED BY <1>2, <1>3 DEF PromisesTheLatest

\* What a broadcast of such a packet promises.
LEMMA BroadcastOther ==
  ASSUME TypeOK, NEW p \in Packet, NEW room, Broadcast(p, room),
         \A shown \in View, i \in Ids : Apply(shown, p)[i] \in {shown[i], Blank, Nothing}
  PROVE  \A c \in members, i \in Ids : promised'[c][i] \in {promised[c][i], Blank, Nothing}
<1>1. promised \in [Clients -> View] /\ members \subseteq Clients
  BY DEF TypeOK, View
<1>2. \A c \in Clients : promised'[c] \in {promised[c], Apply(promised[c], p)}
  BY BroadcastType
<1> QED BY <1>1, <1>2

\* The game thread adds nothing to the cache and sends no states.
LEMMA LatestStepGame ==
  LatestInv /\ GameThread => PendingInv' /\ PromisesTheLatest'
<1> SUFFICES ASSUME LatestInv, GameThread
             PROVE  PendingInv' /\ PromisesTheLatest'
  OBVIOUS
<1> USE DEF registry, lobby, pass, whoami, history
<1>t. TypeOK /\ members \subseteq Clients
  BY DEF LatestInv, TypeInv, TypeOK
<1>1. ASSUME UNCHANGED <<members, pass, cache, promised>>
      PROVE  PendingInv' /\ PromisesTheLatest'
  BY <1>t, <1>1, LatestKept
<1>2. ASSUME NEW p \in Packet, NEW room, Broadcast(p, room),
             UNCHANGED <<members, pass, cache>>,
             \A shown \in View, i \in Ids : Apply(shown, p)[i] \in {shown[i], Blank, Nothing}
      PROVE  PendingInv' /\ PromisesTheLatest'
  <2>1. \A c \in members, i \in Ids : promised'[c][i] \in {promised[c][i], Blank, Nothing}
    BY <1>t, <1>2, BroadcastOther
  <2> QED BY <1>t, <1>2, <2>1, LatestKept
<1>3. CASE Announce
  <2>1. newborn # 0 /\ Broadcast(Spawn(newborn), MaxWire - 1) /\ UNCHANGED <<members, pass, cache>>
    BY <1>3 DEF Announce
  <2>2. newborn \in Ids
    <3>1. newborn \in 0..MaxEntity
      BY <1>t DEF TypeOK
    <3> QED BY <2>1, <3>1, ReplicationConstants DEF Ids
  <2> QED BY <1>2, <2>1, <2>2, ApplyOther, PacketTypes
<1>4. ASSUME NEW id \in Ids, Destroy(id)
      PROVE  PendingInv' /\ PromisesTheLatest'
  BY <1>2, <1>4, ApplyOther, PacketTypes DEF Destroy
<1>5. CASE NextLevelPacket
  BY <1>2, <1>5, ApplyOther, PacketTypes DEF NextLevelPacket
<1>6. CASE ClearCaches
  <2>1. /\ UNCHANGED <<members, pass, promised>>
        /\ \A c \in Clients, id \in Ids : cache'[c][id] = Nothing
    BY <1>6 DEF ClearCaches, None
  <2> QED BY <1>t, <2>1, LatestKept
<1>7. CASE \/ \E v \in Values : Instantiate(v) \/ CreateUntold(v)
           \/ \E id \in Ids, v \in Values : Change(id, v)
           \/ ClearLevel
  BY <1>1, <1>7 DEF Instantiate, CreateUntold, Change, ClearLevel
<1> QED BY <1>3, <1>4, <1>5, <1>6, <1>7 DEF GameThread

\* What a batch, once sent, makes of the promise to the client of the pass.
LEMMA SendBatchPromise ==
  ASSUME LatestInv, target \in Clients, SendTo(target, Batch)
  PROVE  /\ \A c \in Clients \ {target} : promised'[c] = promised[c]
         /\ \A i \in Ids \ batched : promised'[target][i] = promised[target][i]
         /\ \A i \in batched : promised'[target][i] \in {snapshot[i], Nothing}
<1>1. /\ promised \in [Clients -> View]
      /\ promised' = [promised EXCEPT ![target] = Apply(@, Batch)]
  BY DEF LatestInv, TypeInv, TypeOK, View, SendTo
<1>2. Apply(promised[target], Batch) =
        [i \in Ids |-> IF i \in batched /\ promised[target][i] # Nothing
                       THEN snapshot[i] ELSE promised[target][i]]
  <2>1. Apply(promised[target], Batch) =
          [i \in Ids |->
             IF i \in DOMAIN [id \in batched |-> snapshot[id]] /\ promised[target][i] # Nothing
             THEN [id \in batched |-> snapshot[id]][i] ELSE promised[target][i]]
    BY <1>1, ApplyState DEF Batch
  <2> QED BY <2>1
<1>3. batched \subseteq Ids
  BY DEF LatestInv, TypeInv, TypeOK
<1> QED BY <1>1, <1>2, <1>3

\* The network thread enters in the cache what it batches, and what it has batched
\* it sends, or the client it could not send it to is no member any more.
LEMMA LatestStepNetwork ==
  LatestInv /\ NetworkThread => PendingInv' /\ PromisesTheLatest'
<1> SUFFICES ASSUME LatestInv, NetworkThread
             PROVE  PendingInv' /\ PromisesTheLatest'
  OBVIOUS
<1> USE DEF registry, lobby, pass, whoami, history
<1>t. /\ TypeInv /\ members \subseteq Clients /\ batched \subseteq Ids
      /\ cache \in [Clients -> [Ids -> Maybe(Values)]]
      /\ target = NoClient => batched = {}
  BY DEF LatestInv, TypeInv, TypeOK, PassShape
<1>9. ASSUME NEW c \in Clients, WhoAmI(c)
      PROVE  PendingInv' /\ PromisesTheLatest'
  <2>1. UNCHANGED <<snapshot, target, batched, members, promised, cache>>
    BY <1>9 DEF WhoAmI
  <2> QED BY <1>t, <2>1, LatestKept
<1>10. ASSUME NEW v \in Values, CreateShip(v)
       PROVE  PendingInv' /\ PromisesTheLatest'
  <2>1. UNCHANGED <<snapshot, target, batched, members, promised, cache>>
    BY <1>10 DEF CreateShip
  <2> QED BY <1>t, <2>1, LatestKept
<1>11. CASE AnnounceShip
  <2>1. /\ ship # 0 /\ Broadcast(Spawn(ship), MaxWire)
        /\ UNCHANGED <<snapshot, target, batched, members, cache>>
    BY <1>11 DEF AnnounceShip
  <2>2. TypeOK /\ ship \in Ids
    BY <1>t, <2>1, ShipId DEF TypeInv
  <2>3. \A shown \in View, i \in Ids :
          Apply(shown, Spawn(ship))[i] \in {shown[i], Blank, Nothing}
    BY <2>2, ApplyOther
  <2>4. \A c \in members, i \in Ids : promised'[c][i] \in {promised[c][i], Blank, Nothing}
    BY <2>1, <2>2, <2>3, PacketTypes, BroadcastOther
  <2> QED BY <1>t, <2>1, <2>4, LatestKept
<1>1. CASE Serialise
  <2>1. /\ target = NoClient /\ UNCHANGED <<target, batched, members, promised>>
        /\ \A c \in Clients, id \in Ids : cache'[c][id] \in {Nothing, cache[c][id]}
    BY <1>1 DEF Serialise, Idle
  <2>2. batched = {}
    BY <1>t, <2>1
  <2> QED BY <1>t, <2>1, <2>2 DEF LatestInv, PendingInv, PromisesTheLatest
<1>2. ASSUME NEW c \in Clients, NextTarget(c)
      PROVE  PendingInv' /\ PromisesTheLatest'
  <2>1. target = NoClient /\ UNCHANGED <<batched, members, promised, cache>>
    BY <1>2 DEF NextTarget
  <2>2. batched = {}
    BY <1>t, <2>1
  <2> QED BY <2>1, <2>2 DEF LatestInv, PendingInv, PromisesTheLatest
<1>3. ASSUME NEW id \in Ids, CompareUnchanged(id)
      PROVE  PendingInv' /\ PromisesTheLatest'
  <2>1. UNCHANGED <<snapshot, target, batched, members, promised, cache>>
    BY <1>3 DEF CompareUnchanged
  <2> QED BY <1>t, <2>1, LatestKept
<1>r. ASSUME NEW id \in Ids, target \in Clients, Remember(id)
      PROVE  /\ cache'[target][id] = snapshot[id]
             /\ \A i \in Ids \ {id} : cache'[target][i] = cache[target][i]
             /\ \A c \in Clients \ {target} : cache'[c] = cache[c]
  BY <1>t, <1>r DEF Remember
<1>4. ASSUME NEW id \in Ids, CompareChanged(id)
      PROVE  PendingInv' /\ PromisesTheLatest'
  <2>1. /\ target \in Clients /\ Remember(id) /\ batched' = batched \cup {id}
        /\ UNCHANGED <<snapshot, target, members, promised>>
    BY <1>t, <1>4, TurnTarget DEF CompareChanged
  <2>2. PendingInv'
    BY <1>t, <1>r, <2>1 DEF LatestInv, PendingInv
  <2>3. PromisesTheLatest'
    BY <1>t, <1>r, <2>1 DEF LatestInv, PromisesTheLatest
  <2> QED BY <2>2, <2>3
<1>5. ASSUME NEW id \in Ids, FlushFull(id)
      PROVE  PendingInv' /\ PromisesTheLatest'
  <2>1. /\ target \in Clients /\ Remember(id) /\ batched' = {id}
        /\ SendTo(target, Batch) /\ UNCHANGED <<snapshot, target, members>>
    BY <1>t, <1>5, TurnTarget DEF FlushFull
  <2>2. PendingInv'
    BY <1>t, <1>r, <2>1 DEF PendingInv
  <2>3. ASSUME NEW c \in members, NEW i \in Ids, cache'[c][i] # Nothing,
               ~(target = c /\ i = id)
        PROVE  promised'[c][i] \in {cache'[c][i], Blank, Nothing}
    <3>1. CASE c # target
      <4>1. promised'[c] = promised[c] /\ cache'[c] = cache[c]
        BY <1>t, <1>r, <2>1, <3>1, SendBatchPromise
      <4> QED BY <2>3, <3>1, <4>1 DEF LatestInv, PromisesTheLatest
    <3>2. CASE c = target /\ i \in batched
      <4>1. cache'[c][i] = snapshot[i]
        BY <1>r, <2>1, <2>3, <3>2 DEF LatestInv, PendingInv
      <4> QED BY <2>1, <3>2, <4>1, SendBatchPromise
    <3>3. CASE c = target /\ i \notin batched
      <4>1. promised'[c][i] = promised[c][i] /\ cache'[c][i] = cache[c][i]
        BY <1>r, <2>1, <2>3, <3>3, SendBatchPromise
      <4> QED BY <2>3, <3>3, <4>1 DEF LatestInv, PromisesTheLatest
    <3> QED BY <3>1, <3>2, <3>3
  <2> QED BY <2>1, <2>2, <2>3 DEF PromisesTheLatest
<1>6. ASSUME NEW id \in Ids, FlushFullFails(id)
      PROVE  PendingInv' /\ PromisesTheLatest'
  <2>1. /\ target \in Clients /\ Remember(id) /\ members' = members \ {target}
        /\ UNCHANGED <<snapshot, target, batched, promised>>
    BY <1>t, <1>6, TurnTarget DEF FlushFullFails, Drop
  <2>2. PendingInv'
    BY <1>t, <1>r, <2>1 DEF LatestInv, PendingInv
  <2>3. PromisesTheLatest'
    BY <1>t, <1>r, <2>1 DEF LatestInv, PromisesTheLatest
  <2> QED BY <2>2, <2>3
<1>7. CASE FlushLast
  <2>1. /\ target \in Clients /\ batched' = {} /\ UNCHANGED <<members, cache>>
    BY <1>t, <1>7 DEF FlushLast, EndOfTarget, TypeInv, TypeOK
  <2>2. ASSUME NEW c \in members, NEW i \in Ids, cache[c][i] # Nothing
        PROVE  promised'[c][i] \in {cache[c][i], Blank, Nothing}
    <3>1. CASE batched = {} /\ UNCHANGED promised
      BY <2>2, <3>1 DEF LatestInv, PromisesTheLatest
    <3>2. CASE SendTo(target, Batch)
      <4>1. CASE c # target
        BY <1>t, <2>1, <2>2, <3>2, <4>1, SendBatchPromise DEF LatestInv, PromisesTheLatest
      <4>2. CASE c = target /\ i \in batched
        BY <2>1, <2>2, <3>2, <4>2, SendBatchPromise DEF LatestInv, PendingInv
      <4>3. CASE c = target /\ i \notin batched
        BY <2>1, <2>2, <3>2, <4>3, SendBatchPromise DEF LatestInv, PromisesTheLatest
      <4> QED BY <4>1, <4>2, <4>3
    <3> QED BY <1>7, <3>1, <3>2 DEF FlushLast
  <2> QED BY <2>1, <2>2 DEF PendingInv, PromisesTheLatest
<1>8. CASE FlushLastFails
  <2>1. /\ batched' = {} /\ members' = members \ {target} /\ UNCHANGED <<cache, promised>>
    BY <1>8 DEF FlushLastFails, EndOfTarget, Drop
  <2> QED BY <2>1 DEF LatestInv, PendingInv, PromisesTheLatest
<1> QED BY <1>1, <1>2, <1>3, <1>4, <1>5, <1>6, <1>7, <1>8, <1>9, <1>10, <1>11
        DEF NetworkThread

\* The main thread: who joins is told to forget everything first.
LEMMA LatestStepMain ==
  LatestInv /\ MainThread => PendingInv' /\ PromisesTheLatest'
<1> SUFFICES ASSUME LatestInv, MainThread
             PROVE  PendingInv' /\ PromisesTheLatest'
  OBVIOUS
<1> USE DEF registry, lobby, pass, whoami, history
<1>t. /\ members \subseteq Clients /\ promised \in [Clients -> View]
      /\ joining # NoClient => joining \in Clients
  BY DEF LatestInv, TypeInv, TypeOK, View
<1>1. ASSUME NEW c \in Clients, Join(c)
      PROVE  PendingInv' /\ PromisesTheLatest'
  <2>1. /\ UNCHANGED <<pass, cache>> /\ members' = members \cup {c}
        /\ promised' = [promised EXCEPT ![c] = Apply(@, Clear)]
    BY <1>1 DEF Join, SendTo
  <2>2. ASSUME NEW d \in members', NEW i \in Ids
        PROVE  \/ promised'[d][i] \in {Blank, Nothing}
               \/ d \in members /\ promised'[d][i] = promised[d][i]
    <3>1. CASE d = c
      <4>1. promised[c] \in View
        BY <1>t
      <4>2. Apply(promised[c], Clear)[i] = Nothing
        BY <4>1, ApplyOther
      <4> QED BY <1>t, <2>1, <3>1, <4>2
    <3>2. CASE d # c
      BY <1>t, <2>1, <3>2
    <3> QED BY <3>1, <3>2
  <2>3. members' \subseteq Clients
    BY <1>t, <2>1
  <2> QED BY <2>1, <2>2, <2>3, LatestKept
<1>2. ASSUME NEW id \in Ids, SyncPlayer(id)
      PROVE  PendingInv' /\ PromisesTheLatest'
  <2>1. /\ UNCHANGED <<pass, cache, members>> /\ joining \in Clients
        /\ promised' = [promised EXCEPT ![joining] = Apply(@, Spawn(id))]
    BY <1>t, <1>2 DEF SyncPlayer, SendTo
  <2>2. \A d \in members, i \in Ids : promised'[d][i] \in {promised[d][i], Blank}
    BY <1>t, <2>1, ApplyOther
  <2> QED BY <1>t, <2>1, <2>2, LatestKept
<1>3. CASE SyncDone
  <2>1. UNCHANGED <<pass, cache, members, promised>>
    BY <1>3 DEF SyncDone
  <2> QED BY <1>t, <2>1, LatestKept
<1>4. ASSUME NEW c \in Clients, JoinAgain(c)
      PROVE  PendingInv' /\ PromisesTheLatest'
  <2>1. /\ UNCHANGED <<pass, cache, members>>
        /\ promised' = [promised EXCEPT ![c] = Apply(@, Clear)]
    BY <1>4 DEF JoinAgain, SendTo
  <2>2. \A d \in members, i \in Ids : promised'[d][i] \in {promised[d][i], Nothing}
    BY <1>t, <2>1, ApplyOther
  <2> QED BY <1>t, <2>1, <2>2, LatestKept
<1>5. ASSUME NEW c \in Clients, Leave(c)
      PROVE  PendingInv' /\ PromisesTheLatest'
  <2>1. UNCHANGED <<pass, cache, promised>> /\ members' \subseteq members
    BY <1>5 DEF Leave, Drop
  <2> QED BY <1>t, <2>1, LatestKept
<1> QED BY <1>1, <1>2, <1>3, <1>4, <1>5 DEF MainThread

LEMMA LatestStep == LatestInv /\ [Next]_vars => LatestInv'
<1> SUFFICES ASSUME LatestInv, [Next]_vars
             PROVE  LatestInv'
  OBVIOUS
<1>1. TypeInv'
  BY TypeStep DEF LatestInv
<1>t. members \subseteq Clients
  BY DEF LatestInv, TypeInv, TypeOK
<1>2. ASSUME UNCHANGED <<members, pass, cache, promised>>
      PROVE  PendingInv' /\ PromisesTheLatest'
  BY <1>t, <1>2, LatestKept DEF pass
<1>3. ASSUME NEW c \in Clients, Receive(c)
      PROVE  UNCHANGED <<members, pass, cache, promised>>
  BY <1>3 DEF Receive, lobby, history
<1>4. UNCHANGED vars => UNCHANGED <<members, pass, cache, promised>>
  BY DEF vars, lobby, history
<1>5. GameThread \/ NetworkThread \/ MainThread \/ (\E c \in Clients : Receive(c))
        \/ UNCHANGED vars
  BY DEF Next
<1>6. PendingInv' /\ PromisesTheLatest'
  BY <1>2, <1>3, <1>4, <1>5, LatestStepGame, LatestStepNetwork, LatestStepMain
<1> QED BY <1>1, <1>6 DEF LatestInv

\* The delta cache never holds a state for a member that was not sent to it or that
\* an older one followed, although it is written before the batch is sent and other
\* threads clear it, drop the client and let it in again in between.
THEOREM LatestCorrect == Spec => []PromisesTheLatest
<1>1. Init => LatestInv
  <2>1. Init => PendingInv /\ PromisesTheLatest
    <3>1. Init => batched = {} /\ \A c \in Clients, id \in Ids : cache[c][id] = Nothing
      BY DEF Init, None
    <3>2. Init => members \subseteq Clients
      BY ReplicationConstants DEF Init
    <3> QED BY <3>1, <3>2 DEF PendingInv, PromisesTheLatest
  <2> QED BY <2>1, TypeInit DEF LatestInv
<1>2. LatestInv => PromisesTheLatest
  BY DEF LatestInv
<1> QED BY <1>1, <1>2, LatestStep, PTL DEF Spec

-----------------------------------------------------------------------------
(* What is in flight, on a network that keeps order and loses nothing: it     *)
(* takes the client from what it shows to what it has been promised.          *)

\* The packets of seq, applied one after the other, make "to" of "from".
Leads(seq, from, to) ==
  \E seen \in [0..Len(seq) -> View] :
    /\ seen[0] = from
    /\ seen[Len(seq)] = to
    /\ \A i \in 1..Len(seq) : seen[i] = Apply(seen[i - 1], seq[i])

FlightInv == \A c \in Clients : Leads(wire[c], view[c], promised[c])

\* A packet sent after those in flight is applied after them.
LEMMA LeadsAppend ==
  ASSUME NEW seq \in Seq(Packet), NEW from \in View, NEW to \in View,
         NEW p \in Packet, Leads(seq, from, to)
  PROVE  Leads(Append(seq, p), from, Apply(to, p))
<1> DEFINE n == Len(seq)
           more == Append(seq, p)
<1>1. PICK seen \in [0..n -> View] :
        /\ seen[0] = from
        /\ seen[n] = to
        /\ \A i \in 1..n : seen[i] = Apply(seen[i - 1], seq[i])
  BY DEF Leads
<1>2. /\ n \in Nat /\ Len(more) = n + 1
      /\ more[n + 1] = p
      /\ \A i \in 1..n : more[i] = seq[i]
  OBVIOUS
<1> DEFINE then == [i \in 0..(n + 1) |-> IF i = n + 1 THEN Apply(to, p) ELSE seen[i]]
<1>3. then \in [0..(n + 1) -> View]
  <2>1. Apply(to, p) \in View
    BY ApplyType
  <2>2. \A i \in 0..(n + 1) : i # n + 1 => i \in 0..n
    BY <1>2
  <2> QED BY <1>1, <2>1, <2>2
<1>4. then[0] = from /\ then[n + 1] = Apply(to, p)
  BY <1>1, <1>2
<1>5. ASSUME NEW i \in 1..(n + 1)
      PROVE  then[i] = Apply(then[i - 1], more[i])
  <2>1. CASE i = n + 1
    <3>1. then[i - 1] = to /\ then[i] = Apply(to, p) /\ more[i] = p
      BY <1>1, <1>2, <2>1
    <3> QED BY <3>1
  <2>2. CASE i # n + 1
    <3>1. i \in 1..n /\ i - 1 \in 0..n /\ i - 1 # n + 1
      BY <1>2, <2>2
    <3>2. then[i] = seen[i] /\ then[i - 1] = seen[i - 1] /\ more[i] = seq[i]
      BY <1>2, <3>1
    <3> QED BY <1>1, <3>1, <3>2
  <2> QED BY <2>1, <2>2
<1> HIDE DEF n, more, then
<1>6. then \in [0..Len(more) -> View] /\ then[Len(more)] = Apply(to, p)
  BY <1>2, <1>3, <1>4
<1>7. \A i \in 1..Len(more) : then[i] = Apply(then[i - 1], more[i])
  BY <1>2, <1>5
<1>8. Leads(more, from, Apply(to, p))
  BY <1>4, <1>6, <1>7 DEF Leads
<1> QED BY <1>8 DEF more

\* The first packet of those in flight, once applied, leaves the others to apply.
LEMMA LeadsFirst ==
  ASSUME NEW seq \in Seq(Packet), NEW from \in View, NEW to \in View,
         1 \in DOMAIN seq, Leads(seq, from, to)
  PROVE  Leads(RemoveAt(seq, 1), Apply(from, seq[1]), to)
<1> DEFINE n == Len(seq)
           rest == RemoveAt(seq, 1)
<1>1. PICK seen \in [0..n -> View] :
        /\ seen[0] = from
        /\ seen[n] = to
        /\ \A i \in 1..n : seen[i] = Apply(seen[i - 1], seq[i])
  BY DEF Leads
<1>2. n \in Nat /\ n >= 1
  OBVIOUS
<1>3. Len(rest) = n - 1 /\ \A i \in 1..(n - 1) : rest[i] = seq[i + 1]
  <2> DEFINE before == SubSeq(seq, 1, 0)
             after == SubSeq(seq, 2, n)
  <2>1. before = <<>>
    OBVIOUS
  <2>2. /\ after \in Seq(Packet) /\ Len(after) = n - 1
        /\ \A i \in 1..(n - 1) : after[i] = seq[i + 1]
    BY <1>2
  <2>3. rest = before \o after
    BY <1>2 DEF RemoveAt
  <2> HIDE DEF before, after
  <2>4. <<>> \o after = after
    BY <2>2
  <2> QED BY <2>1, <2>2, <2>3, <2>4
<1> DEFINE then == [i \in 0..(n - 1) |-> seen[i + 1]]
<1>4. then \in [0..(n - 1) -> View] /\ then[n - 1] = to
  BY <1>1, <1>2
<1>5. then[0] = Apply(from, seq[1])
  <2>1. seen[1] = Apply(seen[1 - 1], seq[1])
    BY <1>1, <1>2
  <2> QED BY <1>1, <1>2, <2>1
<1>6. ASSUME NEW i \in 1..(n - 1)
      PROVE  then[i] = Apply(then[i - 1], rest[i])
  <2>1. i \in 0..(n - 1) /\ i - 1 \in 0..(n - 1) /\ i + 1 \in 1..n /\ (i + 1) - 1 = i
        /\ (i - 1) + 1 = i
    BY <1>2
  <2>2. then[i] = seen[i + 1] /\ then[i - 1] = seen[i]
    BY <2>1
  <2>3. seen[i + 1] = Apply(seen[(i + 1) - 1], seq[i + 1])
    BY <1>1, <2>1
  <2> QED BY <1>3, <2>1, <2>2, <2>3
<1> HIDE DEF n, rest, then
<1>7. Leads(rest, Apply(from, seq[1]), to)
  BY <1>3, <1>4, <1>5, <1>6 DEF Leads
<1> QED BY <1>7 DEF rest

\* What a step of the server sends to a client: nothing, or one packet.
Sends(c, p) ==
  \/ wire'[c] = wire[c] /\ promised'[c] = promised[c]
  \/ wire'[c] = Append(wire[c], p) /\ promised'[c] = Apply(promised[c], p)

\* A step that shows the clients nothing and sends each a packet or none keeps what
\* is in flight in line with what is promised.
LEMMA FlightSends ==
  ASSUME TypeInv, FlightInv, UNCHANGED view, NEW p \in Packet,
         \A c \in Clients : Sends(c, p)
  PROVE  FlightInv'
<1>1. /\ wire \in [Clients -> Seq(Packet)]
      /\ view \in [Clients -> View] /\ promised \in [Clients -> View]
  BY DEF TypeInv, TypeOK, View
<1>2. ASSUME NEW c \in Clients
      PROVE  Leads(wire'[c], view'[c], promised'[c])
  <2>1. wire[c] \in Seq(Packet) /\ view[c] \in View /\ promised[c] \in View
    BY <1>1
  <2>2. Leads(wire[c], view[c], promised[c])
    BY DEF FlightInv
  <2>3. Leads(Append(wire[c], p), view[c], Apply(promised[c], p))
    BY <2>1, <2>2, LeadsAppend
  <2> QED BY <2>2, <2>3 DEF Sends
<1> QED BY <1>2 DEF FlightInv

LEMMA FlightSilent ==
  ASSUME TypeInv, FlightInv, UNCHANGED <<wire, view, promised>>
  PROVE  FlightInv'
BY DEF FlightInv

LEMMA FlightBroadcast ==
  ASSUME TypeInv, FlightInv, UNCHANGED view, NEW p \in Packet, NEW room, Broadcast(p, room)
  PROVE  FlightInv'
<1>1. \A c \in Clients : Sends(c, p)
  BY DEF Broadcast, Sends
<1> QED BY <1>1, FlightSends

LEMMA FlightSendTo ==
  ASSUME TypeInv, FlightInv, UNCHANGED view,
         NEW d \in Clients, NEW p \in Packet, SendTo(d, p)
  PROVE  FlightInv'
<1>1. wire \in [Clients -> Seq(Packet)] /\ promised \in [Clients -> View]
  BY DEF TypeInv, TypeOK, View
<1>2. \A c \in Clients : Sends(c, p)
  BY <1>1 DEF SendTo, Sends
<1> QED BY <1>2, FlightSends

LEMMA FlightStepGame == TypeInv /\ FlightInv /\ GameThread => FlightInv'
<1> SUFFICES ASSUME TypeInv, FlightInv, GameThread
             PROVE  FlightInv'
  OBVIOUS
<1>1. CASE Announce
  <2>1. newborn # 0 /\ Broadcast(Spawn(newborn), MaxWire - 1) /\ UNCHANGED view
    BY <1>1 DEF Announce
  <2>2. newborn \in 0..MaxEntity
    BY DEF TypeInv, TypeOK
  <2>3. newborn \in Ids
    BY <2>1, <2>2, ReplicationConstants DEF Ids
  <2> QED BY <2>1, <2>3, PacketTypes, FlightBroadcast
<1>2. ASSUME NEW id \in Ids, Destroy(id)
      PROVE  FlightInv'
  BY <1>2, PacketTypes, FlightBroadcast DEF Destroy
<1>3. CASE NextLevelPacket
  BY <1>3, PacketTypes, FlightBroadcast DEF NextLevelPacket
<1>4. CASE \/ \E v \in Values : Instantiate(v)
           \/ \E v \in Values : CreateUntold(v)
           \/ \E id \in Ids, v \in Values : Change(id, v)
           \/ ClearLevel
           \/ ClearCaches
  BY <1>4, FlightSilent
  DEF Instantiate, CreateUntold, Change, ClearLevel, ClearCaches, history
<1> QED BY <1>1, <1>2, <1>3, <1>4 DEF GameThread

LEMMA FlightStepNetwork == TypeInv /\ FlightInv /\ NetworkThread => FlightInv'
<1> SUFFICES ASSUME TypeInv, FlightInv, NetworkThread
             PROVE  FlightInv'
  OBVIOUS
<1>1. ASSUME NEW id \in Ids, FlushFull(id)
      PROVE  FlightInv'
  <2>1. target \in Clients /\ SendTo(target, Batch) /\ UNCHANGED view
    BY <1>1, TurnTarget DEF FlushFull
  <2> QED BY <2>1, BatchType, FlightSendTo
<1>2. CASE FlushLast
  <2>1. target \in Clients /\ UNCHANGED view
    BY <1>2 DEF FlushLast, TypeInv, TypeOK
  <2>2. CASE SendTo(target, Batch)
    BY <2>1, <2>2, BatchType, FlightSendTo
  <2>3. CASE UNCHANGED <<wire, promised>>
    BY <2>1, <2>3, FlightSilent
  <2> QED BY <1>2, <2>2, <2>3 DEF FlushLast
<1>4. CASE AnnounceShip
  <2>1. ship # 0 /\ Broadcast(Spawn(ship), MaxWire) /\ UNCHANGED view
    BY <1>4 DEF AnnounceShip
  <2>2. ship \in Ids
    BY <2>1, ShipId DEF TypeInv
  <2> QED BY <2>1, <2>2, PacketTypes, FlightBroadcast
<1>3. CASE \/ \E c \in Clients : WhoAmI(c)
           \/ \E v \in Values : CreateShip(v)
           \/ Serialise
           \/ \E c \in Clients : NextTarget(c)
           \/ \E id \in Ids : CompareUnchanged(id)
           \/ \E id \in Ids : CompareChanged(id)
           \/ \E id \in Ids : FlushFullFails(id)
           \/ FlushLastFails
  BY <1>3, FlightSilent
  DEF WhoAmI, CreateShip, Serialise, NextTarget, CompareUnchanged, CompareChanged,
      FlushFullFails, FlushLastFails, history
<1> QED BY <1>1, <1>2, <1>3, <1>4 DEF NetworkThread

LEMMA FlightStepMain == TypeInv /\ FlightInv /\ MainThread => FlightInv'
<1> SUFFICES ASSUME TypeInv, FlightInv, MainThread
             PROVE  FlightInv'
  OBVIOUS
<1>1. ASSUME NEW c \in Clients, Join(c) \/ JoinAgain(c)
      PROVE  FlightInv'
  <2>1. SendTo(c, Clear) /\ UNCHANGED view
    BY <1>1 DEF Join, JoinAgain
  <2> QED BY <2>1, PacketTypes, FlightSendTo
<1>2. ASSUME NEW id \in Ids, SyncPlayer(id)
      PROVE  FlightInv'
  <2>1. joining \in Clients /\ SendTo(joining, Spawn(id)) /\ UNCHANGED view
    BY <1>2 DEF SyncPlayer, TypeInv, TypeOK
  <2> QED BY <2>1, PacketTypes, FlightSendTo
<1>3. CASE SyncDone \/ \E c \in Clients : Leave(c)
  BY <1>3, FlightSilent DEF SyncDone, Leave, history
<1> QED BY <1>1, <1>2, <1>3 DEF MainThread

InOrder == Faults \cap {"reorder", "lose", "duplicate"} = {}

\* What arrives is the oldest packet in flight, once.
LEMMA FlightStepReceive ==
  ASSUME InOrder, TypeInv, FlightInv, NEW c \in Clients, Receive(c)
  PROVE  FlightInv'
<1>1. /\ 1 \in DOMAIN wire[c]
      /\ view' = [view EXCEPT ![c] = Apply(@, wire[c][1])]
      /\ wire' = [wire EXCEPT ![c] = RemoveAt(@, 1)]
      /\ UNCHANGED promised
  <2>1. "reorder" \notin Faults /\ "lose" \notin Faults /\ "duplicate" \notin Faults
    BY DEF InOrder
  <2> QED BY <2>1 DEF Receive, history
<1>2. /\ wire \in [Clients -> Seq(Packet)]
      /\ view \in [Clients -> View] /\ promised \in [Clients -> View]
  BY DEF TypeInv, TypeOK, View
<1>3. ASSUME NEW d \in Clients
      PROVE  Leads(wire'[d], view'[d], promised'[d])
  <2>1. Leads(wire[d], view[d], promised[d])
    BY DEF FlightInv
  <2>2. CASE d = c
    <3>1. wire[c] \in Seq(Packet) /\ view[c] \in View /\ promised[c] \in View
      BY <1>2
    <3>2. Leads(RemoveAt(wire[c], 1), Apply(view[c], wire[c][1]), promised[c])
      BY <1>1, <2>1, <2>2, <3>1, LeadsFirst
    <3> QED BY <1>1, <1>2, <2>2, <3>2
  <2>3. CASE d # c
    BY <1>1, <1>2, <2>1, <2>3
  <2> QED BY <2>2, <2>3
<1> QED BY <1>3 DEF FlightInv

LEMMA FlightStep ==
  ASSUME InOrder
  PROVE  TypeInv /\ FlightInv /\ [Next]_vars => FlightInv'
<1>1. UNCHANGED vars => UNCHANGED <<wire, view, promised>>
  BY DEF vars, history
<1> QED BY <1>1, FlightSilent, FlightStepGame, FlightStepNetwork, FlightStepMain,
           FlightStepReceive DEF Next

LEMMA FlightInit == Init => FlightInv
<1> SUFFICES ASSUME Init, NEW c \in Clients
             PROVE  Leads(wire[c], view[c], promised[c])
  BY DEF FlightInv
<1>1. wire[c] = <<>> /\ view[c] = None /\ promised[c] = None
  BY DEF Init
<1>2. None \in View
  BY DEF None, View, Maybe
<1> DEFINE seen == [i \in 0..0 |-> None]
<1>3. seen \in [0..0 -> View] /\ seen[0] = None
  BY <1>2
<1>4. Len(<<>>) = 0 /\ 1..0 = {}
  OBVIOUS
<1> HIDE DEF seen
<1>5. Leads(<<>>, None, None)
  BY <1>3, <1>4 DEF Leads
<1> QED BY <1>1, <1>5

\* With nothing in flight the client shows what it was promised.
LEMMA QuietShows ==
  ASSUME FlightInv, NEW c \in Clients, wire[c] = <<>>
  PROVE  view[c] = promised[c]
<1>1. Leads(<<>>, view[c], promised[c])
  BY DEF FlightInv
<1> QED BY <1>1 DEF Leads

\* Unless the network reorders, loses or repeats packets, a client that was there
\* from the start and to which nothing is in flight shows exactly the announced
\* entities that live, apart from ships that crossed, whatever level changes, failed
\* sends and departures came in between.
THEOREM QuietCorrect ==
  ASSUME InOrder
  PROVE  Spec => []QuietClientSeesTheLiving
<1>1. Spec => []FlightInv
  BY FlightInit, FlightStep, TypeInvariant, PTL DEF Spec
<1>2. LivingInv /\ FlightInv => QuietClientSeesTheLiving
  <2> SUFFICES ASSUME LivingInv, FlightInv, game = "run",
                      NEW c \in steady, wire[c] = <<>>
               PROVE  Known(view[c]) \ strays = Living \ strays
    BY DEF QuietClientSeesTheLiving
  <2>1. c \in Clients
    BY DEF LivingInv, TypeInv, TypeOK
  <2>2. view[c] = promised[c]
    BY <2>1, QuietShows
  <2> QED BY <2>2 DEF LivingInv, PromisesTheLiving
<1> QED BY <1>1, <1>2, LivingInvariant, PTL
=============================================================================
