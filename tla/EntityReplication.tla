-------------------------- MODULE EntityReplication --------------------------
(***************************************************************************)
(* How the entities of a started lobby reach its clients.  The game thread *)
(* creates, changes and destroys entities and broadcasts SPAWN, DEATH and   *)
(* NEXT_LEVEL; the lobby's network thread sends each client the entities    *)
(* whose state differs from the one its delta cache says was sent last, and *)
(* makes a ship for a client that asks WHOAMI and has none; the main thread *)
(* lets clients join and leave.  Each client maps the server's entity ids   *)
(* to entities of its own and applies packets as they arrive.               *)
(*                                                                         *)
(* An entity's components are one value of Values: ComponentSerializer      *)
(* keeps every component type the converters send, so two snapshots differ  *)
(* exactly when the sent states do.                                         *)
(***************************************************************************)
EXTENDS Integers, Sequences, FiniteSets, SequencesExt

CONSTANTS
  Clients,    \* client ids
  Starters,   \* the clients in the lobby when the game starts
  Values,     \* states of an entity
  Settled,    \* what a state becomes when its animation state is taken out of it
  Nothing,    \* no entity, no cache entry
  Blank,      \* the state a client's prefab gives an entity before any update
  NoClient,
  Faults,     \* what goes wrong: a subset of FaultKinds
  MaxBatch,   \* entities per packet, MAX_BATCH_SIZE: 20 in the code
  MaxEntity,  \* bound of the model: entities per level
  MaxLevels,  \* bound of the model: level changes
  MaxWire     \* bound of the model: packets in flight to one client

FaultKinds == {"send", "broadcast", "lose", "duplicate", "reorder"}

ASSUME ReplicationConstants ==
  /\ Starters \subseteq Clients
  /\ IsFiniteSet(Clients)
  /\ NoClient \notin Clients
  /\ Nothing \notin Values /\ Blank \notin Values /\ Nothing # Blank
  /\ Settled \in [Values -> Values]
  /\ Faults \subseteq FaultKinds
  /\ MaxBatch \in Nat \ {0}
  /\ MaxEntity \in Nat /\ MaxLevels \in Nat /\ MaxWire \in Nat

Ids == 1..MaxEntity
Maybe(S) == S \cup {Nothing}
None == [id \in Ids |-> Nothing]

Packet ==
  [kind : {"spawn", "death"}, id : Ids]
    \cup [kind : {"clear"}]
    \cup [kind : {"state"}, of : UNION {[S -> Values] : S \in SUBSET Ids}]

VARIABLES
  entities,       \* the registry: the state of each living entity
  nextEntity,     \* Registry::_nextEntityId
  newborn,        \* the game thread's entity whose SPAWN is still to come, or 0
  untold,         \* living entities made without a prefab: no SPAWN ever comes
  toServe,        \* createPlayerEntities' clientIds: who still gets a player
  game,           \* how far LevelCompleteState::update is with a level change
  level,
  members,        \* Lobby::_clients
  clientToEntity, \* Lobby::_clientToEntity, 0 for no entry
  joining,        \* the client the main thread is letting in
  synced,         \* the entities syncExistingEntitiesToClient has sent it
  cache,          \* ComponentDeltaTracker::_clientEntityCache
  asker,          \* the client processWhoAmI is making a ship for
  ship,           \* that ship, once it is in the registry, or 0
  snapshot,       \* gameStatePacket's serializedEntities
  targets,        \* the rest of its clientIds
  target,         \* the client it is sending to
  left,           \* the entities it has not compared yet for this client
  batched,        \* batchedEntities
  wire,           \* packets on their way to each client
  view,           \* what the entity behind each id of _serverToLocalEntityMap shows
  promised,       \* history: view after everything sent, in order
  steady,         \* history: clients since the start that missed no broadcast
  strays          \* history: ids whose WHOAMI ship crossed its end or a new level

registry == <<entities, nextEntity, newborn, untold, toServe, game, level>>
lobby == <<members, clientToEntity, joining, synced>>
whoami == <<asker, ship>>
pass == <<whoami, snapshot, targets, target, left, batched>>
history == <<promised, steady, strays>>
vars == <<registry, lobby, cache, pass, wire, view, history>>

-----------------------------------------------------------------------------
(* Packets: what a client does with each, and how they are sent.            *)

\* Mutant of Apply: a DEATH leaves the entry in _serverToLocalEntityMap.
ApplyKeepDead(shown, p) ==
  CASE p.kind = "spawn" -> [shown EXCEPT ![p.id] = Blank]
    [] p.kind = "death" -> shown
    [] p.kind = "clear" -> None
    [] p.kind = "state" ->
         [id \in Ids |-> IF id \in DOMAIN p.of /\ shown[id] # Nothing
                         THEN p.of[id] ELSE shown[id]]

\* handleEntitySpawn, handleEntityDeath, handleNextLevel (or the clearing when a
\* lobby is joined) and handleBatchedGameState, which skips an unknown entity.
Apply(shown, p) ==
  CASE p.kind = "spawn" -> [shown EXCEPT ![p.id] = Blank]
    [] p.kind = "death" -> [shown EXCEPT ![p.id] = Nothing]
    [] p.kind = "clear" -> None
    [] p.kind = "state" ->
         [id \in Ids |-> IF id \in DOMAIN p.of /\ shown[id] # Nothing
                         THEN p.of[id] ELSE shown[id]]

Spawn(id) == [kind |-> "spawn", id |-> id]
Death(id) == [kind |-> "death", id |-> id]
Clear == [kind |-> "clear"]
State(of) == [kind |-> "state", of |-> of]

SendTo(c, p) ==
  /\ Len(wire[c]) < MaxWire
  /\ wire' = [wire EXCEPT ![c] = Append(@, p)]
  /\ promised' = [promised EXCEPT ![c] = Apply(@, p)]

\* INetwork::broadcast to the lobby's clients stops at the first endpoint it
\* cannot send to.  The main and game threads leave one place on the wire for the
\* network thread.
Broadcast(p, room) ==
  \E reached \in IF "broadcast" \in Faults THEN SUBSET members ELSE {members} :
    /\ \A c \in reached : Len(wire[c]) < room
    /\ wire' = [c \in Clients |->
                  IF c \in reached THEN Append(wire[c], p) ELSE wire[c]]
    /\ promised' = [c \in Clients |->
                      IF c \in reached THEN Apply(promised[c], p) ELSE promised[c]]
    /\ steady' = steady \ (members \ reached)

\* Lobby::processDisconnections: the delta cache keeps the client's entries.
Drop(c) ==
  /\ members' = members \ {c}
  /\ clientToEntity' = [clientToEntity EXCEPT ![c] = 0]
  /\ steady' = steady \ {c}

Init ==
  /\ entities = None /\ nextEntity = 1 /\ newborn = 0 /\ untold = {}
  /\ toServe = Starters /\ game = "run" /\ level = 0
  /\ members = Starters /\ clientToEntity = [c \in Clients |-> 0]
  /\ joining = NoClient /\ synced = {}
  /\ cache = [c \in Clients |-> None]
  /\ asker = NoClient /\ ship = 0
  /\ snapshot = None /\ targets = {} /\ target = NoClient
  /\ left = {} /\ batched = {}
  /\ wire = [c \in Clients |-> <<>>]
  /\ view = [c \in Clients |-> None]
  /\ promised = [c \in Clients |-> None]
  /\ steady = Starters /\ strays = {}

-----------------------------------------------------------------------------
(* Game thread.                                                             *)

Playing == game = "run" /\ newborn = 0 /\ toServe = {}

\* The model keeps one of its ids for a ship that is on its way.
Reserved == IF asker # NoClient /\ ship = 0 THEN 1 ELSE 0

\* Registry::createEntity with its components, nextEntity being the new id.
Create(v) ==
  /\ nextEntity \in Ids
  /\ entities' = [entities EXCEPT ![nextEntity] = v]
  /\ nextEntity' = nextEntity + 1

\* prefab->instantiate: the entity is in the registry, its SPAWN is not sent.
Instantiate(v) ==
  /\ game = "run" /\ newborn = 0
  /\ nextEntity + Reserved \in Ids
  /\ Create(v)
  /\ newborn' = nextEntity
  /\ UNCHANGED <<untold, toServe, game, level, lobby, cache, pass, wire, view,
                 history>>

\* MapParser makes the end of the map, the stops of the game zone and the wave
\* spawners without a prefab, so that no callback broadcasts a SPAWN.
CreateUntold(v) ==
  /\ Playing
  /\ nextEntity + Reserved \in Ids
  /\ Create(v)
  /\ untold' = untold \cup {nextEntity}
  /\ UNCHANGED <<newborn, toServe, game, level, lobby, cache, pass, wire, view,
                 history>>

\* The entity-created callback broadcasts SPAWN; then createPlayerEntities, which
\* gameLoop runs first, notes whose entity it is.
Announce ==
  /\ newborn # 0
  /\ Broadcast(Spawn(newborn), MaxWire - 1)
  /\ newborn' = 0
  /\ \/ \E c \in toServe :
          /\ toServe' = toServe \ {c}
          /\ clientToEntity' = [clientToEntity EXCEPT ![c] = newborn]
     \/ /\ toServe = {}
        /\ UNCHANGED <<toServe, clientToEntity>>
  /\ UNCHANGED <<entities, nextEntity, untold, game, level, members, joining,
                 synced, cache, pass, view, strays>>

Change(id, v) ==
  /\ Playing
  /\ entities[id] \notin {Nothing, v}
  /\ entities' = [entities EXCEPT ![id] = v]
  /\ UNCHANGED <<nextEntity, newborn, untold, toServe, game, level, lobby, cache,
                 pass, wire, view, history>>

\* Mutant of Destroy: the entity-destroyed callback is not set.
DestroyUnannounced(id) ==
  /\ Playing
  /\ entities[id] # Nothing
  /\ entities' = [entities EXCEPT ![id] = Nothing]
  /\ untold' = untold \ {id}
  /\ UNCHANGED <<nextEntity, newborn, toServe, game, level, lobby, cache, pass,
                 wire, view, history>>

\* Registry::destroyEntity: DEATH is broadcast, then the components go.  A ship of
\* the network thread may end before its SPAWN is sent.
Destroy(id) ==
  /\ Playing
  /\ entities[id] # Nothing
  /\ Broadcast(Death(id), MaxWire - 1)
  /\ entities' = [entities EXCEPT ![id] = Nothing]
  /\ untold' = untold \ {id}
  /\ strays' = strays \cup ({id} \cap {ship})
  /\ UNCHANGED <<nextEntity, newborn, toServe, game, level, lobby, cache, pass,
                 view>>

\* LevelCompleteState::update, in three steps the other threads can come
\* between: no DEATH is sent for the entities of the old level, and their ids are
\* given out again.
ClearLevel ==
  /\ Playing
  /\ level < MaxLevels
  /\ level' = level + 1
  /\ entities' = None /\ nextEntity' = 1 /\ untold' = {}
  /\ game' = "cleared"
  /\ strays' = strays \cup ({ship} \ {0})
  /\ UNCHANGED <<newborn, toServe, lobby, cache, pass, wire, view, promised,
                 steady>>

ClearCaches ==
  /\ game = "cleared"
  /\ game' = "uncached"
  /\ cache' = [c \in Clients |-> None]
  /\ UNCHANGED <<entities, nextEntity, newborn, untold, toServe, level, lobby,
                 pass, wire, view, history>>

\* The living entities a SPAWN has been sent of.
Living ==
  {id \in Ids : entities[id] # Nothing} \ (untold \cup {newborn, ship})

\* Mutant of NextLevelPacket: the packet is not sent.
NextLevelSilent ==
  /\ game = "uncached"
  /\ game' = "run"
  /\ strays' = Living \cup (strays \cap {ship})
  /\ UNCHANGED <<entities, nextEntity, newborn, untold, toServe, level, lobby,
                 cache, pass, wire, view, promised, steady>>

\* The clients forget every entity: those of the old level, and the ships of the
\* new one that were made meanwhile and whose SPAWN came before.
NextLevelPacket ==
  /\ game = "uncached"
  /\ game' = "run"
  /\ Broadcast(Clear, MaxWire - 1)
  /\ strays' = Living \cup (strays \cap {ship})
  /\ UNCHANGED <<entities, nextEntity, newborn, untold, toServe, level, lobby,
                 cache, pass, view>>

-----------------------------------------------------------------------------
(* Network thread: packets of the clients and gameStatePackets, in turn.    *)

Idle == target = NoClient /\ targets = {} /\ asker = NoClient

\* processWhoAmI of a client without an entity, member or not any more, and the
\* first half of createPlayerEntityForClient.
WhoAmI(c) ==
  /\ Idle
  /\ members # {}
  /\ clientToEntity[c] = 0
  /\ nextEntity \in Ids
  /\ asker' = c
  /\ UNCHANGED <<ship, snapshot, targets, target, left, batched, registry, lobby,
                 cache, wire, view, history>>

\* prefab->instantiate on this thread; nothing keeps it apart from the other's work.
CreateShip(v) ==
  /\ asker # NoClient /\ ship = 0
  /\ Create(v)
  /\ ship' = nextEntity
  /\ UNCHANGED <<newborn, untold, toServe, game, level, asker, snapshot, targets,
                 target, left, batched, lobby, cache, wire, view, history>>

\* The callback broadcasts its SPAWN, and the ship is the client's.  A SPAWN in the
\* middle of a level change comes before the NEXT_LEVEL that wipes it.
AnnounceShip ==
  /\ ship # 0
  /\ Broadcast(Spawn(ship), MaxWire)
  /\ clientToEntity' = [clientToEntity EXCEPT ![asker] = ship]
  /\ asker' = NoClient /\ ship' = 0
  /\ strays' = IF game = "run" THEN strays ELSE strays \cup {ship}
  /\ UNCHANGED <<registry, members, joining, synced, snapshot, targets, target,
                 left, batched, cache, view>>

\* The states of all entities and the ids of all clients are collected, after
\* clearDeadEntities in every 1200th call of any lobby.  An animation state is
\* taken off the entity as it is read: the next pass no longer sees it.
Serialise ==
  /\ Idle
  /\ members # {}
  /\ snapshot' = entities
  /\ entities' = [id \in Ids |->
                    IF entities[id] = Nothing THEN Nothing ELSE Settled[entities[id]]]
  /\ targets' = members
  /\ \/ UNCHANGED cache
     \/ cache' = [c \in Clients |->
                    [id \in Ids |->
                       IF entities[id] = Nothing THEN Nothing ELSE cache[c][id]]]
  /\ UNCHANGED <<nextEntity, newborn, untold, toServe, game, level, lobby, whoami,
                 target, left, batched, wire, view, history>>

\* The next client, unless it has left since.
NextTarget(c) ==
  /\ target = NoClient
  /\ c \in targets
  /\ targets' = targets \ {c}
  /\ \/ /\ c \in members
        /\ target' = c
        /\ left' = {id \in Ids : snapshot[id] # Nothing}
     \/ /\ c \notin members
        /\ UNCHANGED <<target, left>>
  /\ UNCHANGED <<whoami, snapshot, batched, registry, lobby, cache, wire, view,
                 history>>

Batch == State([id \in batched |-> snapshot[id]])

\* ComponentDeltaTracker::createEntityDelta finds nothing new.  The mutant never
\* looks again once it has an entry.
SentBefore(id) == cache[target][id] # Nothing

Unchanged(id) == cache[target][id] = snapshot[id]

\* The entities are compared in one order, the registry's.
Turn(id) == id \in left /\ \A other \in left : id <= other

CompareUnchanged(id) ==
  /\ Turn(id)
  /\ Unchanged(id)
  /\ left' = left \ {id}
  /\ UNCHANGED <<whoami, snapshot, targets, target, batched, registry, lobby, cache,
                 wire, view, history>>

Remember(id) == cache' = [cache EXCEPT ![target][id] = snapshot[id]]

Fits == Cardinality(batched) < MaxBatch

CompareChanged(id) ==
  /\ Turn(id)
  /\ ~Unchanged(id)
  /\ Fits
  /\ Remember(id)
  /\ batched' = batched \cup {id}
  /\ left' = left \ {id}
  /\ UNCHANGED <<whoami, snapshot, targets, target, registry, lobby, wire, view,
                 history>>

\* Mutant of FlushFull: the entity the batch had no room for is forgotten.
FlushForgetting(id) ==
  /\ Turn(id)
  /\ ~Unchanged(id)
  /\ ~Fits
  /\ Remember(id)
  /\ SendTo(target, Batch)
  /\ batched' = {}
  /\ left' = left \ {id}
  /\ UNCHANGED <<whoami, snapshot, targets, target, registry, lobby, view, steady,
                 strays>>

\* The batch is full: it is sent, and the entity starts the next one.
FlushFull(id) ==
  /\ Turn(id)
  /\ ~Unchanged(id)
  /\ ~Fits
  /\ Remember(id)
  /\ SendTo(target, Batch)
  /\ batched' = {id}
  /\ left' = left \ {id}
  /\ UNCHANGED <<whoami, snapshot, targets, target, registry, lobby, view, steady,
                 strays>>

\* Sending the full batch fails: the client is dropped and the loop left, but the
\* batch is kept and sent again below.
FlushFullFails(id) ==
  /\ "send" \in Faults
  /\ Turn(id)
  /\ ~Unchanged(id)
  /\ ~Fits
  /\ Remember(id)
  /\ Drop(target)
  /\ left' = {}
  /\ UNCHANGED <<whoami, snapshot, targets, target, batched, registry, joining,
                 synced, wire, view, promised, strays>>

EndOfTarget ==
  /\ target' = NoClient
  /\ batched' = {}
  /\ snapshot' = IF targets = {} THEN None ELSE snapshot
  /\ UNCHANGED <<whoami, left, targets>>

FlushLast ==
  /\ target # NoClient
  /\ left = {}
  /\ EndOfTarget
  /\ \/ /\ batched = {}
        /\ UNCHANGED <<wire, promised>>
     \/ /\ batched # {}
        /\ SendTo(target, Batch)
  /\ UNCHANGED <<registry, lobby, cache, view, steady, strays>>

FlushLastFails ==
  /\ "send" \in Faults
  /\ target # NoClient
  /\ left = {} /\ batched # {}
  /\ EndOfTarget
  /\ Drop(target)
  /\ UNCHANGED <<registry, joining, synced, cache, wire, view, promised, strays>>

-----------------------------------------------------------------------------
(* Main thread.                                                             *)

\* processConnectToLobby: the answer makes the client forget its entities, then it
\* is a member of the lobby, then syncExistingEntitiesToClient sends it the
\* entities in _clientToEntity, whatever has become of them.
Join(c) ==
  /\ joining = NoClient
  /\ c \notin members
  /\ SendTo(c, Clear)
  /\ members' = members \cup {c}
  /\ joining' = c
  /\ synced' = {}
  /\ UNCHANGED <<clientToEntity, registry, cache, pass, view, steady, strays>>

PlayerIds == {clientToEntity[c] : c \in Clients} \ {0}

SyncPlayer(id) ==
  /\ joining # NoClient
  /\ id \in PlayerIds \ synced
  /\ SendTo(joining, Spawn(id))
  /\ synced' = synced \cup {id}
  /\ UNCHANGED <<members, clientToEntity, joining, registry, cache, pass, view,
                 steady, strays>>

SyncDone ==
  /\ joining # NoClient
  /\ PlayerIds \subseteq synced
  /\ joining' = NoClient
  /\ synced' = {}
  /\ UNCHANGED <<members, clientToEntity, registry, cache, pass, wire, view,
                 history>>

\* A second CONNECT_TO_LOBBY of a member: it is answered, and not synced.
JoinAgain(c) ==
  /\ joining = NoClient
  /\ c \in members
  /\ SendTo(c, Clear)
  /\ steady' = steady \ {c}
  /\ UNCHANGED <<registry, lobby, cache, pass, view, strays>>

Leave(c) ==
  /\ joining = NoClient
  /\ c \in members
  /\ Drop(c)
  /\ UNCHANGED <<registry, joining, synced, cache, pass, wire, view, promised,
                 strays>>

-----------------------------------------------------------------------------
(* The network and the clients.                                             *)

\* A packet arrives and is handled; unless the network is in order, it may be any
\* of those in flight, be lost, or stay to arrive once more.
Receive(c) ==
  \E i \in IF "reorder" \in Faults THEN DOMAIN wire[c] ELSE DOMAIN wire[c] \cap {1},
     handled \in IF "lose" \in Faults THEN BOOLEAN ELSE {TRUE},
     stays \in IF "duplicate" \in Faults THEN BOOLEAN ELSE {FALSE} :
       /\ view' = [view EXCEPT ![c] = IF handled THEN Apply(@, wire[c][i]) ELSE @]
       /\ wire' = [wire EXCEPT ![c] = IF stays THEN @ ELSE RemoveAt(@, i)]
       /\ UNCHANGED <<registry, lobby, cache, pass, history>>

-----------------------------------------------------------------------------

GameThread ==
  \/ \E v \in Values : Instantiate(v)
  \/ \E v \in Values : CreateUntold(v)
  \/ Announce
  \/ \E id \in Ids, v \in Values : Change(id, v)
  \/ \E id \in Ids : Destroy(id)
  \/ ClearLevel
  \/ ClearCaches
  \/ NextLevelPacket

NetworkThread ==
  \/ \E c \in Clients : WhoAmI(c)
  \/ \E v \in Values : CreateShip(v)
  \/ AnnounceShip
  \/ Serialise
  \/ \E c \in Clients : NextTarget(c)
  \/ \E id \in Ids : CompareUnchanged(id)
  \/ \E id \in Ids : CompareChanged(id)
  \/ \E id \in Ids : FlushFull(id)
  \/ \E id \in Ids : FlushFullFails(id)
  \/ FlushLast
  \/ FlushLastFails

MainThread ==
  \/ \E c \in Clients : Join(c)
  \/ \E id \in Ids : SyncPlayer(id)
  \/ SyncDone
  \/ \E c \in Clients : JoinAgain(c)
  \/ \E c \in Clients : Leave(c)

Next ==
  \/ GameThread
  \/ NetworkThread
  \/ MainThread
  \/ \E c \in Clients : Receive(c)

Spec == Init /\ [][Next]_vars

\* networkLoop sends states as long as the lobby has clients, and a client's
\* network thread receives what arrives; nothing is asked of the game.
Fairness ==
  /\ WF_vars(NetworkThread)
  /\ \A c \in Clients : WF_vars(Receive(c))

FairSpec == Spec /\ Fairness

-----------------------------------------------------------------------------
(* Properties.                                                              *)

\* Every variable has its type; a batch never has more than MAX_BATCH_SIZE
\* entities, each taken from the snapshot.
TypeOK ==
  /\ entities \in [Ids -> Maybe(Values)]
  /\ nextEntity \in 1..(MaxEntity + 1)
  /\ newborn \in 0..MaxEntity
  /\ untold \subseteq Ids
  /\ toServe \subseteq Clients
  /\ game \in {"run", "cleared", "uncached"}
  /\ level \in 0..MaxLevels
  /\ members \subseteq Clients
  /\ clientToEntity \in [Clients -> 0..MaxEntity]
  /\ joining \in Clients \cup {NoClient}
  /\ synced \subseteq Ids
  /\ cache \in [Clients -> [Ids -> Maybe(Values)]]
  /\ asker \in Clients \cup {NoClient}
  /\ ship \in 0..MaxEntity
  /\ snapshot \in [Ids -> Maybe(Values)]
  /\ targets \subseteq Clients
  /\ target \in Clients \cup {NoClient}
  /\ left \subseteq Ids
  /\ batched \subseteq Ids
  /\ Cardinality(batched) <= MaxBatch
  /\ wire \in [Clients -> Seq(Packet)]
  /\ view \in [Clients -> [Ids -> Maybe(Values \cup {Blank})]]
  /\ promised \in [Clients -> [Ids -> Maybe(Values \cup {Blank})]]
  /\ steady \subseteq members
  /\ strays \subseteq Ids

Known(shown) == {id \in Ids : shown[id] # Nothing}

\* What has been sent to a client that was there from the start adds up to the
\* living entities the clients are told of: none is missing and none that died, or
\* that an earlier level had under the same id, is left.  The only exceptions are
\* the ids of ships made on the network thread that ended, or whose level ended,
\* before their SPAWN was sent, or whose SPAWN came just before a NEXT_LEVEL.
PromisesTheLiving ==
  game = "run" => \A c \in steady : Known(promised[c]) \ strays = Living \ strays

\* Whatever the delta cache holds for a member has been sent and not been replaced
\* by anything older: the client ends up with that state, or with the prefab's if
\* it learns of the entity later than of its state.
PromisesTheLatest ==
  \A c \in members, id \in Ids :
    cache[c][id] # Nothing /\ ~(target = c /\ id \in batched)
      => promised[c][id] \in {cache[c][id], Blank, Nothing}

\* A SPAWN never names an entity the client still has: it would replace the entry
\* in _serverToLocalEntityMap and leave the local entity behind for ever.  Only the
\* SPAWN of a ship that crossed its end or a level change may.
SpawnsAreNew ==
  [][\A c \in steady, id \in Ids :
       wire'[c] = Append(wire[c], Spawn(id))
         => promised[c][id] = Nothing \/ id \in strays']_vars

\* A client to which nothing is in flight shows exactly the living entities the
\* clients are told of, apart from the ships that crossed.
QuietClientSeesTheLiving ==
  game = "run" =>
    \A c \in steady : wire[c] = <<>> => Known(view[c]) \ strays = Living \ strays

\* A client that shows a state of an entity comes to show the entity's state of
\* now, unless the entity changes again first.
Converges ==
  \A c \in Clients, id \in Ids, v \in Values :
    c \in steady /\ entities[id] = v /\ view[c][id] \in Values
      ~> \/ view[c][id] \in {v, Blank, Nothing}
         \/ entities[id] # v
         \/ c \notin steady
=============================================================================
