----------------------------- MODULE LobbyGame -----------------------------
(***************************************************************************)
(* A started lobby (rserv::Lobby) and the game in it.  The main thread      *)
(* queues packets and lets clients in and out, the network thread answers  *)
(* WHOAMI and passes inputs on, the game thread makes the ships, reads the  *)
(* inputs and runs the game states from one map to the next.               *)
(***************************************************************************)
EXTENDS Naturals, FiniteSets, SequencesExt

CONSTANTS
  Clients,    \* ids
  Creator,    \* the client that asked for the lobby
  Moves,      \* the values of the axes a client moves by
  Still,      \* no key pressed
  Modes,      \* "classic", "infinite": what the game rules may say at the start
  Maps,       \* level files found
  Scenery,    \* entities a map consists of
  MaxQueue,   \* bound: _incomingPackets and _eventQueue
  MaxScore,   \* bound: points of a ship
  MaxStimuli, \* bound: packets of clients, and failed sends
  Nobody

ASSUME LobbyConstants ==
  /\ Creator \in Clients /\ Nobody \notin Clients
  /\ Still \in Moves
  /\ Modes \subseteq {"classic", "infinite"}
  /\ {Maps, Scenery, MaxQueue, MaxScore, MaxStimuli} \subseteq Nat
  /\ MaxQueue > 0

VARIABLES
  running,        \* _running
  members,        \* _clients
  routed,         \* the clients _clientToLobby leads here
  incoming,       \* _incomingPackets
  events,         \* _eventQueue
  axis,           \* _clientAxisValues of the input provider
  clientToEntity, \* _clientToEntity
  owner,          \* _entityToClientId of the input provider
  ships,          \* score of each entity with a PlayerTag
  nextEntity,     \* _nextEntityId of the registry
  mode,           \* GameRules::_gamemode
  state,          \* the state on top of the game state machine
  map,            \* _currentMapIndex
  savedScores,    \* _savedPlayerScores
  scores,         \* what endGamePacket saved
  net,            \* where the network thread is
  asking,         \* the WHOAMI it answers: its client and number, and the ship found or made
  game,           \* where the game thread is
  toServe,        \* clientIds of createPlayerEntities
  made,           \* the ship created and not yet recorded, 0 for none
  main,           \* where the main thread is: starting the threads, stopping them
  owed,           \* history: the members' WHOAMIs without an answer, <<client, number>>
  lastMove,       \* history: the last input queued for each client
  stimuli,        \* bounded by MaxStimuli
  ended,          \* history: END_GAME packets
  steady          \* history: nobody came, left or asked for a ship since the ships were made

queues == <<incoming, events>>
match  == <<mode, state, map, savedScores, scores, ended>>
world  == <<ships, nextEntity, clientToEntity, owner>>
pilots == <<members, routed, steady>>
vars == <<stimuli, running, pilots, queues, axis, world, match, net, asking, game, toServe,
          made, main, owed, lastMove>>

Without(f, x)  == Restrict(f, DOMAIN f \ {x})
With(f, x, y)  == [z \in DOMAIN f \cup {x} |-> IF z = x THEN y ELSE f[z]]

NobodyAsking == [client |-> Nobody, ship |-> 0, no |-> 0]

-----------------------------------------------------------------------------
(* The registry and the input provider.                                     *)

\* A map's entities come from the same counter as the ships.
PlaceMap(next) == next + Scenery

\* The entities whose movement a client's axes decide.
SteeredBy(c) == {e \in DOMAIN ships \cap DOMAIN owner : owner[e] = c}

\* The view of players runs through the ids in ascending order.
ShipsInOrder == SetToSortSeq(DOMAIN ships, <)

Members == ToSet(members)

\* An id is in the vector of clients once at most.
ForgetClient(c) ==
  /\ \/ \E i \in DOMAIN members : members[i] = c /\ members' = RemoveAt(members, i)
     \/ c \notin Members /\ UNCHANGED members
  /\ clientToEntity' = Without(clientToEntity, c)
  /\ owed' = {w \in owed : w[1] # c}

-----------------------------------------------------------------------------
(* The main thread.                                                         *)

\* The creator's lobby, perhaps with a first guest.
Init ==
  /\ running = TRUE
  /\ members \in {<<Creator>>} \cup {<<Creator, c>> : c \in Clients \ {Creator}}
  /\ routed = Members
  /\ incoming = <<>> /\ events = <<>>
  /\ axis = [c \in Clients |-> Still]
  /\ clientToEntity = <<>> /\ owner = <<>> /\ ships = <<>>
  /\ nextEntity = 1
  /\ mode \in Modes /\ state = "lobby" /\ map = 0
  /\ savedScores = <<>> /\ scores = <<>>
  /\ net = "off" /\ asking = NobodyAsking
  /\ game = "off" /\ toServe = <<>> /\ made = 0
  /\ main = "waiting"
  /\ owed = {} /\ lastMove = [c \in Clients |-> Still]
  /\ ended = 0 /\ steady = TRUE /\ stimuli = 0

Stimulus == stimuli < MaxStimuli /\ stimuli' = stimuli + 1

\* CONNECT_TO_LOBBY of a client that is not in the lobby.
Join(c) ==
  /\ Stimulus
  /\ main \in {"waiting", "serving"} /\ running /\ c \notin Members
  /\ members' = Append(members, c) /\ routed' = routed \cup {c}
  /\ steady' = (steady /\ game \in {"off", "begin"})
  /\ UNCHANGED <<running, queues, axis, world, match, net, asking, game, toServe, made,
                 main, owed, lastMove>>

\* MASTER_START starts the network thread first.
StartNetworkThread ==
  /\ main = "waiting" /\ main' = "starting"
  /\ net' = "loop"
  /\ UNCHANGED <<stimuli, running, pilots, queues, axis, world, match, asking, game, toServe, made,
                 owed, lastMove>>

StartGameThread ==
  /\ main = "starting" /\ main' = "serving"
  /\ game' = "begin"
  /\ UNCHANGED <<stimuli, running, pilots, queues, axis, world, match, net, asking, toServe, made,
                 owed, lastMove>>

\* EVENT and WHOAMI of a routed client go to the queue; nobody looks whether the
\* lobby still runs or the client is still a member.
EnqueueEvent(c, v) ==
  /\ Stimulus
  /\ main \in {"waiting", "serving"} /\ c \in routed
  /\ Len(incoming) < MaxQueue
  /\ incoming' = Append(incoming, [type |-> "EVENT", from |-> c, move |-> v, no |-> 0])
  /\ lastMove' = [lastMove EXCEPT ![c] = v]
  /\ UNCHANGED <<running, pilots, events, axis, world, match, net, asking, game, toServe,
                 made, main, owed>>

EnqueueWhoAmI(c) ==
  /\ Stimulus
  /\ main \in {"waiting", "serving"} /\ c \in routed
  /\ Len(incoming) < MaxQueue
  /\ incoming' = Append(incoming, [type |-> "WHOAMI", from |-> c, move |-> Still, no |-> stimuli])
  /\ owed' = IF c \in Members THEN owed \cup {<<c, stimuli>>} ELSE owed
  /\ UNCHANGED <<running, pilots, events, axis, world, match, net, asking, game, toServe,
                 made, main, lastMove>>

\* LEAVE_LOBBY: the route goes in any case, the member only while the lobby runs.
LeaveLobby(c) ==
  /\ Stimulus
  /\ main \in {"waiting", "serving"} /\ c \in routed
  /\ routed' = routed \ {c}
  /\ IF running
     THEN /\ ForgetClient(c)
          /\ main' = IF Members \subseteq {c} THEN "joining" ELSE main
          /\ running' = ~(Members \subseteq {c})
          /\ steady' = (steady /\ (c \notin Members \/ game \in {"off", "begin"}))
     ELSE UNCHANGED <<running, members, clientToEntity, main, steady, owed>>
  /\ UNCHANGED <<queues, axis, owner, ships, nextEntity, match, net, asking, game, toServe,
                 made, lastMove>>

\* Lobby::stop, when a lobby is swept or closed and when the server stops.
Stop ==
  /\ main \in {"waiting", "serving"}
  /\ main' = "joining" /\ running' = FALSE
  /\ UNCHANGED <<stimuli, pilots, queues, axis, world, match, net, asking, game, toServe, made,
                 owed, lastMove>>

\* After both threads have ended: the registry and the map of ships are emptied.
Clear ==
  /\ main = "joining" /\ net \in {"off", "done"} /\ game \in {"off", "done"}
  /\ main' = "stopped"
  /\ ships' = <<>> /\ nextEntity' = 1 /\ clientToEntity' = <<>>
  /\ UNCHANGED <<stimuli, running, pilots, queues, axis, owner, match, net, asking, game, toServe,
                 made, owed, lastMove>>

-----------------------------------------------------------------------------
(* The network thread.                                                      *)

InNetworkLoop == net = "loop" /\ running

NetworkEnds ==
  /\ net = "loop" /\ ~running
  /\ net' = "done"
  /\ UNCHANGED <<stimuli, running, pilots, queues, axis, world, match, asking, game, toServe, made,
                 main, owed, lastMove>>

\* Without clients the loop stops the lobby.
NetworkStops ==
  /\ InNetworkLoop /\ members = <<>>
  /\ running' = FALSE /\ net' = "done"
  /\ UNCHANGED <<stimuli, pilots, queues, axis, world, match, asking, game, toServe, made, main,
                 owed, lastMove>>

TakeEvent ==
  /\ InNetworkLoop /\ members # <<>> /\ incoming # <<>>
  /\ Head(incoming).type = "EVENT"
  /\ Len(events) < MaxQueue
  /\ events' = Append(events, [from |-> Head(incoming).from, move |-> Head(incoming).move])
  /\ incoming' = Tail(incoming)
  /\ UNCHANGED <<stimuli, running, pilots, axis, world, match, net, asking, game, toServe, made,
                 main, owed, lastMove>>

\* processWhoAmI looks the client's ship up ...
TakeWhoAmI ==
  /\ InNetworkLoop /\ members # <<>> /\ incoming # <<>>
  /\ Head(incoming).type = "WHOAMI"
  /\ LET c == Head(incoming).from
         n == Head(incoming).no
     IN  IF c \in DOMAIN clientToEntity
         THEN asking' = [client |-> c, ship |-> clientToEntity[c], no |-> n] /\ net' = "answer"
         ELSE asking' = [client |-> c, ship |-> 0, no |-> n] /\ net' = "create"
  /\ incoming' = Tail(incoming)
  /\ UNCHANGED <<stimuli, running, pilots, events, axis, world, match, game, toServe, made, main,
                 owed, lastMove>>

\* ... and makes one when there is none, member or not ...
CreateForWhoAmI ==
  /\ net = "create"
  /\ ships' = With(ships, nextEntity, 0)
  /\ asking' = [asking EXCEPT !.ship = nextEntity]
  /\ nextEntity' = nextEntity + 1
  /\ net' = "record"
  /\ steady' = FALSE
  /\ UNCHANGED <<stimuli, running, members, routed, queues, axis, clientToEntity, owner, match, game,
                 toServe, made, main, owed, lastMove>>

RecordCounter ==
  /\ net = "record"
  /\ asking' = [asking EXCEPT !.ship = nextEntity - 1]
  /\ clientToEntity' = With(clientToEntity, asking.client, nextEntity - 1)
  /\ owner' = With(owner, nextEntity - 1, asking.client)
  /\ net' = "answer"
  /\ UNCHANGED <<stimuli, running, pilots, queues, axis, ships, nextEntity, match, game, toServe,
                 made, main, owed, lastMove>>

RecordForWhoAmI ==
  /\ net = "record"
  /\ clientToEntity' = With(clientToEntity, asking.client, asking.ship)
  /\ owner' = With(owner, asking.ship, asking.client)
  /\ net' = "answer"
  /\ UNCHANGED <<stimuli, running, pilots, queues, axis, ships, nextEntity, match, asking, game,
                 toServe, made, main, owed, lastMove>>


\* ... and tells a member which one it is.
AnswerWhoAmI ==
  /\ net = "answer"
  /\ owed' = IF asking.client \in Members THEN owed \ {<<asking.client, asking.no>>} ELSE owed
  /\ net' = "loop" /\ asking' = NobodyAsking
  /\ UNCHANGED <<stimuli, running, pilots, queues, axis, world, match, game, toServe, made, main,
                 lastMove>>

\* gameStatePacket drops a client it cannot send to; its route stays.
DropClient(c) ==
  /\ Stimulus
  /\ InNetworkLoop /\ c \in Members
  /\ ForgetClient(c)
  /\ steady' = (steady /\ game \in {"off", "begin"})
  /\ UNCHANGED <<running, routed, queues, axis, owner, ships, nextEntity, match, net, asking,
                 game, toServe, made, main, lastMove>>

-----------------------------------------------------------------------------
(* The game thread.                                                         *)

\* createPlayerEntities: the ids first ...
ListClients ==
  /\ game = "begin"
  /\ toServe' = members /\ game' = "create"
  /\ UNCHANGED <<stimuli, running, pilots, queues, axis, world, match, net, asking, made, main, owed,
                 lastMove>>

\* ... then a ship for each of them, whoever has one already ...
CreateShip ==
  /\ game = "create" /\ made = 0 /\ toServe # <<>>
  /\ ships' = With(ships, nextEntity, 0)
  /\ made' = nextEntity /\ nextEntity' = nextEntity + 1
  /\ UNCHANGED <<stimuli, running, pilots, queues, axis, clientToEntity, owner, match, net, asking,
                 game, toServe, main, owed, lastMove>>

RecordShip ==
  /\ game = "create" /\ made # 0
  /\ clientToEntity' = With(clientToEntity, Head(toServe), made)
  /\ owner' = With(owner, made, Head(toServe))
  /\ toServe' = Tail(toServe) /\ made' = 0
  /\ UNCHANGED <<stimuli, running, pilots, queues, axis, ships, nextEntity, match, net, asking, game,
                 main, owed, lastMove>>

EnterLoop ==
  /\ game = "create" /\ made = 0 /\ toServe = <<>>
  /\ game' = "events"
  /\ UNCHANGED <<stimuli, running, pilots, queues, axis, world, match, net, asking, toServe, made,
                 main, owed, lastMove>>

\* The loop looks at _running once a turn.
GameEnds ==
  /\ game = "events" /\ ~running
  /\ game' = "done"
  /\ UNCHANGED <<stimuli, running, pilots, queues, axis, world, match, net, asking, toServe, made,
                 main, owed, lastMove>>

\* Mutant of AfterEvents: the last event counts, whoever sent it.
LastOfAnyone(c, v) == v = IF events = <<>> THEN axis[c] ELSE Last(events).move

EventsOf(c) == {i \in DOMAIN events : events[i].from = c}

\* What a client's axis is after its events have been applied in turn.
AfterEvents(c, v) ==
  \/ EventsOf(c) = {} /\ v = axis[c]
  \/ \E i \in EventsOf(c) : v = events[i].move /\ \A j \in EventsOf(c) : j <= i

ProcessLobbyEvents ==
  /\ game = "events" /\ running
  /\ axis' \in [Clients -> Moves] /\ \A c \in Clients : AfterEvents(c, axis'[c])
  /\ events' = <<>>
  /\ game' = "update"
  /\ UNCHANGED <<stimuli, running, pilots, incoming, world, match, net, asking, toServe, made, main,
                 owed, lastMove>>

\* The first update goes from LobbyState through LoadingState to the game itself,
\* whose enter places the map, the endless one once when it is parsed and once more.
StartPlaying ==
  /\ game = "update" /\ state = "lobby"
  /\ IF mode = "infinite"
     THEN state' = "infinite" /\ nextEntity' = PlaceMap(PlaceMap(nextEntity))
     ELSE state' = "ingame" /\ nextEntity' = PlaceMap(nextEntity)
  /\ game' = "events"
  /\ UNCHANGED <<stimuli, running, pilots, queues, axis, ships, clientToEntity, owner, mode, map,
                 savedScores, scores, ended, net, asking, toServe, made, main, owed, lastMove>>

IsLastMapWrong == map >= Maps

IsLastMap == map + 1 >= Maps

HasNextMap == map + 1 < Maps

\* What EndOfMapDetectionSystem makes of the ships that are left.  The endless map
\* has its end at a negative place, which is never reached.
Verdict(left, reached) ==
  IF left = {} THEN "end"
  ELSE IF ~reached \/ state = "infinite" THEN "on"
  ELSE IF IsLastMap THEN "end" ELSE "complete"

\* endGamePacket: the scores of the members, by the ship the lobby has for them.
FinalScores(kept) ==
  [c \in {m \in Members \cap DOMAIN clientToEntity : clientToEntity[m] \in DOMAIN kept} |->
     kept[clientToEntity[c]]]

\* One update of InGameState or InfiniteState: the systems destroy ships and give
\* points, and the end of the map is looked for last.
Play(lost, points, reached) ==
  /\ game = "update" /\ state \in {"ingame", "infinite"}
  /\ lost \subseteq DOMAIN ships
  /\ LET kept == [e \in DOMAIN ships \ lost |->
                    IF e = points /\ ships[e] < MaxScore THEN ships[e] + 1 ELSE ships[e]]
         v    == Verdict(DOMAIN kept, reached)
     IN  /\ ships' = kept
         /\ state' = IF v = "on" THEN state ELSE v
         /\ scores' = IF v = "end" THEN FinalScores(kept) ELSE scores
         /\ ended' = IF v = "end" THEN ended + 1 ELSE ended
  /\ game' = "events"
  /\ UNCHANGED <<stimuli, running, pilots, queues, axis, nextEntity, clientToEntity, owner, mode, map,
                 savedScores, net, asking, toServe, made, main, owed, lastMove>>

\* LevelCompleteState waits before it does anything, GameEndState does nothing.
Wait ==
  /\ game = "update" /\ state \in {"complete", "end"}
  /\ game' = "events"
  /\ UNCHANGED <<stimuli, running, pilots, queues, axis, world, match, net, asking, toServe, made,
                 main, owed, lastMove>>

ScoresInOrder  == [i \in 1..Cardinality(DOMAIN ships) |-> ships[ShipsInOrder[i]]]

\* When the delay is over: the next map, the scores aside, nothing left, ids from 1.
ClearLevel ==
  /\ game = "update" /\ state = "complete"
  /\ IF HasNextMap
     THEN /\ map' = map + 1
          /\ savedScores' = ScoresInOrder
          /\ ships' = <<>> /\ nextEntity' = 1
          /\ game' = "deal"
          /\ UNCHANGED state
     ELSE /\ state' = "end" /\ game' = "events"
          /\ UNCHANGED <<map, savedScores, ships, nextEntity>>
  /\ UNCHANGED <<stimuli, running, pilots, queues, axis, clientToEntity, owner, mode, scores, ended,
                 net, asking, toServe, made, main, owed, lastMove>>

FirstShipAfterMap == nextEntity + Scenery

\* The ships come before the map, so that their ids are the first ones again.
FirstShip == nextEntity

\* The score of the i-th ship of a new map.
Dealt(i) == IF i \in DOMAIN savedScores THEN savedScores[i] ELSE 0

\* A ship for every member, with the scores dealt out by position, and the map.
\* Neither _clientToEntity nor the input provider hears of these ships.
DealShips ==
  /\ game = "deal"
  /\ LET fleet == {FirstShip + i - 1 : i \in DOMAIN members}
     IN  ships' = [e \in DOMAIN ships \cup fleet |->
                     IF e \in fleet THEN Dealt(e - FirstShip + 1) ELSE ships[e]]
  /\ nextEntity' = PlaceMap(nextEntity + Len(members))
  /\ state' = "ingame" /\ game' = "events" /\ savedScores' = <<>>
  /\ UNCHANGED <<stimuli, running, pilots, queues, axis, clientToEntity, owner, mode, map, scores, ended, net, asking, toServe, made, main, owed, lastMove>>

-----------------------------------------------------------------------------
MainThread ==
  \/ StartNetworkThread \/ StartGameThread \/ Stop \/ Clear
  \/ \E c \in Clients : \/ Join(c) \/ LeaveLobby(c) \/ EnqueueWhoAmI(c)
                        \/ \E v \in Moves : EnqueueEvent(c, v)

NetworkThread ==
  \/ NetworkEnds \/ NetworkStops \/ TakeEvent
  \/ TakeWhoAmI \/ CreateForWhoAmI \/ RecordForWhoAmI \/ AnswerWhoAmI

GameThread ==
  \/ ListClients \/ CreateShip \/ RecordShip \/ EnterLoop
  \/ GameEnds \/ ProcessLobbyEvents \/ StartPlaying \/ Wait \/ ClearLevel \/ DealShips
  \/ \E lost \in SUBSET DOMAIN ships, points \in DOMAIN ships \cup {0}, reached \in BOOLEAN :
       Play(lost, points, reached)

Next == MainThread \/ NetworkThread \/ GameThread \/ \E c \in Clients : DropClient(c)

Spec == Init /\ [][Next]_vars

\* Both loops turn until _running is false; the main thread need not do anything.
FairSpec == Spec /\ WF_vars(NetworkThread) /\ WF_vars(GameThread)

-----------------------------------------------------------------------------
\* As long as nobody comes, leaves or asks too early, the i-th client of the lobby
\* has ship i on every map: the lobby's map, the input provider and the registry,
\* of which a new map renews only the last, agree because the ids start from 1 again
\* and the ships are made in the same order before anything else.
SteadyShips ==
  steady /\ game \notin {"off", "begin", "create"} /\ main # "stopped" =>
    /\ DOMAIN ships \subseteq DOMAIN members
    /\ \A i \in DOMAIN members :
         /\ members[i] \in DOMAIN clientToEntity /\ clientToEntity[members[i]] = i
         /\ SteeredBy(members[i]) = {i} \cap DOMAIN ships

\* On the first map the ship the lobby has for a client is steered by that client,
\* even when the network thread and the game thread make ships at the same time.
OwnShips ==
  map = 0 =>
    \A c \in DOMAIN clientToEntity :
      clientToEntity[c] \in DOMAIN owner /\ owner[clientToEntity[c]] = c

\* The game is over when it has been announced, once, and never without: the players
\* do not wait for an END_GAME that was not sent.  Scores are the steady players' own.
GameEndIsAnnounced ==
  /\ ended = (IF state = "end" THEN 1 ELSE 0)
  /\ state = "end" /\ steady /\ main # "stopped" =>
       \A i \in DOMAIN members \cap DOMAIN ships :
         members[i] \in DOMAIN scores /\ scores[members[i]] = ships[i]

\* When nothing of a client is queued any more, the server has the last input it sent,
\* through two queues and two threads.
QuietInputsApplied ==
  \A c \in Clients :
    /\ ~ \E p \in ToSet(incoming) : p.type = "EVENT" /\ p.from = c
    /\ ~ \E e \in ToSet(events) : e.from = c
    => axis[c] = lastMove[c]

=============================================================================
