--------------------------- MODULE ClientTimeouts ---------------------------
(***************************************************************************)
(* Heartbeats and timeouts of Server: _clientLastHeartbeat, written by      *)
(* HEALTHCHECK events, and checkClientTimeouts, which disconnects the       *)
(* clients whose entry is too old.  ServerSession leaves the clock out and  *)
(* lets any client with an entry expire; here time passes, one unit at a    *)
(* time, while the main loop sleeps, and the lobbies are left out.          *)
(***************************************************************************)
EXTENDS ClientTable, FiniteSets

CONSTANTS
  Timeout,  \* CLIENT_TIMEOUT_SECONDS: 15 in the code
  NoBeat    \* no entry in _clientLastHeartbeat

ASSUME TimeoutConstants ==
  /\ Timeout \in Nat
  /\ NoBeat \notin Nat

VARIABLES
  beat,      \* age of the entry of an id in _clientLastHeartbeat, or NoBeat
  collected, \* timedOutClients of checkClientTimeouts
  position,  \* the entry its walk over _clients is at
  turn       \* where the main thread is in its loop

timeoutsVars == <<table, beat, collected, position, turn>>

\* Nothing distinguishes ages beyond the timeout: they are counted up to there.
Older(t) == IF t = Timeout + 1 THEN t ELSE t + 1

TimeoutsInit ==
  /\ TableInit
  /\ beat = [id \in Ids |-> NoBeat]
  /\ collected = <<>>
  /\ position = 1
  /\ turn = "receive"

TakeTurn ==
  /\ turn = "receive"
  /\ turn' = "timeouts"
  /\ UNCHANGED <<collected, position>>

NothingReceived ==
  /\ TakeTurn
  /\ UNCHANGED <<table, beat>>

\* onClientConnected, which would start the heartbeat, is called nowhere: a new
\* client has the entry its id had before, if any.
Connects(e) ==
  /\ TakeTurn
  /\ Register(e)
  /\ UNCHANGED beat

Heartbeat(id) ==
  /\ TakeTurn
  /\ beat' = [beat EXCEPT ![id] = 0]
  /\ UNCHANGED table

\* Server::processDisconnections: the first client with the id, and its entry.
EraseClient(id) ==
  \E i \in DOMAIN clients :
    /\ FirstWithId(i, id)
    /\ Unregister(i)
    /\ beat' = [beat EXCEPT ![id] = NoBeat]

Disconnects(id) ==
  /\ TakeTurn
  /\ EraseClient(id)

\* More than the timeout has passed since the last HEALTHCHECK under the id.
Expired(id) == beat[id] # NoBeat /\ beat[id] > Timeout

StartSweep ==
  /\ turn = "timeouts"
  /\ collected' = <<>>
  /\ position' = 1
  /\ turn' = "collect"
  /\ UNCHANGED <<table, beat>>

\* Mutant of AtEnd: the walk ends at the first client that never sent a HEALTHCHECK.
AtSilent == position \in DOMAIN clients => beat[clients[position].id] = NoBeat

\* The walk has passed the last client.
AtEnd == position > Len(clients)

\* An id that has expired is collected at each of its entries.
CollectClient ==
  /\ turn = "collect"
  /\ ~AtEnd
  /\ LET id == clients[position].id
     IN collected' = IF Expired(id) THEN Append(collected, id) ELSE collected
  /\ position' = position + 1
  /\ UNCHANGED <<table, beat, turn>>

EndOfWalk ==
  /\ turn = "collect"
  /\ AtEnd
  /\ turn' = "expire"
  /\ UNCHANGED <<table, beat, collected, position>>

ExpireFirst ==
  /\ turn = "expire"
  /\ collected # <<>>
  /\ EraseClient(Head(collected))
  /\ collected' = Tail(collected)
  /\ UNCHANGED <<turn, position>>

EndOfSweep ==
  /\ turn = "expire"
  /\ collected = <<>>
  /\ turn' = "sleep"
  /\ UNCHANGED <<table, beat, collected, position>>

\* The loop sleeps for a millisecond: mostly no unit of time passes.
Sleep ==
  /\ turn = "sleep"
  /\ turn' = "receive"
  /\ UNCHANGED <<table, collected, position>>

Nap == Sleep /\ UNCHANGED beat

Tick ==
  /\ Sleep
  /\ beat' = [id \in Ids |-> IF beat[id] = NoBeat THEN NoBeat ELSE Older(beat[id])]

TimeoutsNext ==
  \/ NothingReceived
  \/ \E e \in Endpoints : Connects(e)
  \/ \E id \in issued : Heartbeat(id) \/ Disconnects(id)
  \/ StartSweep \/ CollectClient \/ EndOfWalk \/ ExpireFirst \/ EndOfSweep
  \/ Nap \/ Tick

TimeoutsSpec == TimeoutsInit /\ [][TimeoutsNext]_timeoutsVars

\* The main loop goes on and its clock advances; nobody has to send anything.
FairTimeoutsSpec == TimeoutsSpec /\ WF_timeoutsVars(TimeoutsNext) /\ SF_timeoutsVars(Tick)

-----------------------------------------------------------------------------

\* When a sweep ends no client with an expired entry is left in the table,
\* however many share an id and whoever connected in front of it.
SweepIsComplete == turn = "sleep" => \A id \in TableIds : ~Expired(id)

\* A client that sent a HEALTHCHECK either sends another one or is disconnected,
\* or one that shares its id is, which takes the entry along.
QuietClientLeaves ==
  \A id \in Ids :
    id \in TableIds /\ beat[id] # NoBeat
      ~> beat[id] \in {0, NoBeat} \/ id \notin TableIds
=============================================================================
