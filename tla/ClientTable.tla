----------------------------- MODULE ClientTable -----------------------------
(***************************************************************************)
(* Server::_clients, the table of open connections, and the counter client *)
(* ids are drawn from.  The table is a vector that every lookup scans from  *)
(* the front, so it is a sequence here: what a scan finds first matters as  *)
(* soon as an endpoint or an id occurs twice, and both can.                 *)
(***************************************************************************)
EXTENDS Integers, Sequences, SequencesExt

CONSTANTS
  Endpoints,      \* UDP endpoints clients send from
  IdMod,          \* client ids are uint8_t: 256 in the code
  MaxConnections  \* bound of the model: connections open at once

ASSUME ClientTableConstants ==
  /\ IdMod \in Nat \ {0}
  /\ MaxConnections \in Nat

Ids == 0..(IdMod - 1)
Client == [id : Ids, ep : Endpoints] \* the tuples of _clients, without the name

VARIABLES
  clients,       \* Server::_clients
  nextClientId,  \* Server::_nextClientId
  issued         \* the ids some ACCEPT packet has carried: what clients may send

table == <<clients, nextClientId, issued>>

TableTypeOK ==
  /\ clients \in Seq(Client)
  /\ nextClientId \in Ids
  /\ issued \in SUBSET Ids

TableInit ==
  /\ clients = <<>>
  /\ nextClientId = 1 % IdMod
  /\ issued = {}

TableIds == {clients[i].id : i \in DOMAIN clients}

\* i is the entry a scan of _clients for an id stops at.
FirstWithId(i, id) ==
  /\ i \in DOMAIN clients
  /\ clients[i].id = id
  /\ \A j \in 1..(i - 1) : clients[j].id # id

\* i is the entry a scan of _clients for an endpoint stops at.
FirstFrom(i, e) ==
  /\ i \in DOMAIN clients
  /\ clients[i].ep = e
  /\ \A j \in 1..(i - 1) : clients[j].ep # e

\* Server::processConnections and connectionPacket: whoever asks is entered
\* under the next id, also an endpoint that is in the table already.
Register(e) ==
  /\ Len(clients) < MaxConnections
  /\ clients' = Append(clients, [id |-> nextClientId, ep |-> e])
  /\ issued' = issued \cup {nextClientId}
  /\ nextClientId' = (nextClientId + 1) % IdMod

\* The table's part of Server::processDisconnections: the counter goes back by
\* one, whichever client it is that leaves.
Unregister(i) ==
  /\ clients' = RemoveAt(clients, i)
  /\ nextClientId' = (nextClientId + IdMod - 1) % IdMod
  /\ UNCHANGED issued

\* The next id to hand out is a count of the open connections and nothing else
\* (processConnections increments it, processDisconnections decrements it): which
\* ids are in use has no part in the choice.
NextIdCountsClients == nextClientId = (1 + Len(clients)) % IdMod
=============================================================================
