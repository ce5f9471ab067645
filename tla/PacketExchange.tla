--------------------------- MODULE PacketExchange ---------------------------
(***************************************************************************)
(* The messages of the server and of one client through PacketCodec: what a *)
(* sender means, the payload it gives to pack, and what the receiver's       *)
(* handler takes out of its PacketManager.  What the handlers do with it is  *)
(* in ServerSession, LobbyGame, ClientScreens and EntityReplication.         *)
(*                                                                         *)
(* A client keeps one PacketManager for its life, and empties it only when   *)
(* it is accepted; the server empties its own after nearly every packet.     *)
(* One packet is in flight at a time: the two directions share nothing.      *)
(***************************************************************************)
EXTENDS PacketCodec

CONSTANTS
  Names,       \* user names and prefabs
  LongNames,   \* some longer than NameLength
  Codes,       \* lobby codes, NameLength long
  ShortCodes,  \* what a player may type instead
  Texts,       \* chat messages
  Clients,     \* client ids, a byte
  Ids,         \* entity ids
  Numbers,     \* counts and event parameters
  Scoreboards, \* sets of names and scores
  Worlds       \* sequences of ids and entities

VARIABLES
  client,   \* the client's PacketManager
  server,   \* the server's, or the lobby's
  flight,   \* the packet on its way, to whom, and what was meant by it
  meant,    \* history: what the packet received last was meant to say
  heard     \* what its handler took it to say

vars == <<client, server, flight, meant, heard>>

Message(kind, of) == [kind |-> kind, of |-> of]
Silence == Message("none", <<>>)
Ignored == Message("ignored", <<>>)
Rejected == Message("rejected", <<>>)
Idle == [to |-> "nobody"]

\* The history is of one packet.
Forget == meant' = Silence /\ heard' = Silence

Init ==
  /\ client = NoPacket /\ server = NoPacket
  /\ flight = Idle
  /\ meant = Silence /\ heard = Silence

-----------------------------------------------------------------------------
(* What the server says, and the payload it says it with.                   *)

\* Server::leaderboardPacket: the best scores, and a filler for those missing.
Filler == <<FormatString(<<11, 12, 13>>), FormatString(<<14, 14, 14>>)>>
ScoreText(score) == <<3 + score>>
Leaderboard(board) ==
  LET best == SortSeq(SetToSeq(board), LAMBDA a, b : a[2] > b[2])
  IN [k \in 1..Entries |->
        IF k <= Len(best) THEN <<FormatString(best[k][1]), FormatString(ScoreText(best[k][2]))>>
        ELSE Filler]

Words(strings) == FlattenSeq([k \in DOMAIN strings |-> FormatString(strings[k])])
Answer(yes) == IF yes THEN Yes ELSE No
Bit(b) == IF b THEN 1 ELSE 0

ServerSays ==
  [kind : {"death", "whoami"}, of : {<<id>> : id \in Ids}]
    \cup [kind : {"accept"}, of : {<<id>> : id \in Clients}]
    \cup [kind : {"can_start"}, of : {<<a>> : a \in Names} \cup {<<a, b>> : a, b \in Names}]
    \cup [kind : {"status"}, of : {<<n, 1, id, 0>> : n \in Numbers, id \in Clients}]
    \cup [kind : {"code"}, of : {<<code>> : code \in Codes}]
    \cup [kind : {"connect_user"}, of : {<<name>> : name \in Names}]
    \cup [kind : {"leaderboard"}, of : Scoreboards]
    \cup [kind : {"profile"}, of : {<<a, <<4>>, <<4, 5>>, <<6>>, <<7>>>> : a \in Names}]
    \cup [kind : {"broadcast_chat"}, of : {<<a, t>> : a \in Names, t \in Texts}]
    \cup [kind : {"connect_value", "ack_leave", "end_game"}, of : {<<b>> : b \in BOOLEAN}]
    \cup [kind : {"force_leave"}, of : {<<k>> : k \in 0..2}]
    \cup [kind : {"spawn"}, of : {<<id, a>> : id \in Ids, a \in Names}]
    \cup [kind : {"rules"}, of : {<<g, d, b>> : g \in 0..1, d \in 0..2, b \in BOOLEAN}]
    \cup [kind : {"register_fail", "level_complete", "next_level"}, of : {<<>>}]
    \cup [kind : {"batch"}, of : Worlds]

\* One operator per sending function; the others send what they are given.
StatusPacket(m) == SubSeq(m.of, 1, 4)
CanStartPacket(m) == Words(m.of)
SendCodeLobbyPacket(m) == FormatString(m.of[1])
ConnectUserPacket(m) == FormatString(m.of[1])
LeaderboardPacket(m) == FlattenSeq(FlattenSeq(Leaderboard(m.of)))
ProfilePacket(m) == Words(m.of)
NewChatPacket(m) == FormatString(m.of[1]) \o m.of[2]
ValuePacket(m) == <<Answer(m.of[1])>>
AckLeavePacket(m) == <<Answer(m.of[1])>>
EndGamePacket(m) == <<Bit(m.of[1])>>
GameRulesPacket(m) == <<m.of[1], m.of[2], Bit(m.of[3])>>
SpawnPacket(m) == <<m.of[1]>> \o m.of[2] \o EndOfString

ServerPayload(m) ==
  CASE m.kind \in {"accept", "death", "whoami", "force_leave"} -> m.of
    [] m.kind = "status" -> StatusPacket(m)
    [] m.kind = "can_start" -> CanStartPacket(m)
    [] m.kind = "code" -> SendCodeLobbyPacket(m)
    [] m.kind = "connect_user" -> ConnectUserPacket(m)
    [] m.kind = "leaderboard" -> LeaderboardPacket(m)
    [] m.kind = "profile" -> ProfilePacket(m)
    [] m.kind = "broadcast_chat" -> NewChatPacket(m)
    [] m.kind = "connect_value" -> ValuePacket(m)
    [] m.kind = "ack_leave" -> AckLeavePacket(m)
    [] m.kind = "end_game" -> EndGamePacket(m)
    [] m.kind = "rules" -> GameRulesPacket(m)
    [] m.kind = "spawn" -> SpawnPacket(m)
    [] OTHER -> <<>>

\* One sending function of the server or of a lobby.
ServerSends(m) ==
  /\ flight = Idle
  /\ flight' = [to |-> "client", meant |-> m,
                packet |-> IF m.kind = "batch"
                           THEN PackBatch(0, [k \in DOMAIN m.of |-> EntityPayload(m.of[k][1], m.of[k][2])])
                           ELSE Pack(0, m.kind, ServerPayload(m))]
  /\ Forget
  /\ UNCHANGED <<client, server>>

-----------------------------------------------------------------------------
(* What the client hears: the handlers of ClientNetwork.                    *)

\* Groups of NameLength characters.
Groups(payload) ==
  [k \in 1..(Len(payload) \div NameLength) |-> Mid(payload, (k - 1) * NameLength + 1, NameLength)]

UptoEnd(s) == SubSeq(s, 1, FirstOf({k \in DOMAIN s : EndsAt(s, k)}, Len(s) + 1) - 1)

\* One operator per handler, from the payload; a payload too short is ignored.
First(kind, p) == IF p = <<>> THEN Ignored ELSE Message(kind, SubSeq(p, 1, 1))
HandleConnectionAcceptation(p) == First("accept", p)
HandlePlayerDeath(p) == First("death", p)
HandleWhoAmI(p) == First("whoami", p)
HandleForceLeave(p) == First("force_leave", p)
HandleLobbyConnectValue(p) ==
  IF p = <<>> THEN Ignored ELSE Message("connect_value", <<p[1] = Yes>>)
HandleAckLeaveLobby(p) ==
  IF p = <<>> THEN Ignored ELSE Message("ack_leave", <<p[1] = Yes>>)
HandleServerStatus(p) == IF Len(p) < 4 THEN Ignored ELSE Message("status", SubSeq(p, 1, 4))
HandleEndGame(p) == Message("end_game", <<p # <<>> /\ p[1] # 0>>)
HandleCanStart(p) == Message("can_start", Groups(p))
HandleCode(p) ==
  IF Len(p) < NameLength THEN Ignored ELSE Message("code", <<SubSeq(p, 1, NameLength)>>)
HandleConnectUser(p) == Message("connect_user", <<UptoNul(p)>>)
HandleRegisterFail(p) == Message("register_fail", <<UptoNul(p)>>)
HandleLeaderboard(p) ==
  LET words == Groups(p)
      pairs == [k \in 1..(Len(words) \div 2) |->
                  <<WithoutNul(words[2 * k - 1]), WithoutNul(words[2 * k])>>]
  IN Message("leaderboard", SelectSeq(pairs, LAMBDA pair : pair[2] # <<>>))
HandleProfile(p) == Message("profile", [k \in DOMAIN Groups(p) |-> WithoutNul(Groups(p)[k])])
HandleBroadcastedChat(p) ==
  IF Len(p) < NameLength THEN Ignored
  ELSE Message("broadcast_chat", <<UptoNul(SubSeq(p, 1, NameLength)),
                                   UptoNul(SubSeq(p, NameLength + 1, Len(p)))>>)
HandleEntitySpawn(p) ==
  IF p = <<>> THEN Ignored ELSE Message("spawn", <<p[1], UptoEnd(Tail(p))>>)
HandleGameRules(p) ==
  IF Len(p) < 3 THEN Ignored ELSE Message("rules", <<p[1], p[2], p[3] # 0>>)
HandleBatchedGameState(batched) ==
  Message("batch", [k \in DOMAIN batched |-> <<batched[k][1], Components(batched[k])>>])

\* handlePacketType: the handler of the packet's type.
ClientHears(pm) ==
  LET p == pm.payload
  IN CASE pm.type = "accept" -> HandleConnectionAcceptation(p)
       [] pm.type = "death" -> HandlePlayerDeath(p)
       [] pm.type = "whoami" -> HandleWhoAmI(p)
       [] pm.type = "force_leave" -> HandleForceLeave(p)
       [] pm.type = "connect_value" -> HandleLobbyConnectValue(p)
       [] pm.type = "ack_leave" -> HandleAckLeaveLobby(p)
       [] pm.type = "status" -> HandleServerStatus(p)
       [] pm.type = "end_game" -> HandleEndGame(p)
       [] pm.type = "can_start" -> HandleCanStart(p)
       [] pm.type = "code" -> HandleCode(p)
       [] pm.type = "connect_user" -> HandleConnectUser(p)
       [] pm.type = "register_fail" -> HandleRegisterFail(p)
       [] pm.type = "leaderboard" -> HandleLeaderboard(p)
       [] pm.type = "profile" -> HandleProfile(p)
       [] pm.type = "broadcast_chat" -> HandleBroadcastedChat(p)
       [] pm.type = "spawn" -> HandleEntitySpawn(p)
       [] pm.type = "rules" -> HandleGameRules(p)
       [] pm.type = "batch" -> HandleBatchedGameState(pm.batched)
       [] OTHER -> Message(pm.type, <<>>)

\* handleConnectionAcceptation resets the PacketManager; nothing else does.
ClientReceives ==
  /\ flight.to = "client"
  /\ flight' = Idle
  /\ meant' = flight.meant
  /\ IF Accepts(flight.packet)
     THEN /\ heard' = ClientHears(Unpacked(client, flight.packet))
          /\ client' = IF flight.packet.type = "accept"
                       THEN [NoPacket EXCEPT !.batched = client.batched]
                       ELSE Unpacked(client, flight.packet)
     ELSE heard' = Rejected /\ UNCHANGED client
  /\ UNCHANGED server

-----------------------------------------------------------------------------
(* What the client says.                                                    *)

ClientSays ==
  [kind : {"connect", "request_lobby", "request_leaderboard", "request_profile"}, of : {<<>>}]
    \cup [kind : {"disconnect", "leave_lobby", "whoami"}, of : {<<id>> : id \in Clients}]
    \cup [kind : {"event"}, of : {<<id, n % 7, n>> : id \in Clients, n \in Numbers}]
    \cup [kind : {"connect_to_lobby", "master_start"}, of : {<<code>> : code \in Codes}]
    \cup [kind : {"connect_to_lobby"}, of : {<<code>> : code \in ShortCodes}]
    \cup [kind : {"register", "login"}, of : {<<a, b>> : a, b \in Names \cup LongNames}]
    \cup [kind : {"new_chat"}, of : {<<t>> : t \in Texts}]
    \cup [kind : {"rules_update"}, of : {<<k, 0>> : k \in 0..2}]

\* sendMessageToServer fills the message up to whole groups of NameLength.
ChatPayload(t) ==
  LET groups == (Len(t) + NameLength - 1) \div NameLength
  IN FlattenSeq([k \in 1..groups |-> FormatString(SubSeq(t, (k - 1) * NameLength + 1,
       IF k * NameLength < Len(t) THEN k * NameLength ELSE Len(t)))])

\* One operator per sending function; the rest send an empty payload.
EventPacket(m) == Tail(m.of)
DisconnectionPacket(m) == m.of
LeaveLobbyPacket(m) == m.of
LobbyConnectionPacket(m) == m.of[1]  \* an empty code has a marker, left out
MasterStartPacket(m) == m.of[1]
RegisterPacket(m) == Words(m.of)
LoginPacket(m) == Words(m.of)
MessagePacket(m) == ChatPayload(m.of[1])
RulesUpdatePacket(m) == m.of

ClientPayload(m) ==
  CASE m.kind = "event" -> EventPacket(m)
    [] m.kind = "disconnect" -> DisconnectionPacket(m)
    [] m.kind = "leave_lobby" -> LeaveLobbyPacket(m)
    [] m.kind = "connect_to_lobby" -> LobbyConnectionPacket(m)
    [] m.kind = "master_start" -> MasterStartPacket(m)
    [] m.kind = "register" -> RegisterPacket(m)
    [] m.kind = "login" -> LoginPacket(m)
    [] m.kind = "new_chat" -> MessagePacket(m)
    [] m.kind = "rules_update" -> RulesUpdatePacket(m)
    [] OTHER -> <<>>

Sender(m) == IF m.kind \in {"disconnect", "leave_lobby", "whoami", "event"} THEN m.of[1] ELSE 1

\* One sending function of ClientNetwork.  A payload shorter than the builder
\* reads is an exception nobody on the screens catches: the client ends, and the
\* player starts another.
ClientSends(m) ==
  /\ flight = Idle
  /\ \/ /\ Len(ClientPayload(m)) >= Needed(m.kind)
        /\ flight' = [to |-> "server", meant |-> m,
                      packet |-> Pack(Sender(m), m.kind, ClientPayload(m))]
        /\ UNCHANGED client
     \/ /\ Len(ClientPayload(m)) < Needed(m.kind)
        /\ client' = NoPacket
        /\ UNCHANGED flight
  /\ Forget
  /\ UNCHANGED server

-----------------------------------------------------------------------------
(* What the server hears: Server::handlePacket and the functions it calls.  *)

\* erase(find_last_not_of('\0') + 1).
Trimmed(s) ==
  LET kept == {k \in DOMAIN s : s[k] # NUL}
  IN IF kept = {} THEN <<>> ELSE SubSeq(s, 1, CHOOSE k \in kept : \A j \in kept : j <= k)

\* Codes, names and chat are taken from the packet itself, identities from its
\* header, the rest from the PacketManager.
ProcessCredentials(pm, p) ==
  Message(pm.type, <<Trimmed(SubSeq(p.body, 1, NameLength)),
                     Trimmed(Mid(p.body, NameLength + 1, NameLength))>>)
ProcessConnectToLobby(p) == Message("connect_to_lobby", <<p.body>>)
ProcessMasterStart(p) == Message("master_start", <<p.body>>)
ProcessNewChat(p) == Message("new_chat", <<p.body>>)
ProcessRulesUpdate(pm) == Message("rules_update", SubSeq(pm.payload, 1, 2))
ProcessEvent(pm) == Message("event", <<pm.id, pm.payload[1], pm.payload[2]>>)
ProcessDisconnection(pm) == Message("disconnect", <<pm.id>>)
ProcessLeaveLobby(pm) == Message("leave_lobby", <<pm.id>>)
ProcessWhoAmI(pm) == Message("whoami", <<pm.id>>)

ServerHears(pm, p) ==
  CASE pm.type = "disconnect" -> ProcessDisconnection(pm)
    [] pm.type = "leave_lobby" -> ProcessLeaveLobby(pm)
    [] pm.type = "whoami" -> ProcessWhoAmI(pm)
    [] pm.type = "event" -> ProcessEvent(pm)
    [] pm.type = "connect_to_lobby" -> ProcessConnectToLobby(p)
    [] pm.type = "master_start" -> ProcessMasterStart(p)
    [] pm.type \in {"register", "login"} -> ProcessCredentials(pm, p)
    [] pm.type = "new_chat" -> ProcessNewChat(p)
    [] pm.type = "rules_update" -> ProcessRulesUpdate(pm)
    [] OTHER -> Message(pm.type, <<>>)

\* reset() comes after the handler, except when the packet left a lobby that had
\* stopped running.
ServerReceives ==
  /\ flight.to = "server"
  /\ flight' = Idle
  /\ meant' = flight.meant
  /\ IF Accepts(flight.packet)
     THEN /\ heard' = ServerHears(Unpacked(server, flight.packet), flight.packet)
          /\ \/ server' = NoPacket
             \/ /\ flight.packet.type = "leave_lobby"
                /\ server' = Unpacked(server, flight.packet)
     ELSE heard' = Rejected /\ UNCHANGED server
  /\ UNCHANGED client

-----------------------------------------------------------------------------

Next ==
  \/ \E m \in ServerSays : ServerSends(m)
  \/ ClientReceives
  \/ \E m \in ClientSays : ClientSends(m)
  \/ ServerReceives

Spec == Init /\ [][Next]_vars

-----------------------------------------------------------------------------
(* Properties.                                                              *)

\* What a message should come out as: names and texts to the length the formats
\* have, a score that is missing as the filler.
Cut(s) == IF Len(s) > NameLength THEN SubSeq(s, 1, NameLength) ELSE s

Intended(m) ==
  CASE m.kind = "can_start" -> [k \in DOMAIN m.of |-> FormatString(m.of[k])]
    [] m.kind \in {"register", "login"} -> <<Cut(m.of[1]), Cut(m.of[2])>>
    [] m.kind = "leaderboard" ->
         [k \in 1..Entries |-> <<WithoutNul(Leaderboard(m.of)[k][1]),
                                 WithoutNul(Leaderboard(m.of)[k][2])>>]
    [] m.kind = "new_chat" -> <<ChatPayload(m.of[1])>>
    [] OTHER -> m.of

\* Every packet one side builds passes the other side's unpack, whichever packets
\* came before it, its handler finds the payload long enough, and acts on what the
\* sender said and on nothing an earlier packet left behind.  The reason of a failed registration is the exception: its packet has
\* no body, and handleRegisterFail shows the payload of the packet before.
HandlersHearTheSender ==
  /\ heard.kind = meant.kind
  /\ meant.kind \notin {"batch", "register_fail"} => heard.of = Intended(meant)

\* A game state brings each entity of the batch, in its order, the components the
\* server has for it and only those, every number within half a step of the
\* server's and every animation state whole.
StatesArrive ==
  meant.kind = "batch" =>
    /\ Len(heard.of) = Len(meant.of)
    /\ \A k \in DOMAIN meant.of :
         LET entity == meant.of[k][2]
             shown == heard.of[k][2]
         IN /\ heard.of[k][1] = meant.of[k][1]
            /\ {shown[j][1] : j \in DOMAIN shown} = DOMAIN entity
            /\ \A j \in DOMAIN shown :
                 LET c == shown[j][1]
                 IN /\ Len(shown[j][2]) = Len(entity[c])
                    /\ IF c = ANIMATION_STATE THEN shown[j][2] = entity[c]
                       ELSE \A n \in DOMAIN entity[c] :
                              LET off == shown[j][2][n] - entity[c][n]
                              IN 2 * off <= Quantum[c + 1][n] /\ -2 * off <= Quantum[c + 1][n]
=============================================================================
