---------------------------- MODULE MCLobbyGame ----------------------------
(* LobbyGame with two clients and two maps of one entity each.               *)
EXTENDS LobbyGame

============================================================================
