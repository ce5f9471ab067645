-------------------------- MODULE MCClientTimeouts --------------------------
(* ClientTimeouts with one endpoint: only ids matter to the heartbeats.      *)
EXTENDS ClientTimeouts
=============================================================================
