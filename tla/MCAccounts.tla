------------------------------ MODULE MCAccounts ------------------------------
(* Two clients, two names, one of them banned, and one lobby: its game thread,  *)
(* one that obeys commands and the main one.                                    *)
EXTENDS Accounts, TLC

CONSTANTS ann, bob

MCInitial == ann :> [Account("p") EXCEPT !.banned = TRUE]
MCTries == {<<1, ann>>, <<1, bob>>, <<2, ann>>}

\* The properties say nothing of a damaged file: what becomes of it is not followed.
Undamaged == ~damaged.users /\ ~damaged.scores
=============================================================================
