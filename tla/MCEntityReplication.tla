------------------------ MODULE MCEntityReplication ------------------------
(* EntityReplication on small instances: one or two clients, one or two       *)
(* entities with two states each, a batch of one entity, one level change.    *)
(* The state moved carries an animation state, still does not.                *)
EXTENDS EntityReplication

CONSTANTS still, moved

MCSettled == [v \in Values |-> still]

(* What a state is for the properties of the run replication.  Nothing reads   *)
(* view or strays but a Receive, which writes only view, and the properties,   *)
(* which look at those of steady clients alone: with none left, states that    *)
(* differ only there need not be told apart.                                   *)
MCView ==
  <<registry, lobby, cache, pass, wire, promised, steady,
    IF steady = {} THEN <<>> ELSE <<view, strays>>>>
============================================================================
