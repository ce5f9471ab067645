---------------------------- MODULE MCGameWorld ----------------------------
(* GameWorld on four short levels with two players, one of whose entities     *)
(* comes before the game zone's and one after it. In the first both meet a    *)
(* wave of two enemies; in the second one has an obstacle before it, the      *)
(* other an enemy, a bonus, a stop and the end of the map; in the third the   *)
(* same obstacle is before both; in the fourth the zone starts further back,  *)
(* which leaves time for a shot of one player and an enemy to hit the other   *)
(* in one frame and for the hit that waits to be applied a frame later.       *)
EXTENDS GameWorld

Zone == [Prefab("zone", 0) EXCEPT !.v = 1]
Wave(at, trigger) == [kind |-> "mob", at |-> at, trigger |-> trigger]
Spawner(waves) == [Prefab("spawner", 0) EXCEPT !.waves = waves]

MCLevels ==
  {<< Prefab("player", 1), Zone, Prefab("player", 3),
      Spawner(<<Wave(7, 1), Wave(7, 1)>>) >>,
   << Prefab("player", 1), Zone, Prefab("player", 5), Prefab("wall", 4),
      Prefab("bonus", 8), Prefab("stop", 9), Prefab("end", 11), Spawner(<<Wave(7, 2)>>) >>,
   << Prefab("player", 1), Zone, Prefab("player", 2), Prefab("wall", 4) >>,
   << Prefab("player", 1), [Zone EXCEPT !.x = -2], Prefab("player", 3), Prefab("mob", 7) >>}

MCAims == (1 :> {0, 1}) @@ (3 :> {0, 1})
=============================================================================
