---------------------------- MODULE MCClientFiles ----------------------------
(* ClientFiles with two directions of two keys each, three levels' files, and  *)
(* the levels' contents that tell the parsers apart.                           *)
EXTENDS ClientFiles, TLC

CONSTANTS a, d, comma, escape

\* Three letters, a key without a name and Escape.
MCKeyOrder == <<a, d, escape, comma>>
MCDefaults == (<<"left", "primary">> :> a) @@ (<<"right", "primary">> :> d)
                @@ [p \in Places |-> None]
MCSlots    == {"primary", "secondary"}

\* Two levels and a file that cannot be parsed, and room for six names.
MCLevels == (0 :> [index |-> 0, work |-> 0]) @@ (1 :> [index |-> 1, work |-> 1])
              @@ (2 :> [index |-> None, work |-> 2])

\* A rock, an arch that is stretched, a bubble with two colliders, power-ups
\* and enemies; the editor's preview knows an enemy's file by its own name only.
MCPrefabs ==
  {[dir |-> "obstacles", file |-> "rock", name |-> "rock", boxes |-> <<<<3, 2>>>>, scaleX |-> 2, scaleY |-> 2],
   [dir |-> "obstacles", file |-> "arch", name |-> "arch", boxes |-> <<<<3, 2>>>>, scaleX |-> 1, scaleY |-> 2],
   [dir |-> "obstacles", file |-> "bubble", name |-> "bubble", boxes |-> <<<<4, 4>>, <<3, 3>>>>, scaleX |-> 1, scaleY |-> 1],
   [dir |-> "powerups", file |-> "shield", name |-> "shield", boxes |-> <<<<1, 1>>>>, scaleX |-> 1, scaleY |-> 1],
   [dir |-> "enemies", file |-> "alien1", name |-> "alien", boxes |-> <<<<1, 1>>>>, scaleX |-> 1, scaleY |-> 1],
   [dir |-> "enemies", file |-> "boss", name |-> "boss", boxes |-> <<<<2, 2>>>>, scaleX |-> 1, scaleY |-> 1]}

At(type, x, y, count) == [type |-> type, x |-> x, y |-> y, count |-> count]

MCPositions ==
  {At("horizontalLine", 1, 0, 2), At("verticalLine", 1, 0, 3), At("verticalLine", 1, 0, None),
   At("unique", 1, 4, None), At("unique", 1, None, None), At("circle", 1, 1, 1)}

\* A level without a length, with fractions, and an ordinary one, with nothing in them.
MCBare == {[length |-> l, speed |-> s, obstacles |-> <<>>, powerUps |-> <<>>, waves |-> <<>>] :
             l \in {None, 9, 16}, s \in {None, 3, 4}}

MCWhole == CHOOSE f \in MCBare : f.length = 16 /\ f.speed = 4

\* Groups of one name apart, groups without a name or positions.
MCObstacles ==
  {<<[name |-> n, positions |-> p], [name |-> m, positions |-> <<q>>]>> :
     n \in {"rock", "bubble", None}, m \in {"rock", "arch"},
     p \in {None} \union {<<o>> : o \in MCPositions}, q \in MCPositions}

MCPowerUps ==
  {<<[name |-> "shield", at |-> <<2, 2>>], [name |-> n, at |-> p]>> :
     n \in {"shield", "unknown", None}, p \in {None, <<2, 2>>, <<5, 1>>}}

MCZones == {[lo |-> l, hi |-> h, kind |-> k] :
              l \in {None, 20, 41}, h \in {None, 60}, k \in {None, "uniform", "random"}}

MCFull == [lo |-> 0, hi |-> 100, kind |-> "uniform"]

\* Waves of two groups, with what a file may leave out.
MCWaves ==
  {<<[at |-> 6, stop |-> s,
      enemies |-> <<[type |-> "boss", count |-> 2, dx |-> MCFull, dy |-> z],
                    [type |-> t, count |-> c, dx |-> z, dy |-> MCFull]>>]>> :
     s \in {None, 8}, t \in {"alien", "unknown", None}, c \in {None, 3}, z \in MCZones}
  \union {<<[at |-> l, stop |-> None, enemies |-> e],
            [at |-> 9, stop |-> None,
             enemies |-> <<[type |-> "alien", count |-> 1, dx |-> MCFull, dy |-> MCFull]>>]>> :
            l \in {None, 3}, e \in {None, <<>>}}

MCFiles ==
  MCBare
    \union {[MCWhole EXCEPT !.obstacles = o] : o \in MCObstacles}
    \union {[MCWhole EXCEPT !.powerUps = p] : p \in MCPowerUps}
    \union {[MCWhole EXCEPT !.waves = w] : w \in MCWaves}
=============================================================================
