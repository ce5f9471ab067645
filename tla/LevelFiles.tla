----------------------------- MODULE LevelFiles -----------------------------
(***************************************************************************)
(* A level's file: what the level editor reads from it, draws and writes    *)
(* back, and what the server's MapParser makes of it when it is played.     *)
(* Numbers are halves of the file's unit, so that those the code cuts to an *)
(* integer can lose something.  A text is shown under the filter "All".     *)
(***************************************************************************)
EXTENDS Integers, FiniteSets, SequencesExt

CONSTANTS
  Prefabs,  \* files of configs/entities: dir, file, name, boxes (its colliders), scaleX, scaleY
  Files,    \* the levels that can be opened
  Lengths, Counts, Ends, \* what is typed: a length, a count, an end of a zone
  MaxEdits, \* bound: changes typed
  MaxSaves, \* bound: saves
  Missing   \* a field the file does not have

\* What the constants are taken to be; MCClientFiles assumes it.
FilesConstants ==
  /\ Lengths \union Counts \union Ends \subseteq Nat /\ {MaxEdits, MaxSaves} \subseteq Nat
  /\ \A p, q \in Prefabs : p # q => p.name # q.name /\ <<p.dir, p.file>> # <<q.dir, q.file>>
  \* The game throws at an obstacle it has no prefab of.
  /\ \A f \in Files : \A i \in DOMAIN f.obstacles :
       f.obstacles[i].name \in {p.name : p \in Prefabs} \union {Missing}

VARIABLES
  file,    \* the level on the disk
  canvas,  \* _levelData, the fields that are empty, _obstaclesByName, _powerUpsByName, _waves
  unsaved, \* _hasUnsavedChanges
  edits, saves \* history: what was typed and saved, at most MaxEdits and MaxSaves

level == <<file, canvas, unsaved, edits, saves>>

Whole(n) == n - (n % 2) \* static_cast<int>, of a number that is not negative

Or(value, default) == IF value = Missing THEN default ELSE value

Has(record, fields) == \A f \in fields : record[f] # Missing

Joined(seqs) == FlattenSeq([i \in 1 .. Len(seqs) |-> seqs[i]])

-----------------------------------------------------------------------------
(* Prefabs.  The editor finds one by its file, the game by the name in it.  *)

\* The names the editor's lists offer.
Available(dir) == {p.name : p \in {q \in Prefabs : q.dir = dir}}

\* The size the editor takes a prefab for: the collider by the horizontal
\* scale, nothing where the colliders are a list; and whether it has a picture.
Preview(dir, name) ==
  LET found == {p \in Prefabs : p.dir = dir /\ p.file = name} IN
  IF found = {} THEN [width |-> 0, height |-> 0, drawn |-> FALSE]
  ELSE LET p == CHOOSE q \in found : TRUE IN
       [width  |-> IF Len(p.boxes) = 1 THEN p.boxes[1][1] * p.scaleX ELSE 0,
        height |-> IF Len(p.boxes) = 1 THEN p.boxes[1][2] * p.scaleX ELSE 0,
        drawn  |-> TRUE]

HasPrefab(name) == \E p \in Prefabs : p.name = name

\* The size of the first collider in the game.
Hitbox(name) ==
  LET p == CHOOSE q \in Prefabs : q.name = name
  IN [width |-> p.boxes[1][1] * p.scaleX, height |-> p.boxes[1][2] * p.scaleY]

-----------------------------------------------------------------------------
(* The editor: reading.  A position has a type, x, y and, in a line, a count. *)

Required == [horizontalLine |-> {"x", "y", "count"}, verticalLine |-> {"x", "y", "count"},
             unique |-> {"x", "y"}]

IsPosition(p) == p.type \in DOMAIN Required /\ Has(p, Required[p.type])

NamesIn(entries) == {entries[i].name : i \in DOMAIN entries} \ {Missing}

\* A mutant: an entry replaces those of its name before it.
ParseLastObstacles(entries) ==
  [name \in NamesIn(entries) |->
    LET last == SelectLastInSeq(entries, LAMBDA e : e.name = name)
    IN [type \in DOMAIN Required |->
          SelectSeq(Or(entries[last].positions, <<>>),
                    LAMBDA p : p.type = type /\ IsPosition(p))]]

\* The entries of one name are one group, of three lists.
ParseObstacles(entries) ==
  [name \in NamesIn(entries) |->
    LET mine == Joined([i \in DOMAIN entries |->
                  IF entries[i].name = name THEN Or(entries[i].positions, <<>>) ELSE <<>>])
    IN [type \in DOMAIN Required |->
          SelectSeq(mine, LAMBDA p : p.type = type /\ IsPosition(p))]]

ParsePowerUps(entries) ==
  [name \in NamesIn(entries) |->
    LET mine == SelectSeq(entries, LAMBDA e : e.name = name /\ e.at # Missing)
    IN [i \in 1 .. Len(mine) |-> mine[i].at]]

ParseZone(zone) ==
  [lo |-> Or(zone.lo, 0), hi |-> Or(zone.hi, 200), kind |-> Or(zone.kind, "uniform")]

\* An enemy's zones are in the file: without them the code reads floats that
\* were never set.
ParseEnemies(enemies) ==
  LET typed == SelectSeq(enemies, LAMBDA e : e.type # Missing)
  IN [i \in 1 .. Len(typed) |->
       [type |-> typed[i].type, count |-> Or(typed[i].count, 1),
        dx |-> ParseZone(typed[i].dx), dy |-> ParseZone(typed[i].dy)]]

ParseWaves(waves) ==
  LET placed == SelectSeq(waves, LAMBDA w : w.at # Missing)
  IN [i \in 1 .. Len(placed) |->
       [at |-> placed[i].at, enemies |-> ParseEnemies(Or(placed[i].enemies, <<>>))]]

Enter(f) ==
  [length |-> f.length, speed |-> f.speed, empty |-> {},
   obstacles |-> ParseObstacles(f.obstacles), powerUps |-> ParsePowerUps(f.powerUps),
   waves |-> ParseWaves(f.waves)]

-----------------------------------------------------------------------------
(* The editor: drawing.                                                     *)

\* Where the things of a line are, one box after the other.
Along(name, p, box) ==
  CASE p.type = "horizontalLine" ->
         [i \in 1 .. p.count |-> [name |-> name, x |-> p.x + (i - 1) * box.width, y |-> p.y]]
    [] p.type = "verticalLine" ->
         [i \in 1 .. p.count |-> [name |-> name, x |-> p.x, y |-> p.y + (i - 1) * box.height]]
    [] OTHER -> <<[name |-> name, x |-> p.x, y |-> p.y]>>

RenderAllObstacles(groups) ==
  Joined([i \in 1 .. Cardinality(DOMAIN groups) |->
    LET name  == SetToSeq(DOMAIN groups)[i]
        all   == groups[name].horizontalLine \o groups[name].verticalLine \o groups[name].unique
        shown == Preview("obstacles", name)
    IN IF shown.drawn THEN Joined([j \in DOMAIN all |-> Along(name, all[j], shown)]) ELSE <<>>])

RenderAllPowerUps(groups) ==
  Joined([i \in 1 .. Cardinality(DOMAIN groups) |->
    LET name == SetToSeq(DOMAIN groups)[i]
    IN IF Preview("powerups", name).drawn
       THEN [j \in DOMAIN groups[name] |->
              [name |-> name, x |-> groups[name][j][1], y |-> groups[name][j][2]]]
       ELSE <<>>])

\* A wave's line and its enemies' zones, in percent of the screen right of it.
RenderAllWaves(waves) ==
  [i \in DOMAIN waves |->
    [line |-> waves[i].at,
     zones |-> [j \in DOMAIN waves[i].enemies |->
       LET e == waves[i].enemies[j]
       IN [left |-> e.dx.lo, right |-> e.dx.hi, top |-> e.dy.lo, bottom |-> e.dy.hi]]]]

\* Nothing is drawn of a level without a length.
RenderLevelPreview(c) ==
  IF Or(c.length, 0) = 0 THEN [end |-> 0, sprites |-> <<>>, waves |-> <<>>]
  ELSE [end |-> c.length,
        sprites |-> RenderAllObstacles(c.obstacles) \o RenderAllPowerUps(c.powerUps),
        waves |-> RenderAllWaves(c.waves)]

-----------------------------------------------------------------------------
(* The editor: writing.                                                     *)

SaveObstacles(groups) ==
  [i \in 1 .. Cardinality(DOMAIN groups) |->
    LET name == SetToSeq(DOMAIN groups)[i]
    IN [name |-> name,
        positions |-> groups[name].horizontalLine \o groups[name].verticalLine
                        \o groups[name].unique]]

SavePowerUps(groups) ==
  Joined([i \in 1 .. Cardinality(DOMAIN groups) |->
    LET name == SetToSeq(DOMAIN groups)[i]
    IN [j \in DOMAIN groups[name] |-> [name |-> name, at |-> groups[name][j]]]])

\* A mutant: one zone written for both.
SaveWavesTwiceX(waves) ==
  [i \in DOMAIN waves |->
    [at |-> waves[i].at, stop |-> Missing,
     enemies |-> [j \in DOMAIN waves[i].enemies |->
       [type |-> waves[i].enemies[j].type, count |-> waves[i].enemies[j].count,
        dx |-> waves[i].enemies[j].dx, dy |-> waves[i].enemies[j].dx]]]]

\* A wave is written from what was read: where it stops the game zone is lost.
SaveWaves(waves) ==
  [i \in DOMAIN waves |->
    [at |-> waves[i].at, stop |-> Missing,
     enemies |-> [j \in DOMAIN waves[i].enemies |->
       [type |-> waves[i].enemies[j].type, count |-> waves[i].enemies[j].count,
        dx |-> waves[i].enemies[j].dx, dy |-> waves[i].enemies[j].dy]]]]

\* The length and the scroll speed are those of the texts, which show integers.
Save ==
  /\ saves < MaxSaves /\ canvas.empty = {}
  /\ file' = [length |-> Whole(Or(canvas.length, 0)), speed |-> Whole(Or(canvas.speed, 2)),
              obstacles |-> SaveObstacles(canvas.obstacles),
              powerUps |-> SavePowerUps(canvas.powerUps), waves |-> SaveWaves(canvas.waves)]
  /\ canvas' = [canvas EXCEPT !.length = file'.length, !.speed = file'.speed]
  /\ unsaved' = FALSE /\ saves' = saves + 1
  /\ UNCHANGED edits

\* The editor is left, whatever was not saved is lost, and the file opened again.
Reopen ==
  /\ canvas' = Enter(file) /\ unsaved' = FALSE
  /\ UNCHANGED <<file, edits, saves>>

-----------------------------------------------------------------------------
(* The editor: typing.                                                      *)

Typed(c) ==
  /\ edits < MaxEdits /\ edits' = edits + 1
  /\ canvas' = c /\ unsaved' = TRUE
  /\ UNCHANGED <<file, saves>>

TypeNumber ==
  \E f \in {"length", "speed"}, n \in Lengths :
    Typed([canvas EXCEPT ![f] = n, !.empty = @ \ {f}])

\* An emptied text leaves the number as it was, and nothing can be saved.
EmptyField == \E f \in {"name", "length", "speed"} : Typed([canvas EXCEPT !.empty = @ \union {f}])

TypeName == "name" \in canvas.empty /\ Typed([canvas EXCEPT !.empty = @ \ {"name"}])

TypeLineCount ==
  \E name \in DOMAIN canvas.obstacles, type \in {"horizontalLine", "verticalLine"}, n \in Counts :
    \E i \in DOMAIN canvas.obstacles[name][type] :
      Typed([canvas EXCEPT !.obstacles[name][type][i].count = n])

TypeEnemyCount ==
  \E w \in DOMAIN canvas.waves, n \in Counts : \E e \in DOMAIN canvas.waves[w].enemies :
    Typed([canvas EXCEPT !.waves[w].enemies[e].count = n])

\* A zone from the larger end to the smaller is not typed: the game hands it
\* to a distribution that is undefined for it.
TypeZone ==
  \E w \in DOMAIN canvas.waves, n \in Ends : \E e \in DOMAIN canvas.waves[w].enemies :
    LET enemy == canvas.waves[w].enemies[e] IN
    \/ n <= enemy.dx.hi /\ Typed([canvas EXCEPT !.waves[w].enemies[e].dx.lo = n])
    \/ n >= enemy.dx.lo /\ Typed([canvas EXCEPT !.waves[w].enemies[e].dx.hi = n])
    \/ n <= enemy.dy.hi /\ Typed([canvas EXCEPT !.waves[w].enemies[e].dy.lo = n])
    \/ n >= enemy.dy.lo /\ Typed([canvas EXCEPT !.waves[w].enemies[e].dy.hi = n])

ChooseKind ==
  \E w \in DOMAIN canvas.waves, kind \in {"uniform", "random"} :
    \E e \in DOMAIN canvas.waves[w].enemies :
      \/ Typed([canvas EXCEPT !.waves[w].enemies[e].dx.kind = kind])
      \/ Typed([canvas EXCEPT !.waves[w].enemies[e].dy.kind = kind])

ChooseEnemy ==
  \E w \in DOMAIN canvas.waves, t \in Available("enemies") :
    \E e \in DOMAIN canvas.waves[w].enemies : Typed([canvas EXCEPT !.waves[w].enemies[e].type = t])

-----------------------------------------------------------------------------
(* The game.                                                                *)

\* The power-ups the game knows, where the file has them.
PlayPowerUps(entries) ==
  LET placed == SelectSeq(entries, LAMBDA e : Has(e, {"name", "at"}) /\ HasPrefab(e.name))
  IN [i \in 1 .. Len(placed) |->
       [name |-> placed[i].name, x |-> placed[i].at[1], y |-> placed[i].at[2]]]

PlayObstacles(entries) ==
  LET named == SelectSeq(entries, LAMBDA e : Has(e, {"name", "positions"}))
  IN Joined([i \in 1 .. Len(named) |->
       LET kept == SelectSeq(named[i].positions, IsPosition)
       IN Joined([j \in 1 .. Len(kept) |->
            Along(named[i].name, kept[j], Hitbox(named[i].name))])])

\* Where the nth of count enemies may be, from and to, count times as large so
\* that the steps are whole: somewhere in the zone, or on its nth step.
PositionsFromDistrib(count, zone) ==
  LET min == Whole(zone.lo) IN LET max == Whole(zone.hi) IN
  [n \in 1 .. count |->
    IF zone.kind = "random" THEN <<min * count, max * count>>
    ELSE <<min * count + (n - 1) * (max - min), min * count + (n - 1) * (max - min)>>]

IsGroup(e) ==
  /\ Has(e, {"type", "dx", "dy", "count"})
  /\ Has(e.dx, {"lo", "hi", "kind"}) /\ Has(e.dy, {"lo", "hi", "kind"})
  /\ e.count > 0 /\ HasPrefab(e.type)

\* The enemies of a group that will be spawned when the game gets there.
Spawned(e, at) ==
  LET xs == PositionsFromDistrib(e.count, e.dx)
      ys == PositionsFromDistrib(e.count, e.dy)
  IN [n \in 1 .. e.count |-> [type |-> e.type, at |-> at, x |-> xs[n], y |-> ys[n], of |-> e.count]]

IsWave(w) == Has(w, {"at", "enemies"})

\* The spawns of each wave, group by group.
PlayWaves(waves) ==
  LET kept == SelectSeq(waves, IsWave)
  IN [i \in 1 .. Len(kept) |->
       [j \in DOMAIN kept[i].enemies |->
         IF IsGroup(kept[i].enemies[j]) THEN Spawned(kept[i].enemies[j], kept[i].at) ELSE <<>>]]

\* Where the game zone stops.
PlayStops(waves) ==
  LET kept == SelectSeq(waves, LAMBDA w : IsWave(w) /\ Or(w.stop, 0) > 0)
  IN [i \in 1 .. Len(kept) |-> kept[i].stop]

ParseMap(f) ==
  [speed |-> f.speed, end |-> f.length,
   bodies |-> PlayPowerUps(f.powerUps) \o PlayObstacles(f.obstacles),
   spawns |-> PlayWaves(f.waves), stops |-> PlayStops(f.waves)]

-----------------------------------------------------------------------------
Init ==
  /\ file \in Files /\ canvas = Enter(file)
  /\ unsaved = FALSE /\ edits = 0 /\ saves = 0

Edit == TypeNumber \/ EmptyField \/ TypeName \/ TypeLineCount \/ TypeEnemyCount \/ TypeZone
          \/ ChooseKind \/ ChooseEnemy

Next == Edit \/ Save \/ Reopen

Spec == Init /\ [][Next]_level

-----------------------------------------------------------------------------
(* Properties.                                                              *)

\* A prefab the editor and the game take for the same: one collider, not
\* stretched, in a file of its name.
Plain(p) == Len(p.boxes) = 1 /\ p.scaleX = p.scaleY /\ p.file = p.name

\* The prefabs a canvas uses are plain.
Faithful(c) ==
  \A p \in Prefabs : p.name \in DOMAIN c.obstacles \union DOMAIN c.powerUps => Plain(p)

\* A spawn is in the zone drawn, or less than a percent left of or above it.
Within(spawn, zone) ==
  /\ spawn.x[1] > (zone.left - 2) * spawn.of /\ spawn.x[2] <= zone.right * spawn.of
  /\ spawn.y[1] > (zone.top - 2) * spawn.of /\ spawn.y[2] <= zone.bottom * spawn.of

\* What is played is what is drawn.
AsDrawn(played, drawn, c) ==
  /\ played.end = Whole(drawn.end)
  /\ Faithful(c) => ToBag(played.bodies) = ToBag(drawn.sprites)
  /\ Len(played.spawns) = Len(drawn.waves)
  /\ \A i \in DOMAIN drawn.waves : \A j \in DOMAIN drawn.waves[i].zones :
       /\ HasPrefab(c.waves[i].enemies[j].type) =>
            Len(played.spawns[i][j]) = c.waves[i].enemies[j].count
       /\ \A n \in DOMAIN played.spawns[i][j] :
            LET s == played.spawns[i][j][n] IN
            /\ s.type = c.waves[i].enemies[j].type /\ s.at = drawn.waves[i].line
            /\ Within(s, drawn.waves[i].zones[j])

\* A level is played as the editor showed it when it was saved: it ends at the
\* frame, every obstacle and power-up is where it was drawn and no other is,
\* and each wave's enemies come at its line, as many as were typed, inside the
\* zone that was drawn, whatever was read from an older file and typed since.
PlayedAsDrawn ==
  [][saves' # saves /\ Or(canvas.length, 0) > 0 =>
       AsDrawn(ParseMap(file'), RenderLevelPreview(canvas), canvas)]_level

\* A level the game reads all of, and whose length and speed are whole.
Complete(f) ==
  /\ Has(f, {"length", "speed"}) /\ Whole(f.length) = f.length /\ Whole(f.speed) = f.speed
  /\ \A i \in DOMAIN f.waves :
       /\ IsWave(f.waves[i]) /\ Or(f.waves[i].stop, 0) = 0
       /\ \A j \in DOMAIN f.waves[i].enemies : IsGroup(f.waves[i].enemies[j])

\* Opening such a level and saving it, with nothing typed, changes nothing
\* that is played: the editor reads all that the game reads and writes all of
\* it back, however the file names its groups and orders its positions.
UneditedSavesChangeNothing ==
  [][saves' # saves /\ ~unsaved /\ Complete(file) =>
       LET new == ParseMap(file')
           old == ParseMap(file)
       IN /\ [new EXCEPT !.bodies = <<>>] = [old EXCEPT !.bodies = <<>>]
          /\ ToBag(new.bodies) = ToBag(old.bodies)]_level

=============================================================================
