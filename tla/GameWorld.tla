----------------------------- MODULE GameWorld -----------------------------
(* One frame of a lobby's game: the systems InGameState::enter installs, run  *)
(* in that order over the entities of the registry. An entity is a record of  *)
(* its components; the intents other systems leave on it are queues, of which *)
(* a system takes the first. A view visits the entities by ascending id.      *)
(*                                                                            *)
(* The world is one row of cells. An entity covers two of them, so two        *)
(* entities touch when their positions are less than two apart; a frame is    *)
(* one unit of time. The scripts of the enemies choose freely among what      *)
(* their API offers here, to move or to shoot.                                  *)
EXTENDS Integers, SequencesExt

CONSTANTS
  Levels,     \* the entities a map and the lobby create, in id order
  Aims,       \* for each player's entity, the velocities its client may send
  Shooters,   \* the players' entities whose client may press the trigger
  Crossfire,  \* GameRules::getCrossfire
  LastMap,    \* MapHandler::isLastMap
  Span,       \* width of the game zone
  Margin,     \* OUT_OF_BOUNDS_MARGIN
  Grace,      \* TRIGGER_DAMAGE_COOLDOWN, in frames
  Reload,     \* 1 / fireRate, in frames
  ShotLife,   \* frames a projectile lives
  MapLength,  \* bound: the game zone scrolls no further than this
  MaxIds      \* bound: the highest entity id

Kinds == {"player", "mob", "bonus", "shot", "fire", "wall", "zone", "spawner", "stop", "end", "gone"}

VARIABLES
  registry,  \* the entities by id, the destroyed ones as Gone
  phase,     \* what EndOfMapDetectionSystem last wrote to GameStateType
  earned,    \* history: the score each player was credited with for kills
  friendly   \* history: the players a hit of another player's shot was counted for or waits

worldVars == <<registry, phase, earned, friendly>>

Players == DOMAIN Aims

----------------------------------------------------------------------------
(* Entities                                                                   *)

\* What createEntityFromPrefab builds of the shipped prefabs, one per kind: a
\* mob is the bat, an enemy with a trigger and a solid collider that rams.
Prefab(kind, x) ==
  [kind |-> kind, x |-> x, v |-> 0,
   hp |-> CASE kind = "player" -> 3 [] kind \in {"mob", "bonus"} -> 1 [] OTHER -> 0,
   by |-> 0, since |-> 0, owner |-> 0, score |-> 0,
   tap |-> 0, wants |-> FALSE, wait |-> 0, life |-> 0,
   contacts |-> <<>>, hurt |-> <<>>, dying |-> <<>>, gains |-> <<>>, waves |-> <<>>]

Request == [kind : Kinds \ {"player", "zone"}, at : Int, trigger : Int]

Entity ==
  [kind : Kinds, x : Int, v : Int, hp : Int, by : Nat, since : Nat, owner : Nat, score : Nat,
   tap : Nat, wants : BOOLEAN, wait : Nat, life : Int, contacts : Seq(Nat), hurt : Seq(Nat),
   dying : Seq(Nat), gains : Seq(Nat), waves : Seq(Request)]

\* An id whose components destroyEntity removed: it has no tag left.
Gone == Prefab("gone", 0)

Projectiles == {"shot", "fire"}
Vulnerable == {"player", "mob"}
ScoreValue == 1

Ids(w, kinds) == {i \in DOMAIN w : w[i].kind \in kinds}

\* A system's loop over a view: the step for each entity, by ascending id.
Sweep(Step(_, _), w, kinds) ==
  LET After[n \in 0..Len(w)] ==
        IF n = 0 THEN w
        ELSE IF w[n].kind \in kinds THEN Step(After[n - 1], n) ELSE After[n - 1]
  IN After[Len(w)]

\* The loop of a system that reads and writes the entity it is at, or reads besides
\* what it never writes: the order does not matter.
Each(Change(_), w, kinds) ==
  SubSeq([i \in DOMAIN w |-> IF w[i].kind \in kinds THEN Change(i) ELSE w[i]], 1, Len(w))

\* The members of a set of ids up to n, upwards or downwards.
Listed(ids, n, upwards) ==
  LET List[k \in 0..n] ==
        IF k = 0 THEN <<>>
        ELSE IF k \notin ids THEN List[k - 1]
        ELSE IF upwards THEN List[k - 1] \o <<k>> ELSE <<k>> \o List[k - 1]
  IN List[n]

\* addComponent appends, getComponent shows the first, removeOneComponent
\* removes it.
Give(w, i, queue, intent) == [w EXCEPT ![i][queue] = Append(@, intent)]
Took(w, i, queue) == [w EXCEPT ![i][queue] = Tail(@)]

Touch(x, y) == x - y \in -1..1

\* In the game zone, which is Span wide.
Inside(p, zone) == zone.x <= p.x /\ p.x + 2 <= zone.x + Span

\* An entity of two cells that moves further in a frame can be beyond a wall of two
\* cells it never touched.
Fastest == 3

\* What a map and the lobby create: entities as their prefabs make them, one game
\* zone, and the players in it.
IsMap(level) ==
  /\ level \in Seq(Entity)
  /\ \A i \in DOMAIN level :
       level[i] = [Prefab(level[i].kind, level[i].x) EXCEPT !.v = level[i].v, !.waves = level[i].waves]
  /\ \E z \in DOMAIN level :
       /\ Ids(level, {"zone"}) = {z} /\ level[z].v \in 0..Fastest
       /\ \A p \in Ids(level, {"player"}) :
            p \in Players /\ level[p].v = 0 /\ Inside(level[p], level[z])

ASSUME WorldConstants ==
  /\ {Span, Margin, Reload, ShotLife, MapLength, MaxIds} \subseteq Nat /\ Grace \in Nat \ {0}
  /\ \A p \in Players : Aims[p] \subseteq -Fastest..Fastest
  /\ \A level \in Levels : IsMap(level)

----------------------------------------------------------------------------
(* Rules: collision_rules.json and the prefabs' interactions                  *)

TriggerRule ==
  {{"shot", "mob"}, {"player", "mob"}, {"shot", "wall"}, {"fire", "player"},
   {"fire", "wall"}, {"shot", "fire"}, {"bonus", "fire"}, {"bonus", "mob"},
   {"bonus", "player"}}

Triggers == {"shot", "fire", "mob", "bonus"}

\* Which contacts the trigger system reports: the rule file's, and with
\* crossfire a player's shot and any player.
Reports(a, b) ==
  \/ {a, b} \in TriggerRule
  \/ Crossfire /\ {a, b} = {"shot", "player"}

\* The interactions of an entity of one kind with one of another: the action
\* on the other and the action on itself.
Mapping(kind, other) ==
  CASE kind = "shot" /\ other = "mob"    -> <<"DealDamage", "TakeDeath">>
    [] kind = "shot" /\ other = "fire"   -> <<"DealDeath", "TakeDeath">>
    [] kind = "fire" /\ other = "player" -> <<"DealDamage", "TakeDeath">>
    [] kind = "fire" /\ other = "shot"   -> <<"DealDeath", "TakeDeath">>
    [] kind \in Projectiles /\ other = "wall" -> <<"None", "TakeDeath">>
    [] kind = "mob" /\ other = "player"  -> <<"DealDamage", "TakeDeath">>
    [] kind = "mob" /\ other = "shot"    -> <<"DealDamage", "TakeDamage">>
    [] kind = "bonus" /\ other = "player" -> <<"AddLife", "TakeDeath">>
    [] OTHER -> <<"None", "None">>

----------------------------------------------------------------------------
(* Input and scripts                                                          *)

\* ServerMovementInputSystem and InputToVelocitySystem: the axes the client
\* sent last become the velocity.
Steer(w, aim) ==
  LET Change(p) == [w[p] EXCEPT !.v = aim[p]]
  IN Each(Change, w, {"player"})

\* ServerShootInputSystem: a pressed trigger leaves a ShootIntent once the
\* system's own cooldown has passed. (cap: the cooldown counts to Reload + 1.)
Trigger(w, held) ==
  LET Change(p) ==
        LET tap == Min({w[p].tap + 1, Reload + 1})
            pull == p \in held /\ tap > Reload
        IN [w[p] EXCEPT !.tap = IF pull THEN 0 ELSE tap, !.wants = @ \/ pull]
  IN Each(Change, w, {"player"})

\* ScriptingSystem and IntentToVelocitySystem: what the enemies' scripts ask.
Script(w, lua) ==
  LET Change(m) == IF lua[m] = "advance" THEN [w[m] EXCEPT !.v = -1]
                   ELSE [w[m] EXCEPT !.wants = TRUE]
  IN Each(Change, w, {"mob"})

----------------------------------------------------------------------------
(* Contacts and what they do                                                  *)

\* TriggerSystem::update: a TriggerIntent on every trigger for each entity it
\* touches, whether or not an earlier one is still waiting. The grid hands out
\* neighbours from an unordered set: upwards or downwards by id.
Contact(w, upwards) ==
  LET near(i) == {j \in DOMAIN w \ {i} : Reports(w[i].kind, w[j].kind) /\ Touch(w[i].x, w[j].x)}
      Change(i) == [w[i] EXCEPT !.contacts = @ \o Listed(near(i), Len(w), upwards)]
  IN Each(Change, w, Triggers)

\* Mutant of Hurt: a hit does not start the cooldown anew.
HurtKeepingCooldown(w, i, source) == Give(w, i, "hurt", source)

\* ActionFactory's actions. Every damage is one point; the difficulty's
\* multipliers and the charge of a shot are left out.
Hurt(w, i, source) ==
  [w EXCEPT ![i].hurt = Append(@, source), ![i].since = 0]

Act(w, action, self, other) ==
  CASE action = "DealDamage" -> Hurt(w, other, self)
    [] action = "TakeDamage" -> Hurt(w, self, other)
    [] action = "DealDeath"  -> Give(w, other, "dying", self)
    [] action = "TakeDeath"  -> Give(w, self, "dying", other)
    [] action = "AddLife"    -> [w EXCEPT ![other].hp = @ + w[self].hp, ![self].hp = 0]
    [] OTHER                 -> w

\* filterDamageActions: no damage to an entity still in its cooldown.
Admitted(w, action, target) ==
  IF action \in {"DealDamage", "TakeDamage"} /\ w[target].kind \in Vulnerable
     /\ w[target].since < Grace
  THEN "None" ELSE action

\* The crossfire rule: the shot of another player hurts at once, past the
\* cooldown.
Cross(w, self, other) ==
  IF Crossfire /\ w[self].kind = "shot" /\ w[other].kind = "player" /\ w[self].owner # other
  THEN Act(Act(w, "DealDamage", self, other), "TakeDeath", self, other)
  ELSE w

\* InteractionSystem::update: every cooldown advances, then each entity's first
\* TriggerIntent is handled. (cap: a cooldown counts to Grace.)
Cooled(w) ==
  LET Change(i) == [w[i] EXCEPT !.since = Min({@ + 1, Grace})]
  IN Each(Change, w, Vulnerable)

Meet(w, i) ==
  IF w[i].contacts = <<>> THEN w
  ELSE LET other == Head(w[i].contacts)
           do == Mapping(w[i].kind, w[other].kind)
           crossed == Cross(w, i, other)
           onOther == Admitted(crossed, do[1], other)
           onSelf == Admitted(crossed, do[2], i)
       IN Took(Act(Act(crossed, onOther, i, other), onSelf, i, other), i, "contacts")

Interact(w) == Sweep(Meet, Cooled(w), Triggers)

----------------------------------------------------------------------------
(* Movement                                                                   *)

\* checkCollision: whether a solid entity may stand at a place. The walls of
\* the game zone hold players only, its left one being the push collider.
Free(w, i, x) ==
  /\ w[i].kind \in Vulnerable => \A j \in Ids(w, {"wall"}) : ~Touch(x, w[j].x)
  /\ w[i].kind = "player" =>
       \A z \in Ids(w, {"zone"}) : ~Touch(x, w[z].x - 2) /\ ~Touch(x, w[z].x + Span)

\* calculateSmoothSlidingPosition in one row: the place it wants or, as a solid
\* entity moves one cell, the place it is at.
Slide(w, i) == IF Free(w, i, w[i].x + w[i].v) THEN w[i].x + w[i].v ELSE w[i].x

\* Mutant of Push: who cannot be moved is spared.
PushOrSpare(w, z) ==
  LET Change(p) ==
        IF Touch(w[z].x - 2, w[p].x) /\ Free(w, p, w[p].x + w[z].v)
        THEN [w[p] EXCEPT !.x = @ + w[z].v] ELSE w[p]
  IN Each(Change, w, {"player"})

\* handlePushCollision: the zone's left wall takes along the players it meets,
\* and who cannot be moved dies.
Push(w, z) ==
  LET Change(p) ==
        IF ~Touch(w[z].x - 2, w[p].x) THEN w[p]
        ELSE IF Free(w, p, w[p].x + w[z].v) THEN [w[p] EXCEPT !.x = @ + w[z].v]
        ELSE [w[p] EXCEPT !.dying = Append(@, 0)]
  IN Each(Change, w, {"player"})

Advance(w, i) ==
  LET moved == [w EXCEPT ![i].x = Slide(w, i)]
  IN IF w[i].kind = "zone" THEN Push(moved, i) ELSE moved

Move(w) == Sweep(Advance, w, {"zone"} \cup Vulnerable \cup Projectiles)

----------------------------------------------------------------------------
(* Shots, health and death                                                    *)

\* ShootingSystem::update: an intent is kept until the weapon has cooled down.
\* A shot carries its shooter as owner and starts at the shooter's centre.
Shoots(w, i) == w[i].kind \in Vulnerable /\ w[i].wants /\ w[i].wait = 0

Shot(w, i) ==
  LET ahead == IF w[i].kind = "player" THEN 1 ELSE -1
  IN [Prefab(IF ahead = 1 THEN "shot" ELSE "fire", w[i].x + ahead)
        EXCEPT !.v = 2 * ahead, !.owner = i, !.life = ShotLife]

\* Who shoots starts its cooldown; every cooldown then advances.
Shoot(w) ==
  LET shooters == Listed({i \in DOMAIN w : Shoots(w, i)}, Len(w), TRUE)
      Change(i) == IF Shoots(w, i) THEN [w[i] EXCEPT !.wants = FALSE, !.wait = Max({Reload - 1, 0})]
                   ELSE [w[i] EXCEPT !.wait = Max({@ - 1, 0})]
  IN Each(Change, w, Vulnerable) \o [n \in DOMAIN shooters |-> Shot(w, shooters[n])]

Age(w) ==
  LET Change(i) ==
        [w[i] EXCEPT !.life = @ - 1, !.dying = IF w[i].life <= 1 THEN Append(@, 0) ELSE @]
  IN Each(Change, w, Projectiles)

\* HealthSystem: one DamageIntent of each entity is applied, then whoever has
\* no health left is to die of what hurt it last.
Wounded(w) ==
  LET Change(i) ==
        IF w[i].hurt = <<>> THEN w[i]
        ELSE [w[i] EXCEPT !.hp = @ - 1, !.by = Head(w[i].hurt), !.hurt = Tail(@)]
  IN Each(Change, w, Vulnerable)

Doomed(w) ==
  LET Change(i) == IF w[i].hp <= 0 THEN [w[i] EXCEPT !.dying = Append(@, w[i].by)] ELSE w[i]
  IN Each(Change, w, Vulnerable \cup {"bonus"})

Wound(w) == Doomed(Wounded(w))

ZoneAt(w) == Min({w[z].x : z \in Ids(w, {"zone"})})

\* OutOfBoundsSystem: obstacles may still be ahead of the zone.
Strayed(w, i) ==
  \/ w[i].x < ZoneAt(w) - Margin
  \/ w[i].kind # "wall" /\ w[i].x > ZoneAt(w) + Span + Margin

Bound(w) ==
  LET Change(i) == IF w[i].dying = <<>> /\ Strayed(w, i) THEN [w[i] EXCEPT !.dying = <<0>>] ELSE w[i]
  IN Each(Change, w, Projectiles \cup {"mob", "wall"})

\* GameZoneStopSystem: the first player to touch a stop halts the game zone.
Halt(w) ==
  LET first == Min(Ids(w, {"player"}))
      met == {s \in Ids(w, {"stop"}) : Touch(w[first].x, w[s].x)}
      Change(z) == [w[z] EXCEPT !.v = 0]
  IN IF Ids(w, {"player"}) = {} \/ met = {} THEN w
     ELSE [Each(Change, w, {"zone"}) EXCEPT ![Min(met)] = Gone]

\* Who is credited when i dies: the owner of what killed it, if what killed it
\* is still there and its owner too.
Credited(w, i) ==
  LET source == Head(w[i].dying)
  IN IF w[i].kind # "mob" \/ source = 0 THEN {}
     ELSE {w[source].owner} \cap Ids(w, {"player"})

\* DeathSystem::update: who has a DeathIntent gives its score and is destroyed.
Die(w, i) ==
  LET owners == Credited(w, i)
      rewarded == IF owners = {} THEN w ELSE Give(w, Min(owners), "gains", ScoreValue)
  IN IF w[i].dying = <<>> THEN w ELSE [rewarded EXCEPT ![i] = Gone]

Bury(w) == Sweep(Die, w, Vulnerable \cup Projectiles \cup {"wall", "bonus"})

\* Mutant of Tally: removeComponent, all intents of the player, for
\* removeOneComponent.
TallyRemovingAll(w) ==
  LET Change(p) ==
        IF w[p].gains = <<>> THEN w[p]
        ELSE [w[p] EXCEPT !.score = @ + Head(w[p].gains), !.gains = <<>>]
  IN Each(Change, w, {"player"})

\* ScoreSystem::update: one ScoreIntent of each player is added.
Tally(w) ==
  LET Change(p) ==
        IF w[p].gains = <<>> THEN w[p]
        ELSE [w[p] EXCEPT !.score = @ + Head(w[p].gains), !.gains = Tail(@)]
  IN Each(Change, w, {"player"})

----------------------------------------------------------------------------
(* Waves and the end of the map                                               *)

\* isPositionFree: no solid collider of another entity in the way.
Room(w, x) ==
  /\ \A j \in Ids(w, Vulnerable \cup {"wall"}) : ~Touch(x, w[j].x)
  /\ \A z \in Ids(w, {"zone"}) : ~Touch(x, w[z].x + Span)

\* findNearestFreePosition tries the rows above and below from left to right;
\* here the first free place of the row, or one outside of every bound.
Place(w, x) ==
  LET near == {y \in (x - 2)..(x + 2) : Room(w, y)}
  IN IF Room(w, x) THEN x
     ELSE IF near # {} THEN Min(near)
     ELSE ZoneAt(w) - Margin - 1

\* SpawnSystem::update: the requests the zone has reached, read from a copy of
\* the list; after each the list loses its first element.
Serve(w, s) ==
  LET After[n \in 0..Len(w[s].waves)] ==
        IF n = 0 THEN w
        ELSE LET u == After[n - 1]
                 request == w[s].waves[n]
             IN IF request.trigger > ZoneAt(u) THEN u
                ELSE Took(Append(u, Prefab(request.kind, Place(u, ZoneAt(u) + request.at))), s, "waves")
  IN After[Len(w[s].waves)]

Spawn(w) == Sweep(Serve, w, {"spawner"})

\* EndOfMapDetectionSystem: nobody left, or somebody at the end.
Outcome(w) ==
  CASE Ids(w, {"player"}) = {} -> "game_end"
    [] \E p \in Ids(w, {"player"}), e \in Ids(w, {"end"}) : w[e].x >= 0 /\ Touch(w[p].x, w[e].x)
         -> IF LastMap THEN "game_end" ELSE "level_complete"
    [] OTHER -> "in_game"

----------------------------------------------------------------------------
WorldInit ==
  /\ registry \in Levels
  /\ phase = "in_game"
  /\ earned = [p \in Players |-> 0]
  /\ friendly = {}

\* InGameState::update: the systems in the order they were added, up to the contacts ...
Contacts(aim, held, lua, upwards) ==
  Interact(Contact(Steer(Script(Trigger(registry, held), lua), aim), upwards))

\* ... and from the movement to the stop.
Systems(acted) == Halt(Bound(Wound(Age(Shoot(Move(acted))))))

\* A shot is among what has hurt p: no rule but the one of crossfire lets it.
ShotAt(w, p) == \E k \in DOMAIN w[p].hurt : w[p].hurt[k] \in Ids(w, {"shot"})

\* One update with what clients and scripts ask for, within the bounds.
Update(aim, held, lua, upwards) ==
  LET acted == Contacts(aim, held, lua, upwards)
      buried == Bury(Systems(acted))
      after == Spawn(Tally(buried))
  IN /\ Len(after) <= MaxIds
     /\ ZoneAt(after) <= MapLength
     /\ registry' = after
     /\ phase' = Outcome(after)
     /\ earned' = [p \in Players |-> earned[p] + Len(buried[p].gains) - Len(registry[p].gains)]
     /\ friendly' = {p \in Ids(acted, {"player"}) :
                       ShotAt(acted, p) \/ (p \in friendly /\ registry[p].hurt # <<>>)}

Frame ==
  /\ phase = "in_game"
  /\ \E held \in SUBSET Ids(registry, {"player"}),
        aim \in [Ids(registry, {"player"}) -> UNION {Aims[p] : p \in Players}],
        lua \in [Ids(registry, {"mob"}) -> {"advance", "shoot"}],
        upwards \in BOOLEAN :
       /\ held \subseteq Shooters
       /\ \A p \in DOMAIN aim : aim[p] \in Aims[p]
       /\ Update(aim, held, lua, upwards)

WorldSpec == WorldInit /\ [][Frame]_worldVars

----------------------------------------------------------------------------
(* Properties                                                                 *)

\* A player loses a point of health at most in a frame, and none during its cooldown,
\* whoever of the enemies touches it, in whichever order, and however many hits wait:
\* each loss starts the cooldown anew. Only the shots of other players are past it, in the
\* frame they hit and as long as hits wait for their frame (InteractionSystem::update,
\* filterDamageActions, DEALDAMAGE_ACTION, HealthSystem).
GraceHolds ==
  [][\A p \in Ids(registry, {"player"}) \cap Ids(registry', {"player"}) :
       /\ registry'[p].hp >= registry[p].hp - 1
       /\ registry'[p].hp < registry[p].hp =>
            \/ p \in friendly'
            \/ registry[p].since + 1 >= Grace /\ registry'[p].since = 0]_worldVars

\* No living player is left behind the game zone: its left wall takes everyone
\* along or kills (handlePushCollision), on whichever side of the zone's id the
\* player's is.
NobodyLeftBehind ==
  \A p \in Ids(registry, {"player"}), z \in Ids(registry, {"zone"}) :
    Inside(registry[p], registry[z])

\* What a living player was credited with is its score or waits on it: two
\* kills of one frame both count (DeathSystem, ScoreSystem).
CreditsReachTheScore ==
  \A p \in Ids(registry, {"player"}) :
    earned[p] = registry[p].score + FoldLeft(+, 0, registry[p].gains)
=============================================================================
