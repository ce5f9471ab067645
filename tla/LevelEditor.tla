---------------------------- MODULE LevelEditor ----------------------------
(***************************************************************************)
(* The level editor of the client (gsm::LevelEditorState): obstacles,      *)
(* power-ups and waves of enemies on a canvas, a selection of each kind, a *)
(* clipboard, an undo history filled at once or after a pause, and a file. *)
(*                                                                         *)
(* One thread; the difficulty is what one click does to the rest.  Every   *)
(* setText and setSelectedIndex calls the callback of its widget, and that *)
(* callback edits the selected object: filling the fields of an object in  *)
(* is an edit of it, which rounds its coordinates.                         *)
(***************************************************************************)
EXTENDS EditHistory, SequencesExt, FiniteSets

CONSTANTS
  ObstacleShelves,  \* a prefab and a type: the lists of _obstaclesByName
  PowerUpShelves,   \* a prefab: the lists of _powerUpsByName
  RecordedShelves,  \* the obstacle lists of the type "vertical"
  Places,           \* a position, with the count of a line or the data of an enemy
  Rounded,          \* what a place is after a trip through a text field
  Basic,            \* the enemy that "Add Enemy" adds
  Settings,         \* name, length, scroll speed, music, background
  Lengthless,       \* the settings whose map has no length: the canvas is dead
  Saved,            \* the levels a file can hold when the editor opens
  MaxObjects,       \* bound: obstacles, power-ups, waves and enemies together
  MaxEdits,         \* bound: changes of the level
  None

Kinds   == {"Obstacles", "PowerUps", "Waves"}
Filters == <<"All", "Obstacles", "PowerUps", "Waves">>
Shelves == ObstacleShelves \cup PowerUpShelves
AllLevels == [settings : Settings, placed : [Shelves -> Seq(Places)],
            waves : Seq([at : Places, enemies : Seq(Places)])]

ASSUME EditorConstants ==
  /\ ObstacleShelves \cap PowerUpShelves = {}
  /\ RecordedShelves \subseteq ObstacleShelves
  /\ Basic \in Places
  /\ Rounded \in [Places -> Places]
  /\ \A p \in Places : Rounded[Rounded[p]] = Rounded[p]
  /\ Lengthless \subseteq Settings
  /\ \A l \in Saved : l \in AllLevels
  /\ MaxObjects \in Nat /\ MaxEdits \in Nat

VARIABLES
  level,        \* _levelData, _obstaclesByName, _powerUpsByName, _waves
  file,         \* what is on disk
  selected,     \* _selectedObstacle, _selectedPowerUp, _selectedWave
  clipboard,    \* _clipboardObstacle, _clipboardPowerUp, _clipboardWave
  mode,         \* the option of _editorModeDropdown
  filter,       \* _displayFilter
  currentWave,  \* _currentWaveIndex + 1
  currentEnemy, \* _currentEnemyIndex + 1
  dragging,     \* _isDraggingObstacle, _isDraggingPowerUp, _isDraggingWave
  pending,      \* _hasPendingChange
  unsaved,      \* _hasUnsavedChanges
  untracked,    \* history: changed since the last entry by an edit that is never recorded
  edits         \* bounded by MaxEdits

vars == <<history, current, level, file, selected, clipboard, mode, filter,
          currentWave, currentEnemy, dragging, pending, unsaved, untracked, edits>>

shelfOf(kind) == IF kind = "Obstacles" THEN ObstacleShelves ELSE PowerUpShelves

\* What can be selected or clicked: a shelf and an index, or a wave and the index
\* of one of its enemies, 0 for the wave itself.
Objects(kind) ==
  IF kind = "Waves"
  THEN UNION {{w} \X (0..Len(level.waves[w].enemies)) : w \in DOMAIN level.waves}
  ELSE UNION {{s} \X DOMAIN level.placed[s] : s \in shelfOf(kind)}

NothingSelected == [k \in Kinds |-> None]

Size(l) ==
  FoldFunction(LAMBDA s, n : Len(s) + n, 0, l.placed)
  + FoldSeq(LAMBDA w, n : 1 + Len(w.enemies) + n, 0, l.waves)

HasLength == level.settings \notin Lengthless

Init ==
  /\ file \in Saved
  /\ level = file
  /\ StartHistory(file)
  /\ selected = NothingSelected /\ clipboard = None
  /\ mode = "Obstacles" /\ filter = "All"
  /\ currentWave = 1 /\ currentEnemy = 1
  /\ dragging = {}
  /\ pending = FALSE /\ unsaved = FALSE /\ untracked = FALSE
  /\ edits = 0

-----------------------------------------------------------------------------
(* How a handler leaves the level.                                         *)

Edit(changed) ==
  /\ edits < MaxEdits /\ edits' = edits + 1
  /\ Size(changed) <= MaxObjects
  /\ level' = changed
  /\ unsaved' = TRUE
  /\ UNCHANGED <<file, filter>>

\* saveToHistory at once.
EditAndRecord(changed) ==
  /\ Edit(changed)
  /\ SaveToHistory(changed)
  /\ untracked' = FALSE

\* Mutant of EditAndWait: the pause is never started.
EditForgotten(changed) ==
  /\ Edit(changed)
  /\ UNCHANGED <<history, current, pending, untracked>>

\* _hasPendingChange: saveToHistory after a pause.
EditAndWait(changed) ==
  /\ Edit(changed)
  /\ pending' = TRUE
  /\ UNCHANGED <<history, current, untracked>>

\* Neither.
EditUntracked(changed) ==
  /\ Edit(changed)
  /\ untracked' = TRUE
  /\ UNCHANGED <<history, current, pending>>

LevelKept == UNCHANGED <<history, current, level, file, pending, unsaved, untracked, edits>>

Put(kind, object, place) ==
  IF kind = "Waves"
  THEN [level EXCEPT !.waves[object[1]].at = place]
  ELSE [level EXCEPT !.placed[object[1]][object[2]] = place]

Added(shelf, place) == [level EXCEPT !.placed[shelf] = Append(@, place)]
Last_(shelf) == <<shelf, Len(level.placed[shelf]) + 1>>
NewWave == <<Len(level.waves) + 1, 0>>

-----------------------------------------------------------------------------
(* The canvas.                                                             *)

\* A click on an object selects it, drops the other selections and switches the mode.
Select(kind, object) ==
  /\ selected' = [NothingSelected EXCEPT ![kind] = object]
  /\ mode' = kind
  /\ currentWave' = IF kind = "Waves" THEN object[1] ELSE currentWave
  /\ UNCHANGED <<clipboard, filter, currentEnemy>>
  /\ LevelKept

\* A click beside them makes one, whose fields are then filled in.
CreateObject(kind) ==
  /\ \E s \in shelfOf(kind), p \in Places :
       /\ EditAndRecord(Added(s, Rounded[p]))
       /\ selected' = [selected EXCEPT ![kind] = Last_(s)]
  /\ pending' = TRUE
  /\ UNCHANGED <<clipboard, mode, currentWave, currentEnemy>>

CreateWave ==
  /\ \E p \in Places :
       EditAndRecord([level EXCEPT !.waves = Append(@, [at |-> Rounded[p], enemies |-> << >>])])
  /\ selected' = [selected EXCEPT !["Waves"] = NewWave]
  /\ currentWave' = NewWave[1]
  /\ pending' = TRUE
  /\ UNCHANGED <<clipboard, mode, currentEnemy>>

Deselect(kind) ==
  /\ selected' = [selected EXCEPT ![kind] = None]
  /\ UNCHANGED <<clipboard, mode, filter, currentWave, currentEnemy>>
  /\ LevelKept

Shown(kind) == filter \in {"All", kind}

\* handleObstacleClick, handlePowerUpClick, handleWaveClick
HandleClick(kind, hit) ==
  LET creates == mode = kind /\ selected[kind] = None /\ Shown(kind)
  IN  \/ hit # None /\ Select(kind, hit)
      \/ hit = None /\ creates /\ IF kind = "Waves" THEN CreateWave ELSE CreateObject(kind)
      \/ hit = None /\ ~creates /\ Deselect(kind)

\* What the mouse is on, of each kind: overlapping objects are hit together.
Hits == {[k \in Kinds |-> IF k = "Obstacles" THEN o ELSE IF k = "PowerUps" THEN p ELSE w] :
          o \in Objects("Obstacles") \cup {None}, p \in Objects("PowerUps") \cup {None},
          w \in Objects("Waves") \cup {None}}

\* k is the first of a list that passes the test.
First(list, Test(_), k) ==
  \E i \in DOMAIN list :
    k = list[i] /\ Test(k) /\ \A j \in 1..(i - 1) : ~ Test(list[j])

Preference ==
  CASE mode = "Obstacles" -> <<"Obstacles", "PowerUps", "Waves">>
    [] mode = "PowerUps"  -> <<"PowerUps", "Obstacles", "Waves">>
    [] mode = "Waves"     -> <<"Waves", "Obstacles", "PowerUps">>

\* The first kind that is hit and shown takes the click; if none is, the mode's own
\* handler does, which looks for an object again and then finds hidden ones too.
ClickCanvas ==
  /\ HasLength
  /\ dragging \cap {"Obstacles", "PowerUps"} = {}
  /\ dragging' = {}
  /\ \E hits \in Hits, kind \in Kinds :
       LET eligible(k) == hits[k] # None /\ Shown(k)
       IN  /\ \/ First(Preference, eligible, kind)
              \/ kind = mode /\ \A k \in Kinds : ~ eligible(k)
           /\ HandleClick(kind, hits[kind])

SameObject(kind, a, b) ==
  a # None /\ b # None /\ IF kind = "Waves" THEN a[1] = b[1] ELSE a = b

\* handleObstacleDrag, handlePowerUpDrag, handleWaveDrag: the fields show the new place.
DragTo(p) ==
  LET to(kind, old, object) ==
        IF kind \in dragging /\ selected[kind] = object THEN Rounded[p] ELSE old
  IN  [level EXCEPT
        !.placed = [s \in Shelves |-> [i \in DOMAIN level.placed[s] |->
          to(IF s \in ObstacleShelves THEN "Obstacles" ELSE "PowerUps",
             level.placed[s][i], <<s, i>>)]],
        !.waves = [w \in DOMAIN level.waves |-> [level.waves[w] EXCEPT
          !.at = IF selected["Waves"] # None /\ selected["Waves"][1] = w
                 THEN to("Waves", level.waves[w].at, selected["Waves"])
                 ELSE level.waves[w].at]]]

\* A frame with the button down: what is dragged moves, and a selected object under
\* the mouse begins to be dragged.
DragCanvas ==
  /\ HasLength
  /\ \E hits \in Hits :
       dragging' = dragging \cup {k \in Kinds : SameObject(k, hits[k], selected[k])}
  /\ IF \A k \in dragging : selected[k] = None
     THEN LevelKept /\ UNCHANGED filter
     ELSE \E p \in Places : EditAndWait(DragTo(p))
  /\ UNCHANGED <<selected, clipboard, mode, currentWave, currentEnemy>>

StopDrag ==
  /\ dragging # {}
  /\ dragging' = {}
  /\ UNCHANGED <<selected, clipboard, mode, filter, currentWave, currentEnemy>>
  /\ LevelKept

-----------------------------------------------------------------------------
(* The panel of the selected obstacle or power-up.                         *)

\* Typing a coordinate or a count, of a wave's trigger too: no rounding.
TypePlace ==
  /\ \E k \in Kinds, p \in Places :
       /\ selected[k] # None
       /\ EditAndWait(Put(k, selected[k], p))
  /\ UNCHANGED <<selected, clipboard, mode, currentWave, currentEnemy, dragging>>

\* The obstacle moves to the list of another type, at its end.
ChangeType ==
  /\ selected["Obstacles"] # None
  /\ LET shelf == selected["Obstacles"][1]
         i     == selected["Obstacles"][2]
         place == level.placed[shelf][i]
     IN  \E to \in ObstacleShelves \ {shelf} :
           /\ EditAndWait([level EXCEPT !.placed[shelf] = RemoveAt(@, i),
                                        !.placed[to] = Append(@, Rounded[place])])
           /\ selected' = [selected EXCEPT !["Obstacles"] = Last_(to)]
  /\ UNCHANGED <<clipboard, mode, currentWave, currentEnemy, dragging>>

\* Mutant of DeleteObject: what was deleted stays selected.
DeleteSelected ==
  /\ \E k \in {"Obstacles", "PowerUps"} :
       /\ selected[k] # None
       /\ EditAndRecord([level EXCEPT !.placed[selected[k][1]] = RemoveAt(@, selected[k][2])])
  /\ UNCHANGED <<selected, clipboard, mode, currentWave, currentEnemy, dragging, pending>>

DeleteObject ==
  /\ \E k \in {"Obstacles", "PowerUps"} :
       /\ selected[k] # None
       /\ EditAndRecord([level EXCEPT !.placed[selected[k][1]] = RemoveAt(@, selected[k][2])])
       /\ selected' = [selected EXCEPT ![k] = None]
  /\ UNCHANGED <<clipboard, mode, currentWave, currentEnemy, dragging, pending>>

\* The copy is recorded at once for power-ups and vertical lines, and in any case
\* after a pause, for the fields of the copy are filled in.
DuplicateObject ==
  /\ \E k \in {"Obstacles", "PowerUps"}, p \in Places :
       /\ selected[k] # None
       /\ LET shelf == selected[k][1]
              copied == Added(shelf, Rounded[p])
          IN  /\ IF k = "PowerUps" \/ shelf \in RecordedShelves
                 THEN EditAndRecord(copied) /\ pending' = TRUE
                 ELSE EditAndWait(copied)
              /\ selected' = [selected EXCEPT ![k] = Last_(shelf)]
  /\ UNCHANGED <<clipboard, mode, currentWave, currentEnemy, dragging>>

-----------------------------------------------------------------------------
(* The panel of the selected wave and its enemies.                         *)

\* The previous or next wave, from the index last used, whatever is selected.
StepWave ==
  /\ level.waves # << >>
  /\ \E by \in {1, Len(level.waves) - 1} :
       LET w == ((currentWave - 1 + by) % Len(level.waves)) + 1
       IN  /\ currentWave' = w
           /\ selected' = [selected EXCEPT !["Waves"] = <<w, 0>>]
           /\ EditAndWait(Put("Waves", <<w, 0>>, Rounded[level.waves[w].at]))
  /\ UNCHANGED <<clipboard, mode, currentEnemy, dragging>>

wave  == selected["Waves"][1]
enemy == selected["Waves"][2]

DeleteWave ==
  /\ selected["Waves"] # None
  /\ EditAndRecord([level EXCEPT !.waves = RemoveAt(@, wave)])
  /\ selected' = [selected EXCEPT !["Waves"] = None]
  /\ UNCHANGED <<clipboard, mode, currentWave, currentEnemy, dragging, pending>>

DuplicateWave ==
  /\ selected["Waves"] # None
  /\ \E p \in Places :
       EditAndRecord([level EXCEPT !.waves = Append(@, [@[wave] EXCEPT !.at = Rounded[p]])])
  /\ selected' = [selected EXCEPT !["Waves"] = NewWave]
  /\ currentWave' = NewWave[1]
  /\ pending' = TRUE
  /\ UNCHANGED <<clipboard, mode, currentEnemy, dragging>>

\* updateEnemyUI fills the fields of the enemy in, which rounds it.
ShowEnemy(enemies, e) ==
  /\ currentEnemy' = e
  /\ selected' = [selected EXCEPT !["Waves"] = <<wave, e>>]
  /\ EditAndWait([level EXCEPT !.waves[wave].enemies =
                     [enemies EXCEPT ![e] = Rounded[enemies[e]]]])

StepEnemy ==
  /\ selected["Waves"] # None
  /\ LET enemies == level.waves[wave].enemies
         n       == Len(enemies)
     IN  /\ n > 0
         /\ \/ ShowEnemy(enemies, IF enemy = n THEN 1 ELSE enemy + 1)
            \/ ShowEnemy(enemies, IF enemy \in {0, 1} THEN n ELSE enemy - 1)
  /\ UNCHANGED <<clipboard, mode, currentWave, dragging>>

AddEnemy ==
  /\ selected["Waves"] # None
  /\ LET enemies == Append(level.waves[wave].enemies, Basic)
     IN  ShowEnemy(enemies, Len(enemies))
  /\ UNCHANGED <<clipboard, mode, currentWave, dragging>>

\* The enemy shown next is the one last stepped to or added, which a click on another
\* enemy does not change.  With the last enemy gone nothing is filled in, and the
\* change waits for no recording.
DeleteEnemy ==
  /\ selected["Waves"] # None /\ enemy > 0
  /\ LET left == RemoveAt(level.waves[wave].enemies, enemy)
     IN  IF left = << >>
         THEN /\ EditUntracked([level EXCEPT !.waves[wave].enemies = left])
              /\ currentEnemy' = 1
              /\ selected' = [selected EXCEPT !["Waves"] = <<wave, 0>>]
         ELSE ShowEnemy(left, IF currentEnemy > Len(left) THEN Len(left) ELSE currentEnemy)
  /\ UNCHANGED <<clipboard, mode, currentWave, dragging>>

\* Typing into a field of the enemy.
TypeEnemy ==
  /\ selected["Waves"] # None /\ enemy > 0
  /\ \E p \in Places : EditAndWait([level EXCEPT !.waves[wave].enemies[enemy] = p])
  /\ UNCHANGED <<selected, clipboard, mode, currentWave, currentEnemy, dragging>>

\* The "Apply" button of the enemy's type.
ApplyEnemyType ==
  /\ selected["Waves"] # None /\ enemy > 0
  /\ \E p \in Places : EditUntracked([level EXCEPT !.waves[wave].enemies[enemy] = p])
  /\ UNCHANGED <<selected, clipboard, mode, currentWave, currentEnemy, dragging>>

-----------------------------------------------------------------------------
(* The side panel, the keyboard and the clock.                             *)

TypeSettings ==
  /\ \E s \in Settings : EditAndWait([level EXCEPT !.settings = s])
  /\ UNCHANGED <<selected, clipboard, mode, currentWave, currentEnemy, dragging>>

ChooseMusic ==
  /\ \E s \in Settings : EditAndRecord([level EXCEPT !.settings = s])
  /\ UNCHANGED <<selected, clipboard, mode, currentWave, currentEnemy, dragging, pending>>

\* Leaving a kind drops its selection, except that of a power-up on the way to the waves.
ChangeMode ==
  /\ \E m \in Kinds \ {mode} :
       /\ mode' = m
       /\ selected' = [k \in Kinds |->
            IF \/ k = "Obstacles" /\ m # "Obstacles"
               \/ k = "PowerUps" /\ m = "Obstacles"
               \/ k = "Waves" /\ m # "Waves"
            THEN None ELSE selected[k]]
  /\ UNCHANGED <<clipboard, filter, currentWave, currentEnemy, dragging>>
  /\ LevelKept

CycleFilter ==
  /\ \E i \in DOMAIN Filters : filter = Filters[i] /\ filter' = Filters[(i % 4) + 1]
  /\ UNCHANGED <<selected, clipboard, mode, currentWave, currentEnemy, dragging>>
  /\ LevelKept

Copy ==
  /\ \E kind \in Kinds :
       LET chosen(k) == selected[k] # None
       IN  /\ First(<<"Obstacles", "PowerUps", "Waves">>, chosen, kind)
           /\ clipboard' = <<kind, selected[kind]>>
  /\ UNCHANGED <<selected, mode, filter, currentWave, currentEnemy, dragging>>
  /\ LevelKept

\* The clipboard holds an index, not an object: what is there now is copied, if
\* there is anything.
PasteObject(kind, shelf, p) ==
  /\ level' = Added(shelf, Rounded[p])
  /\ selected' = [NothingSelected EXCEPT ![kind] = Last_(shelf)]
  /\ UNCHANGED currentWave

PasteWave(from, p) ==
  /\ level' = [level EXCEPT !.waves = Append(@, [@[from] EXCEPT !.at = Rounded[p]])]
  /\ selected' = [NothingSelected EXCEPT !["Waves"] = NewWave]
  /\ currentWave' = NewWave[1]

There(kind, from) ==
  IF kind = "Waves" THEN from[1] <= Len(level.waves) ELSE from[2] <= Len(level.placed[from[1]])

Paste ==
  /\ clipboard # None
  /\ filter' = IF Shown(clipboard[1]) THEN filter ELSE "All"
  /\ IF There(clipboard[1], clipboard[2])
     THEN /\ edits < MaxEdits /\ edits' = edits + 1
          /\ \E p \in Places :
               IF clipboard[1] = "Waves"
               THEN PasteWave(clipboard[2][1], p)
               ELSE PasteObject(clipboard[1], clipboard[2][1], p)
          /\ Size(level') <= MaxObjects
          /\ SaveToHistory(level')
          /\ unsaved' = TRUE /\ pending' = TRUE /\ untracked' = FALSE
          /\ UNCHANGED file
     ELSE LevelKept /\ UNCHANGED <<selected, currentWave>>
  /\ UNCHANGED <<clipboard, mode, currentEnemy, dragging>>

\* Undo and redo: a change still waiting is dropped with what waits.
LoadLevel(i) ==
  /\ LoadFromHistory(i)
  /\ level' = history[i]
  /\ unsaved' = TRUE /\ pending' = FALSE /\ untracked' = FALSE
  /\ selected' = NothingSelected
  /\ UNCHANGED <<file, clipboard, mode, filter, currentWave, currentEnemy, dragging, edits>>

UndoEdit == current > 1 /\ LoadLevel(current - 1)
RedoEdit == current < Len(history) /\ LoadLevel(current + 1)

\* The file may not open: then nothing is cleared.
Save ==
  /\ \/ file' = level /\ unsaved' = FALSE
     \/ UNCHANGED <<file, unsaved>>
  /\ UNCHANGED <<history, current, level, selected, clipboard, mode, filter,
                 currentWave, currentEnemy, dragging, pending, untracked, edits>>

\* The end of update: the pause after the last change is over.
Debounce ==
  /\ pending /\ pending' = FALSE
  /\ SaveToHistory(level)
  /\ untracked' = FALSE
  /\ UNCHANGED <<level, file, selected, clipboard, mode, filter, currentWave,
                 currentEnemy, dragging, unsaved, edits>>

Next ==
  \/ ClickCanvas \/ DragCanvas \/ StopDrag
  \/ TypePlace \/ ChangeType \/ DeleteObject \/ DuplicateObject
  \/ StepWave \/ DeleteWave \/ DuplicateWave
  \/ StepEnemy \/ AddEnemy \/ DeleteEnemy \/ TypeEnemy \/ ApplyEnemyType
  \/ TypeSettings \/ ChooseMusic \/ ChangeMode \/ CycleFilter
  \/ Copy \/ Paste \/ UndoEdit \/ RedoEdit \/ Save \/ Debounce

Spec == Init /\ [][Next]_vars

-----------------------------------------------------------------------------
(* Properties.                                                             *)

\* What is selected exists, of every kind, after every deletion, change of type,
\* undo and paste: the handlers index the vectors with it and do not check.
SelectionExists ==
  \A k \in Kinds : selected[k] # None => selected[k] \in Objects(k)

\* With nothing waiting, the level on the canvas is the entry of the history the
\* index is at, so that undo and redo lead away from it and back, unless the type of
\* an enemy was applied or the last enemy of a wave deleted since.
SettledIsRecorded == ~pending /\ ~untracked => level = history[current]
=============================================================================
