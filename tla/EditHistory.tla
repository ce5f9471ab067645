---------------------------- MODULE EditHistory ----------------------------
(***************************************************************************)
(* The undo history of the level editor: a vector of whole levels and an   *)
(* index into it (LevelEditorState::_history, _currentHistoryIndex).  The  *)
(* index counts from 1 here and from 0 in the code.                        *)
(***************************************************************************)
EXTENDS Naturals, Sequences

CONSTANTS
  Levels,       \* what a level can be
  MaxHistory    \* constants::MAX_HISTORY_SIZE: 50 in the code

ASSUME HistoryConstants == MaxHistory \in Nat \ {0}

VARIABLES
  history,      \* _history
  current       \* _currentHistoryIndex + 1

StartHistory(level) == history = <<level>> /\ current = 1

\* A mutant of SaveToHistory: what was undone stays behind the new entry.
SaveKeepingUndone(level) ==
  LET longer == Append(SubSeq(history, 1, current), level)
  IN  /\ history' = longer \o SubSeq(history, current + 2, Len(history))
      /\ current' = Len(longer)

\* saveToHistory: what was undone is cut off, the level appended, and the
\* oldest entry dropped when there are too many.
SaveToHistory(level) ==
  LET longer == Append(SubSeq(history, 1, current), level)
  IN  IF Len(longer) > MaxHistory
      THEN history' = Tail(longer) /\ current' = Len(longer) - 1
      ELSE history' = longer /\ current' = Len(longer)

\* loadFromHistory, as far as the history goes: the index moves.
LoadFromHistory(i) ==
  /\ i \in DOMAIN history
  /\ current' = i
  /\ history' = history

\* The history of the editor is an undo history: the entries before the index are
\* the past, those after it the future.
Undo == INSTANCE UndoHistory WITH
          States  <- Levels,
          MaxPast <- MaxHistory - 1,
          past    <- SubSeq(history, 1, current - 1),
          present <- history[current],
          future  <- SubSeq(history, current + 1, Len(history))

\* The vector and its index are an undo history over levels.
IsUndoHistory == Undo!HistorySpec

\* The history on its own: whatever is recorded, and undo and redo as often as
\* there is an entry to go to.
EditInit == \E level \in Levels : StartHistory(level)

EditNext ==
  \/ \E level \in Levels : SaveToHistory(level)
  \/ \E i \in {current - 1, current + 1} : LoadFromHistory(i)

EditSpec == EditInit /\ [][EditNext]_<<history, current>>
=============================================================================
