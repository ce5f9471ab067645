----------------------------- MODULE ClientFiles -----------------------------
(***************************************************************************)
(* The three screens of the client that keep files of their own, the        *)
(* settings, the list of the levels and the level editor, with what the     *)
(* server plays of a level.  Only the list names levels and only the editor *)
(* fills them, so one of the three is followed and the others stay as they  *)
(* were.                                                                    *)
(***************************************************************************)
EXTENDS ClientSettings

CONSTANTS
  Names, Initial, LevelsPerPage, MaxWorks,   \* of LevelSelector
  Prefabs, Contents, Lengths, Counts, Ends,  \* of LevelFiles, Contents its Files
  MaxEdits, MaxSaves                         \* and its bounds

VARIABLES
  followed,  \* the screen that is followed
  levels, shown, page, outdated, popup, hide, editing, swapping, works, lost, torn,
  file, canvas, unsaved, edits, saves

Selector == INSTANCE LevelSelector
Editor == INSTANCE LevelFiles WITH Files <- Contents, Missing <- None

ASSUME LevelsFit == Selector!SelectorConstants /\ Editor!FilesConstants

selection == <<levels, shown, page, outdated, popup, hide, editing, swapping, works, lost, torn>>

level == <<file, canvas, unsaved, edits, saves>>

\* The editor has no level open while another screen is followed.
NoLevel == file = None /\ canvas = None /\ unsaved = FALSE /\ edits = 0 /\ saves = 0

FilesInit ==
  /\ followed \in {"settings", "levels", "level"}
  /\ Init /\ Selector!Init
  /\ IF followed = "level" THEN Editor!Init ELSE NoLevel

FilesNext ==
  /\ \/ followed = "settings" /\ Next /\ UNCHANGED <<selection, level>>
     \/ followed = "levels" /\ Selector!Next /\ UNCHANGED <<vars, level>>
     \/ followed = "level" /\ Editor!Next /\ UNCHANGED <<vars, selection>>
  /\ UNCHANGED followed

FilesSpec == FilesInit /\ [][FilesNext]_<<followed, vars, selection, level>>

\* The list of the levels, as LevelSelector states it.
ListIsTheDirectory == followed = "levels" => Selector!ListIsTheDirectory

\* The level's file, as LevelFiles states it.
PlayedAsDrawn == Editor!PlayedAsDrawn
UneditedSavesChangeNothing == Editor!UneditedSavesChangeNothing
=============================================================================
