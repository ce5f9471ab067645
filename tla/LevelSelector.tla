---------------------------- MODULE LevelSelector ----------------------------
(***************************************************************************)
(* The level editor's list of levels: levels named after the index they were *)
(* created with, the index inside each file, which says the order, the      *)
(* buttons, made for the list as it was, and the two confirmations.         *)
(***************************************************************************)
EXTENDS Integers, FiniteSets, FiniteSetsExt, Sequences

CONSTANTS
  Names,         \* the numbers a file's name may carry
  Initial,       \* the directory at the start, as in levels
  LevelsPerPage, \* rows of a page
  MaxWorks,      \* bound: levels ever made
  None           \* no path

\* What the constants are taken to be; MCClientFiles assumes it.
SelectorConstants ==
  /\ Names \subseteq Nat /\ LevelsPerPage \in Nat \ {0} /\ MaxWorks \in Nat
  /\ None \notin Nat \cup [path : Names, index : Nat]
  /\ DOMAIN Initial \subseteq Names /\ IsFiniteSet(DOMAIN Initial)
  /\ Initial \in [DOMAIN Initial -> [index : Nat \cup {None}, work : Nat]]
  /\ \A m, n \in DOMAIN Initial : Initial[m].index = Initial[n].index /\ m # n
                                  => Initial[m].index = None

VARIABLES
  levels,     \* the directory: name -> index, the work it holds, and whether it can be parsed
  shown,      \* the list the buttons were made for
  page,       \* _currentPage
  outdated,   \* _shouldUpdateUI
  popup,      \* the confirmation shown, if any, and the pending path
  hide,       \* _shouldHideDeletePopup or _shouldHideDuplicatePopup
  editing,    \* the path of the level editor pushed over the list
  swapping,   \* the second half of a swap: the path and the index it gets
  works,      \* history: how many works were made, at most MaxWorks
  lost,       \* history: works overwritten without a confirmation
  torn        \* history: a swap ended between its two writes

vars == <<levels, shown, page, outdated, popup, hide, editing, swapping, works, lost, torn>>

-----------------------------------------------------------------------------
(* Reading the directory.                                                   *)

Readable(fs) == {n \in DOMAIN fs : fs[n].index # None}

\* getAvailableLevels: a file that cannot be parsed is passed over.
AvailableLevels(fs) ==
  LET Before(a) == {b \in Readable(fs) : \/ fs[b].index < fs[a].index
                                         \/ fs[b].index = fs[a].index /\ b < a}
  IN [i \in 1 .. Cardinality(Readable(fs)) |->
        CHOOSE a \in Readable(fs) : Cardinality(Before(a)) = i - 1]

NextIndex(fs) == Max({fs[n].index + 1 : n \in Readable(fs)} \cup {0})

\* Writing a level under the name of its index, whatever the name holds.
Write(i, work) ==
  /\ i \in Names
  /\ lost' = lost \cup (IF i \in DOMAIN levels THEN {levels[i].work} ELSE {})
  /\ levels' = [n \in DOMAIN levels \cup {i} |->
                 IF n = i THEN [index |-> i, work |-> work] ELSE levels[n]]
  /\ works' = works + 1

Rows == LET from == page * LevelsPerPage IN
          {i \in DOMAIN shown : from < i /\ i <= from + LevelsPerPage}

Pages(list) == (Len(list) + LevelsPerPage - 1) \div LevelsPerPage

Init ==
  /\ levels = Initial /\ shown = AvailableLevels(Initial)
  /\ page = 0 /\ outdated = FALSE
  /\ popup = None /\ hide = FALSE /\ editing = None /\ swapping = None
  /\ works = Cardinality(DOMAIN Initial) /\ lost = {} /\ torn = FALSE

-----------------------------------------------------------------------------
(* The clicks of a frame; while a confirmation is shown the rest is         *)
(* disabled.                                                                *)

Idle == editing = None /\ swapping = None /\ ~ outdated /\ ~ hide

ClickMain == Idle /\ popup = None

OpenLevel(i) ==
  /\ ClickMain /\ i \in Rows
  /\ editing' = shown[i]
  /\ UNCHANGED <<levels, shown, page, outdated, popup, hide, swapping, works, lost, torn>>

CreateNewLevel ==
  /\ ClickMain /\ works < MaxWorks
  /\ Write(NextIndex(levels), works)
  /\ editing' = NextIndex(levels)
  /\ UNCHANGED <<shown, page, outdated, popup, hide, swapping, torn>>

\* swapLevels reads both files and writes the first ...
SwapLevels(i, j) ==
  /\ ClickMain /\ i \in Rows /\ j \in DOMAIN shown
  /\ {shown[i], shown[j]} \subseteq Readable(levels)
  /\ levels' = [levels EXCEPT ![shown[i]].index = levels[shown[j]].index]
  /\ swapping' = [path |-> shown[j], index |-> levels[shown[i]].index]
  /\ UNCHANGED <<shown, page, outdated, popup, hide, editing, works, lost, torn>>

MoveUp(i)   == SwapLevels(i, i - 1)
MoveDown(i) == SwapLevels(i, i + 1)

\* ... then the second.
FinishSwap ==
  /\ swapping # None
  /\ levels' = [levels EXCEPT ![swapping.path].index = swapping.index]
  /\ swapping' = None /\ outdated' = TRUE
  /\ UNCHANGED <<shown, page, popup, hide, editing, works, lost, torn>>

Turn(by) ==
  /\ ClickMain
  /\ page + by >= 0
  /\ by = 1 => page + 1 < Pages(shown)
  /\ page' = page + by /\ outdated' = TRUE
  /\ UNCHANGED <<levels, shown, popup, hide, editing, swapping, works, lost, torn>>

ShowConfirmation(what, i) ==
  /\ ClickMain /\ i \in Rows
  /\ popup' = [asks |-> what, path |-> shown[i]]
  /\ UNCHANGED <<levels, shown, page, outdated, hide, editing, swapping, works, lost, torn>>

Asked(what) == Idle /\ popup # None /\ popup.asks = what

Cancel ==
  /\ Idle /\ popup # None
  /\ hide' = TRUE
  /\ UNCHANGED <<levels, shown, page, outdated, popup, editing, swapping, works, lost, torn>>

ConfirmDelete ==
  /\ Asked("delete")
  /\ levels' = [n \in DOMAIN levels \ {popup.path} |-> levels[n]]
  /\ outdated' = TRUE /\ hide' = TRUE
  /\ UNCHANGED <<shown, page, popup, editing, swapping, works, lost, torn>>

ConfirmDuplicate ==
  /\ Asked("duplicate") /\ works < MaxWorks
  /\ popup.path \in Readable(levels)
  /\ Write(NextIndex(levels), works)
  /\ outdated' = TRUE /\ hide' = TRUE
  /\ UNCHANGED <<shown, page, popup, editing, swapping, torn>>

\* A mutant: the list is not made anew.
UpdateKeepingList ==
  /\ editing = None /\ swapping = None /\ (outdated \/ hide)
  /\ outdated' = FALSE /\ UNCHANGED shown
  /\ hide' = FALSE /\ popup' = IF hide THEN None ELSE popup
  /\ UNCHANGED <<levels, page, editing, swapping, works, lost, torn>>

\* The end of a frame: the list is made anew, also for a number of levels that changed, and a
\* confirmation goes.
Update ==
  /\ editing = None /\ swapping = None
  /\ outdated \/ hide \/ Len(shown) # Cardinality(Readable(levels))
  /\ outdated' = FALSE
  /\ shown' = IF outdated \/ Len(shown) # Cardinality(Readable(levels))
              THEN AvailableLevels(levels) ELSE shown
  /\ hide' = FALSE /\ popup' = IF hide THEN None ELSE popup
  /\ UNCHANGED <<levels, page, editing, swapping, works, lost, torn>>

\* The level editor saves under the path it was given, and pops.
LeaveEditor ==
  /\ editing # None
  /\ editing' = None
  /\ UNCHANGED <<levels, shown, page, outdated, popup, hide, swapping, works, lost, torn>>

\* The client ends, perhaps between the two writes of a swap or in the second, which leaves a
\* file that cannot be parsed, and the list is opened again.
Restart ==
  /\ torn' = (torn \/ swapping # None)
  /\ levels' \in {levels} \cup (IF swapping = None THEN {}
                             ELSE {[levels EXCEPT ![swapping.path].index = None]})
  /\ shown' = AvailableLevels(levels')
  /\ page' = 0 /\ outdated' = FALSE /\ popup' = None /\ hide' = FALSE /\ editing' = None
  /\ swapping' = None
  /\ UNCHANGED <<works, lost>>

Next ==
  \/ \E i \in DOMAIN shown : \/ OpenLevel(i) \/ MoveUp(i) \/ MoveDown(i)
                             \/ \E w \in {"delete", "duplicate"} : ShowConfirmation(w, i)
  \/ CreateNewLevel \/ FinishSwap \/ (\E by \in {-1, 1} : Turn(by)) \/ Cancel \/ ConfirmDelete
  \/ ConfirmDuplicate \/ Update \/ LeaveEditor \/ Restart

Spec == Init /\ [][Next]_vars

-----------------------------------------------------------------------------
(* Properties.                                                              *)

\* The buttons act on the levels they show: between frames the list is the directory's, in the
\* order of the indices, unless a level was overwritten, which leaves their number as it was; and
\* no two levels have one index, unless a swap ended half way.
ListIsTheDirectory ==
  ClickMain /\ Len(shown) = Cardinality(Readable(levels)) =>
    /\ lost = {} => shown = AvailableLevels(levels)
    /\ ~ torn => \A m, n \in Readable(levels) : levels[m].index = levels[n].index => m = n

=============================================================================
