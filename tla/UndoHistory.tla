---------------------------- MODULE UndoHistory ----------------------------
(***************************************************************************)
(* What an undo history promises: a present, the states before it that can *)
(* still be gone back to, latest last, and the states undone since the     *)
(* last change, next first.  A change forgets what was undone, and the     *)
(* oldest state when there are more than MaxPast.                          *)
(***************************************************************************)
EXTENDS Naturals, Sequences

CONSTANTS
  States,   \* what is recorded
  MaxPast   \* how many states can be gone back to

VARIABLES past, present, future

historyVars == <<past, present, future>>

HistoryInit ==
  /\ past = << >>
  /\ present \in States
  /\ future = << >>

Latest(s) == IF Len(s) > MaxPast THEN Tail(s) ELSE s

Change ==
  /\ present' \in States
  /\ past' = Latest(Append(past, present))
  /\ future' = << >>

GoBack ==
  /\ past # << >>
  /\ past' = SubSeq(past, 1, Len(past) - 1)
  /\ present' = past[Len(past)]
  /\ future' = <<present>> \o future

GoForward ==
  /\ future # << >>
  /\ past' = Append(past, present)
  /\ present' = Head(future)
  /\ future' = Tail(future)

HistoryNext == Change \/ GoBack \/ GoForward

HistorySpec == HistoryInit /\ [][HistoryNext]_historyVars
=============================================================================
