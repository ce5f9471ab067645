-------------------------- MODULE ReplayViewerProofs --------------------------
(***************************************************************************)
(* What holds of ReplayViewer for every number of files and of games, for   *)
(* every replay, speed, slider and key: the rotation keeps the latest games, *)
(* the frame on show is the one of the time, and a click calls one callback. *)
(* The last two rest on an invariant of the screen that every part of a      *)
(* frame - the mouse, the keys, the switch, the player, the controls - keeps  *)
(* or restores in turn, and on one of a manager of elements: what is pressed  *)
(* is under the mouse, whose button is down, and does not have the focus.     *)
(***************************************************************************)
EXTENDS ReplayViewer, FiniteSetTheorems, WellFoundedInduction, TLAPS

-----------------------------------------------------------------------------
(* Numbers and sets.                                                        *)

\* Induction on the numbers, as a statement about a set of them.
LEMMA NatSetInduction ==
  ASSUME NEW S \in SUBSET Nat, 0 \in S, \A n \in S : n + 1 \in S
  PROVE  S = Nat
<1> SUFFICES ASSUME S # Nat PROVE FALSE
  OBVIOUS
<1> DEFINE R == {p \in Nat \X Nat : p[1] < p[2]}
<1>1. IsWellFoundedOn(R, Nat)
  <2>1. R = OpToRel(<, Nat)
    BY DEF OpToRel
  <2> QED BY <2>1, NatLessThanWellFounded
<1>2. PICK x \in Nat \ S : \A y \in Nat \ S : <<y, x>> \notin R
  <2> HIDE DEF R
  <2> QED BY <1>1, WFMin
<1>3. x - 1 \in Nat \ S
  <2>1. x # 0
    BY <1>2
  <2>2. x - 1 \in Nat
    BY <2>1
  <2> QED BY <2>2, (x - 1) + 1 = x
<1>4. <<x - 1, x>> \in R
  BY <1>3
<1> HIDE DEF R
<1> QED BY <1>2, <1>3, <1>4


HasMax(t) == \E x \in t : \A y \in t : x >= y

\* A finite set of numbers has a greatest.
LEMMA FiniteHasMax ==
  ASSUME NEW s \in SUBSET Nat, IsFiniteSet(s), s # {}
  PROVE  Max(s) \in s /\ \A x \in s : x <= Max(s)
<1> DEFINE P == {k \in Nat : \A t \in SUBSET Nat :
                               IsFiniteSet(t) /\ Cardinality(t) = k /\ t # {} => HasMax(t)}
<1>1. 0 \in P
  BY FS_EmptySet
<1>2. ASSUME NEW k \in P PROVE k + 1 \in P
  <2>1. ASSUME NEW t \in SUBSET Nat, IsFiniteSet(t), Cardinality(t) = k + 1, t # {}
        PROVE HasMax(t)
    <3>1. PICK x \in t : TRUE
      BY <2>1
    <3>2. IsFiniteSet(t \ {x}) /\ Cardinality(t \ {x}) = k
      <4>1. IsFiniteSet(t \ {x}) /\ Cardinality(t \ {x}) = Cardinality(t) - 1
        BY <2>1, <3>1, FS_RemoveElement
      <4>2. k \in Nat /\ Cardinality(t) = k + 1
        BY <2>1
      <4> HIDE DEF P
      <4> QED BY <4>1, <4>2
    <3>3. CASE t \ {x} = {}
      BY <3>1, <3>3 DEF HasMax
    <3>4. CASE t \ {x} # {}
      <4>1. HasMax(t \ {x})
        BY <3>2, <3>4
      <4>2. PICK y \in t \ {x} : \A z \in t \ {x} : y >= z
        BY <4>1 DEF HasMax
      <4>3. x \in Nat /\ y \in Nat /\ \A z \in t : z \in Nat
        BY <3>1, <4>2
      <4> QED BY <3>1, <4>2, <4>3 DEF HasMax
    <3> QED BY <3>3, <3>4
  <2>2. k + 1 \in Nat
    OBVIOUS
  <2> QED BY <2>1, <2>2
<1>3. P = Nat
  <2>1. P \in SUBSET Nat
    OBVIOUS
  <2> HIDE DEF P
  <2> QED BY <1>1, <1>2, <2>1, NatSetInduction
<1>4. HasMax(s)
  <2>1. Cardinality(s) \in Nat
    BY FS_CardinalityType
  <2> QED BY <1>3, <2>1
<1>5. \E x \in s : \A y \in s : x >= y
  BY <1>4 DEF HasMax
<1>6. Max(s) \in s /\ \A x \in s : Max(s) >= x
  BY <1>5 DEF Max
<1> QED BY <1>6

\* A set of numbers that is not empty has a least.
LEMMA NatHasMin ==
  ASSUME NEW s \in SUBSET Nat, s # {}
  PROVE  Min(s) \in s /\ \A x \in s : Min(s) <= x
<1> DEFINE R == {p \in Nat \X Nat : p[1] < p[2]}
<1>1. IsWellFoundedOn(R, Nat)
  <2>1. R = OpToRel(<, Nat)
    BY DEF OpToRel
  <2> QED BY <2>1, NatLessThanWellFounded
<1>2. PICK x \in s : \A y \in s : <<y, x>> \notin R
  <2> HIDE DEF R
  <2> QED BY <1>1, WFMin
<1>3. ASSUME NEW y \in s PROVE x <= y
  <2>1. x \in Nat /\ y \in Nat /\ <<y, x>> \notin R
    BY <1>2
  <2> QED BY <2>1
<1> HIDE DEF R
<1>4. Min(s) \in s /\ \A y \in s : Min(s) <= y
  <2> DEFINE m == CHOOSE z \in s : \A y \in s : z <= y
  <2>1. m \in s /\ \A y \in s : m <= y
    BY <1>3, Zenon
  <2> QED BY <2>1 DEF Min
<1> QED BY <1>4


-----------------------------------------------------------------------------
(* The rotation.                                                            *)

Kept == IF games < MaxReplayFiles THEN games ELSE MaxReplayFiles
Replay == [game : Nat, frames : Seq(Nat \ {0})]

ReplaysInv ==
  /\ games \in Nat
  /\ replays \in [1 .. Kept -> Replay]
  /\ LatestGamesKept
  /\ \A m, n \in DOMAIN replays : replays[m].game = replays[n].game => m = n
  /\ screen = "game" => recording \in [file : 1 .. Kept, time : Nat]

\* The files are numbered from one, as many as there were games until there are enough.
LEMMA KeptFiles ==
  ASSUME ReplaysInv
  PROVE  /\ Kept \in Nat /\ Kept <= games /\ Kept <= MaxReplayFiles
         /\ DOMAIN replays = 1 .. Kept /\ Cardinality(DOMAIN replays) = Kept
<1>1. Kept \in Nat /\ Kept <= games /\ Kept <= MaxReplayFiles
  BY ReplayConstants DEF Kept, ReplaysInv
<1>2. Cardinality(1 .. Kept) = Kept
  BY <1>1, FS_Interval, 1 \in Int, Kept \in Int
<1> QED BY <1>1, <1>2 DEF ReplaysInv

\* A new game overwrites the oldest file, or makes the next one.
LEMMA StartKeeps ==
  ASSUME ReplaysInv, StartGame
  PROVE  ReplaysInv'
<1> DEFINE f == GetNextReplayFile
<1>1. /\ games' = games + 1 /\ screen' = "game"
      /\ replays' = [n \in DOMAIN replays \cup {f} |->
                       IF n = f THEN [game |-> games + 1, frames |-> <<>>] ELSE replays[n]]
      /\ recording' = [file |-> f, time |-> 0]
  BY DEF StartGame
<1>2. /\ Kept \in Nat /\ Kept <= games /\ Kept <= MaxReplayFiles
      /\ DOMAIN replays = 1 .. Kept /\ Cardinality(DOMAIN replays) = Kept
  BY KeptFiles
<1>3. games \in Nat /\ MaxReplayFiles \in Nat /\ MaxReplayFiles > 0
  BY ReplayConstants DEF ReplaysInv
<1>4. \A n \in DOMAIN replays : replays[n] \in Replay /\ replays[n].game \in Nat
  BY DEF ReplaysInv, Replay
<1>5. /\ \A n \in DOMAIN replays : replays[n].game \in 1 .. games
                                  /\ replays[n].game > games - MaxReplayFiles
      /\ \A g \in 1 .. games : g > games - MaxReplayFiles => \E n \in DOMAIN replays : replays[n].game = g
  BY DEF ReplaysInv, LatestGamesKept
<1>6. [game |-> games + 1, frames |-> <<>>] \in Replay
  BY <1>3 DEF Replay
<1>7. CASE games < MaxReplayFiles
  <2>1. Kept = games /\ f = games + 1 /\ Kept' = games + 1
    BY <1>1, <1>2, <1>3, <1>7 DEF Kept, GetNextReplayFile
  <2> HIDE DEF f
  <2>2. DOMAIN replays \cup {f} = 1 .. (games + 1) /\ f \notin DOMAIN replays
    BY <1>2, <1>3, <2>1
  <2>3. replays' \in [1 .. Kept' -> Replay]
    BY <1>1, <1>4, <1>6, <2>1, <2>2
  <2>4. LatestGamesKept'
    <3>1. ASSUME NEW n \in DOMAIN replays'
          PROVE  replays'[n].game \in {g \in 1 .. games' : g > games' - MaxReplayFiles}
      BY <1>1, <1>3, <1>5, <1>7
    <3>2. ASSUME NEW g \in 1 .. games', g > games' - MaxReplayFiles
          PROVE  \E n \in DOMAIN replays' : replays'[n].game = g
      <4>1. CASE g = games + 1
        BY <1>1, <4>1
      <4>2. CASE g # games + 1
        <5>1. g \in 1 .. games /\ g > games - MaxReplayFiles
          BY <1>1, <1>3, <3>2, <4>2
        <5>2. PICK n \in DOMAIN replays : replays[n].game = g
          BY <1>5, <5>1
        <5> QED BY <1>1, <2>2, <5>2
      <4> QED BY <4>1, <4>2
    <3> QED BY <3>1, <3>2 DEF LatestGamesKept
  <2>5. \A m, n \in DOMAIN replays' : replays'[m].game = replays'[n].game => m = n
    BY <1>1, <1>3, <1>5, <2>2 DEF ReplaysInv
  <2>6. recording' \in [file : 1 .. Kept', time : Nat] /\ games' \in Nat
    BY <1>1, <1>3, <2>1
  <2> QED BY <2>3, <2>4, <2>5, <2>6 DEF ReplaysInv
<1>8. CASE games >= MaxReplayFiles
  <2>1. Kept = MaxReplayFiles /\ Kept' = MaxReplayFiles
    BY <1>1, <1>3, <1>8 DEF Kept
  <2>2. PICK o \in DOMAIN replays : replays[o].game = games - MaxReplayFiles + 1
    BY <1>3, <1>5, <1>8
  <2>3. \A m \in DOMAIN replays : replays[o].game <= replays[m].game
    BY <1>3, <1>5, <2>2
  <2>4. f \in DOMAIN replays /\ \A m \in DOMAIN replays : replays[f].game <= replays[m].game
    <3>1. ~ (Cardinality(DOMAIN replays) < MaxReplayFiles)
      BY <1>2, <1>3, <2>1
    <3>2. f = CHOOSE n \in DOMAIN replays :
                \A m \in DOMAIN replays : replays[n].game <= replays[m].game
      BY <3>1, Zenon DEF GetNextReplayFile
    <3> HIDE DEF f
    <3> QED BY <2>3, <3>2
  <2> HIDE DEF f
  <2>5. replays[f].game = games - MaxReplayFiles + 1
    BY <1>3, <1>5, <2>2, <2>4
  <2>6. DOMAIN replays \cup {f} = 1 .. Kept
    BY <1>2, <2>4
  <2>7. replays' \in [1 .. Kept' -> Replay]
    BY <1>1, <1>4, <1>6, <2>1, <2>6, <1>2
  <2>8. \A n \in DOMAIN replays \ {f} : replays[n].game > games - MaxReplayFiles + 1
    <3>1. \A n \in DOMAIN replays \ {f} : replays[n].game # replays[f].game
      BY <2>4 DEF ReplaysInv
    <3> QED BY <1>3, <1>4, <1>5, <2>5, <3>1
  <2>9. LatestGamesKept'
    <3>1. ASSUME NEW n \in DOMAIN replays'
          PROVE  replays'[n].game \in {g \in 1 .. games' : g > games' - MaxReplayFiles}
      BY <1>1, <1>3, <1>5, <2>4, <2>8
    <3>2. ASSUME NEW g \in 1 .. games', g > games' - MaxReplayFiles
          PROVE  \E n \in DOMAIN replays' : replays'[n].game = g
      <4>1. CASE g = games + 1
        BY <1>1, <4>1
      <4>2. CASE g # games + 1
        <5>1. g \in 1 .. games /\ g > games - MaxReplayFiles /\ g # games - MaxReplayFiles + 1
          BY <1>1, <1>3, <3>2, <4>2
        <5>2. PICK n \in DOMAIN replays : replays[n].game = g
          BY <1>5, <5>1
        <5> QED BY <1>1, <2>5, <5>1, <5>2
      <4> QED BY <4>1, <4>2
    <3> QED BY <3>1, <3>2 DEF LatestGamesKept
  <2>10. \A m, n \in DOMAIN replays' : replays'[m].game = replays'[n].game => m = n
    BY <1>1, <1>3, <1>5 DEF ReplaysInv
  <2>11. recording' \in [file : 1 .. Kept', time : Nat] /\ games' \in Nat
    BY <1>1, <1>2, <1>3, <2>1, <2>4
  <2> QED BY <2>7, <2>9, <2>10, <2>11 DEF ReplaysInv
<1> QED BY <1>3, <1>7, <1>8

\* A frame that is recorded leaves alone which games are kept.
LEMMA RecordKeeps ==
  ASSUME ReplaysInv, NEW gap \in 1 .. MaxGap, NEW zone \in BOOLEAN, RecordFrame(gap, zone)
  PROVE  ReplaysInv'
<1> DEFINE f == recording.file
<1>1. /\ screen = "game" /\ screen' = screen /\ games' = games
      /\ recording' = [recording EXCEPT !.time = @ + gap]
      /\ replays' = IF zone THEN [replays EXCEPT ![f].frames = Append(@, recording'.time)] ELSE replays
  BY DEF RecordFrame
<1>2. recording \in [file : 1 .. Kept, time : Nat] /\ replays \in [1 .. Kept -> Replay]
  BY <1>1 DEF ReplaysInv
<1>3. gap \in Nat \ {0}
  BY ReplayConstants
<1>4. recording' \in [file : 1 .. Kept, time : Nat] /\ recording'.time \in Nat \ {0} /\ Kept' = Kept
  BY <1>1, <1>2, <1>3 DEF Kept
<1>5. /\ replays' \in [1 .. Kept -> Replay]
      /\ \A n \in 1 .. Kept : replays'[n].game = replays[n].game
  <2>1. CASE zone
    <3>1. replays' = [replays EXCEPT ![f] = [replays[f] EXCEPT !.frames = Append(@, recording'.time)]]
      BY <1>1, <2>1
    <3>2. replays[f] \in Replay /\ Append(replays[f].frames, recording'.time) \in Seq(Nat \ {0})
      BY <1>2, <1>4 DEF Replay
    <3>3. [replays[f] EXCEPT !.frames = Append(@, recording'.time)] \in Replay
          /\ [replays[f] EXCEPT !.frames = Append(@, recording'.time)].game = replays[f].game
      BY <3>2 DEF Replay
    <3> QED BY <1>2, <3>1, <3>3
  <2>2. CASE ~ zone
    BY <1>1, <1>2, <2>2
  <2> QED BY <2>1, <2>2
<1>6. DOMAIN replays' = 1 .. Kept /\ DOMAIN replays = 1 .. Kept
  BY <1>2, <1>5
<1>7. LatestGamesKept'
  BY <1>1, <1>5, <1>6 DEF ReplaysInv, LatestGamesKept
<1> QED BY <1>1, <1>4, <1>5, <1>6, <1>7 DEF ReplaysInv

\* There is no file at first.
LEMMA ReplaysInit == Init => ReplaysInv
<1> SUFFICES ASSUME Init PROVE ReplaysInv
  OBVIOUS
<1>1. games = 0 /\ DOMAIN replays = {} /\ replays = [n \in {} |-> 0] /\ screen = "profile"
  BY DEF Init
<1>2. Kept = 0 /\ 1 .. Kept = {}
  BY <1>1, ReplayConstants DEF Kept
<1>3. replays \in [1 .. Kept -> Replay]
  BY <1>1, <1>2
<1>4. LatestGamesKept
  BY <1>1 DEF LatestGamesKept
<1> QED BY <1>1, <1>3, <1>4 DEF ReplaysInv

\* No step but the start of a game and a recorded frame touches a file.
LEMMA ReplaysStep == ReplaysInv /\ [Next]_vars => ReplaysInv'
<1> SUFFICES ASSUME ReplaysInv, [Next]_vars PROVE ReplaysInv'
  OBVIOUS
<1>1. ASSUME UNCHANGED <<games, replays>>, UNCHANGED <<screen, recording>> \/ screen' # "game"
      PROVE  ReplaysInv'
  BY <1>1 DEF ReplaysInv, LatestGamesKept, Kept
<1>2. CASE StartGame
  BY <1>2, StartKeeps
<1>3. ASSUME NEW gap \in 1 .. MaxGap, NEW zone \in BOOLEAN, RecordFrame(gap, zone) PROVE ReplaysInv'
  BY <1>3, RecordKeeps
<1>4. CASE EndGame
  BY <1>1, <1>4 DEF EndGame
<1>5. CASE OpenReplays
  BY <1>1, <1>5 DEF OpenReplays
<1>6. CASE Restart
  BY <1>1, <1>6 DEF Restart
<1>7. ASSUME NEW at \in Places, NEW pressed \in BOOLEAN, NEW key \in Keys, Frame(at, pressed, key)
      PROVE ReplaysInv'
  <2>1. UNCHANGED <<games, replays>> /\ screen' # "game"
    BY <1>7 DEF Frame
  <2> QED BY <1>1, <2>1
<1>8. CASE UNCHANGED vars
  BY <1>1, <1>8 DEF vars
<1> QED BY <1>2, <1>3, <1>4, <1>5, <1>6, <1>7, <1>8 DEF Next

\* Of the games played, the latest are in the files and no other, for every number of files and
\* of games: the file that is written next is the one written longest ago.
THEOREM LatestReplaysAreKept == Spec => []LatestGamesKept
<1>1. ReplaysInv => LatestGamesKept
  BY DEF ReplaysInv
<1> QED BY ReplaysInit, ReplaysStep, <1>1, PTL DEF Spec

-----------------------------------------------------------------------------
(* The list: its rows are replays, so that nothing in it is Nobody.         *)

\* For each place in the list there is the replay with as many later ones.
LEMMA LaterReplays ==
  ASSUME ReplaysInv, NEW i \in 1 .. Kept
  PROVE  \E n \in DOMAIN replays :
           Cardinality({m \in DOMAIN replays : replays[m].game > replays[n].game}) = i - 1
<1>1. /\ Kept \in Nat /\ Kept <= games /\ Kept <= MaxReplayFiles /\ games \in Nat
      /\ MaxReplayFiles \in Nat
  BY KeptFiles, ReplayConstants DEF ReplaysInv
<1>2. /\ \A n \in DOMAIN replays : replays[n].game \in 1 .. games
                                  /\ replays[n].game > games - MaxReplayFiles
      /\ \A g \in 1 .. games : g > games - MaxReplayFiles => \E n \in DOMAIN replays : replays[n].game = g
  BY DEF ReplaysInv, LatestGamesKept
<1>3. games + 1 - i \in 1 .. games /\ games + 1 - i > games - MaxReplayFiles
  BY <1>1
<1>4. PICK n \in DOMAIN replays : replays[n].game = games + 1 - i
  BY <1>2, <1>3
<1> DEFINE Later == {m \in DOMAIN replays : replays[m].game > replays[n].game}
           Games == (games + 2 - i) .. games
           f == [m \in Later |-> replays[m].game]
<1>5. f \in Injection(Later, Games)
  <2>1. \A m \in Later : replays[m].game \in Games
    BY <1>1, <1>2, <1>4
  <2>2. \A k, m \in Later : replays[k].game = replays[m].game => k = m
    BY DEF ReplaysInv
  <2> QED BY <2>1, <2>2 DEF Injection, IsInjective
<1>6. f \in Surjection(Later, Games)
  <2>1. ASSUME NEW g \in Games PROVE \E m \in Later : f[m] = g
    <3>1. g \in 1 .. games /\ g > games - MaxReplayFiles /\ g > games + 1 - i
      BY <1>1
    <3>2. PICK m \in DOMAIN replays : replays[m].game = g
      BY <1>2, <3>1
    <3> QED BY <1>4, <3>1, <3>2
  <2>2. f \in [Later -> Games]
    BY <1>5 DEF Injection
  <2> QED BY <2>1, <2>2 DEF Surjection
<1>7. IsFiniteSet(Games) /\ Cardinality(Games) = i - 1
  <2>1. games + 2 - i \in Int /\ games \in Int
    BY <1>1
  <2>2. /\ IsFiniteSet(Games)
        /\ Cardinality(Games) = IF games + 2 - i > games THEN 0 ELSE games - (games + 2 - i) + 1
    BY <2>1, FS_Interval
  <2> HIDE DEF Games
  <2> QED BY <1>1, <2>2
<1>8. Cardinality(Later) = i - 1
  <2> HIDE DEF Later, Games, f
  <2> QED BY <1>5, <1>6, <1>7, FS_Injection
<1> QED BY <1>8

Rows == {Button("back")} \cup {<<"replay", k>> : k \in DOMAIN replays}

\* The names of the elements are places.
LEMMA NobodyIsNoPlace ==
  ASSUME ReplaysInv
  PROVE  Nobody \notin Rows /\ Nobody \notin Buttons
<1>1. DOMAIN replays = 1 .. Kept /\ Kept \in Nat /\ Kept <= MaxReplayFiles /\ MaxReplayFiles \in Nat
  BY KeptFiles, ReplayConstants
<1>2. Rows \subseteq Places
  BY <1>1 DEF Rows, Places
<1> QED BY <1>2, ReplayConstants DEF Places

\* The list is made of the replays there are and of the way back.
LEMMA ListOfReplays ==
  ASSUME ReplaysInv
  PROVE  SelectionManager = NewManager(SelectionManager.order)
         /\ Nobody \notin Range(SelectionManager.order)
         /\ SelectionManager.order \in Seq(Rows)
<1> DEFINE Name(i) == CHOOSE n \in DOMAIN replays :
                        Cardinality({m \in DOMAIN replays : replays[m].game > replays[n].game}) = i - 1
           list == Append(AvailableReplays, Button("back"))
<1>1. Kept \in Nat /\ Cardinality(DOMAIN replays) = Kept
  BY KeptFiles
<1>2. AvailableReplays = [i \in 1 .. Kept |-> <<"replay", Name(i)>>]
  BY <1>1 DEF AvailableReplays
<1>3. ASSUME NEW i \in 1 .. Kept PROVE Name(i) \in DOMAIN replays
  BY LaterReplays
<1> HIDE DEF Name
<1>4. AvailableReplays \in Seq(Rows)
  BY <1>1, <1>2, <1>3 DEF Rows
<1>5. list \in Seq(Rows)
  BY <1>4 DEF Rows
<1>6. Range(list) \subseteq Rows
  <2> HIDE DEF list
  <2> QED BY <1>5 DEF Range
<1>7. SelectionManager = NewManager(list) /\ SelectionManager.order = list
  BY DEF SelectionManager, NewManager
<1> QED BY <1>5, <1>6, <1>7, NobodyIsNoPlace

-----------------------------------------------------------------------------
(* The mouse over a manager's elements: an element is only pressed while the *)
(* button is down, under the mouse, and without the focus.                   *)

Element == [state : {"Normal", "Focused", "Hovered", "Pressed"}, focused : BOOLEAN,
            inside : BOOLEAN, was : BOOLEAN]

IsManager(u) ==
  /\ DOMAIN u = {"els", "order", "focus", "focusDisabled", "at"}
  /\ u.els \in [DOMAIN u.els -> Element]
  /\ Nobody \notin DOMAIN u.els
  /\ \A n \in DOMAIN u.els : u.els[n].focused => u.focus = n

Pressing(u, at, pressed) ==
  \A n \in DOMAIN u.els :
    u.els[n].state = "Pressed" => ~ u.els[n].focused /\ pressed /\ n = at

\* Nothing is pressed in a new manager.
LEMMA NewManagerOK ==
  ASSUME NEW order, Nobody \notin Range(order), NEW at, NEW pressed
  PROVE  IsManager(NewManager(order)) /\ Pressing(NewManager(order), at, pressed)
<1>1. NewElement \in Element /\ NewElement.state # "Pressed" /\ ~ NewElement.focused
  BY DEF NewElement, Element
<1> QED BY <1>1 DEF NewManager, IsManager, Pressing

\* Who loses the focus is normal again, and nothing else changes.
LEMMA ClearFocusOK ==
  ASSUME NEW u, IsManager(u)
  PROVE  /\ IsManager(ClearFocus(u))
         /\ DOMAIN ClearFocus(u).els = DOMAIN u.els /\ ClearFocus(u).order = u.order
         /\ ClearFocus(u).focus = Nobody
         /\ \A n \in DOMAIN u.els :
              /\ ~ ClearFocus(u).els[n].focused
              /\ ClearFocus(u).els[n].state =
                   IF u.els[n].focused THEN "Normal" ELSE u.els[n].state
              /\ ClearFocus(u).els[n].inside = u.els[n].inside
<1>1. /\ DOMAIN u = {"els", "order", "focus", "focusDisabled", "at"}
      /\ u.els \in [DOMAIN u.els -> Element]
      /\ Nobody \notin DOMAIN u.els
      /\ \A n \in DOMAIN u.els : u.els[n].focused => u.focus = n
  BY DEF IsManager
<1>2. CASE u.focus = Nobody
  <2>1. ClearFocus(u) = u /\ \A n \in DOMAIN u.els : u.els[n].focused = FALSE
    BY <1>1, <1>2 DEF ClearFocus, Element
  <2> QED BY <1>1, <1>2, <2>1 DEF IsManager
<1>3. CASE u.focus # Nobody
  <2> DEFINE e == SetFocused(u.els[u.focus], FALSE)
             els == [u.els EXCEPT ![u.focus] = e]
  <2> DEFINE c == ClearFocus(u)
  <2>1. DOMAIN c = DOMAIN u /\ c.els = els /\ c.order = u.order /\ c.focus = Nobody
    BY <1>1, <1>3 DEF ClearFocus
  <2>2. u.focus \in DOMAIN u.els =>
          /\ e \in Element /\ ~ e.focused /\ e.inside = u.els[u.focus].inside
          /\ e.state = IF u.els[u.focus].focused THEN "Normal" ELSE u.els[u.focus].state
    BY <1>1 DEF SetFocused, Element
  <2> HIDE DEF e
  <2>3. els \in [DOMAIN u.els -> Element]
    BY <1>1, <2>2
  <2>4. \A n \in DOMAIN u.els :
          /\ ~ els[n].focused
          /\ els[n].state = IF u.els[n].focused THEN "Normal" ELSE u.els[n].state
          /\ els[n].inside = u.els[n].inside
    <3> SUFFICES ASSUME NEW n \in DOMAIN u.els
                 PROVE  /\ ~ els[n].focused
                        /\ els[n].state = IF u.els[n].focused THEN "Normal" ELSE u.els[n].state
                        /\ els[n].inside = u.els[n].inside
      OBVIOUS
    <3>1. CASE n = u.focus
      BY <1>1, <2>2, <3>1
    <3>2. CASE n # u.focus
      BY <1>1, <3>2 DEF Element
    <3> QED BY <3>1, <3>2
  <2> HIDE DEF els, c
  <2>5. IsManager(c)
    BY <1>1, <2>1, <2>3, <2>4 DEF IsManager
  <2> QED BY <1>1, <2>1, <2>3, <2>4, <2>5 DEF c
<1> QED BY <1>2, <1>3

\* A movement of the mouse takes the focus away and presses nothing.
LEMMA MovementOK ==
  ASSUME NEW u, IsManager(u), NEW at
  PROVE  LET m == OnMouseMovement(u, at)
         IN /\ IsManager(m) /\ DOMAIN m.els = DOMAIN u.els /\ m.order = u.order
            /\ m.focus \in {u.focus, Nobody}
            /\ \A n \in DOMAIN u.els : /\ m.els[n].focused => u.els[n].focused
                                       /\ m.els[n].inside = u.els[n].inside
                                       /\ m.els[n].state = "Pressed" => u.els[n].state = "Pressed"
<1> DEFINE c == ClearFocus(u)
<1>1. /\ IsManager(c) /\ DOMAIN c.els = DOMAIN u.els /\ c.order = u.order
      /\ c.focus = Nobody
      /\ \A n \in DOMAIN u.els : /\ ~ c.els[n].focused
                                 /\ c.els[n].state = IF u.els[n].focused THEN "Normal" ELSE u.els[n].state
                                 /\ c.els[n].inside = u.els[n].inside
  BY ClearFocusOK
<1>2. CASE u.at \in {Nobody, at}
  BY <1>2 DEF OnMouseMovement
<1>3. CASE u.at \notin {Nobody, at}
  <2>1. OnMouseMovement(u, at) = [c EXCEPT !.focusDisabled = TRUE]
    BY <1>3 DEF OnMouseMovement
  <2> HIDE DEF c
  <2> DEFINE m == [c EXCEPT !.focusDisabled = TRUE]
  <2>2. DOMAIN m = DOMAIN c /\ m.els = c.els /\ m.order = c.order /\ m.focus = c.focus
    BY <1>1 DEF IsManager
  <2> HIDE DEF m
  <2>3. IsManager(m)
    BY <1>1, <2>2 DEF IsManager
  <2>4. m.focus \in {u.focus, Nobody} /\ DOMAIN m.els = DOMAIN u.els
        /\ \A n \in DOMAIN u.els : /\ m.els[n].focused => u.els[n].focused
                                   /\ m.els[n].inside = u.els[n].inside
                                   /\ m.els[n].state = "Pressed" => u.els[n].state = "Pressed"
    BY <1>1, <2>2
  <2> QED BY <1>1, <2>1, <2>2, <2>3, <2>4 DEF m
<1> QED BY <1>2, <1>3

\* After the mouse was handled, what is pressed is under it.
LEMMA MouseOK ==
  ASSUME NEW u, NEW at, NEW pressed \in BOOLEAN, NEW was, NEW before,
         IsManager(u), Pressing(u, was, before)
  PROVE  LET h == HandleMouseInput(u, at, pressed)
         IN /\ IsManager(h) /\ Pressing(h, at, pressed)
            /\ DOMAIN h.els = DOMAIN u.els /\ h.order = u.order /\ h.focus \in {u.focus, Nobody}
<1> DEFINE m == OnMouseMovement(u, at)
           els == [n \in DOMAIN m.els |-> HandleInput(m.els[n], n = at, pressed)]
           all == [m EXCEPT !.at = at, !.els = els]
<1>1. /\ IsManager(m) /\ DOMAIN m.els = DOMAIN u.els /\ m.order = u.order
      /\ m.focus \in {u.focus, Nobody}
      /\ \A n \in DOMAIN u.els : /\ m.els[n].focused => u.els[n].focused
                                 /\ m.els[n].inside = u.els[n].inside
                                 /\ m.els[n].state = "Pressed" => u.els[n].state = "Pressed"
  BY MovementOK
<1>2. HandleMouseInput(u, at, pressed) = IF pressed THEN ClearFocus(all) ELSE all
  BY DEF HandleMouseInput, PressTakesFocus
<1> HIDE DEF m
<1>3. \A n \in DOMAIN m.els :
        /\ els[n] \in Element
        /\ els[n].focused = m.els[n].focused
        /\ els[n].state = "Pressed" => \/ n = at /\ pressed
                                       \/ m.els[n].focused /\ m.els[n].state = "Pressed"
  <2> SUFFICES ASSUME NEW n \in DOMAIN m.els
               PROVE  /\ els[n] \in Element
                      /\ els[n].focused = m.els[n].focused
                      /\ els[n].state = "Pressed" => \/ n = at /\ pressed
                                                     \/ m.els[n].focused /\ m.els[n].state = "Pressed"
    OBVIOUS
  <2>1. m.els[n] \in Element /\ (n = at) \in BOOLEAN
    BY <1>1 DEF IsManager
  <2>2. els[n] = HandleInput(m.els[n], n = at, pressed)
    OBVIOUS
  <2> DEFINE e == m.els[n]
  <2>3. els[n] = [state |-> IF n = at /\ pressed THEN "Pressed"
                            ELSE IF e.focused THEN e.state
                            ELSE IF n = at THEN "Hovered" ELSE "Normal",
                  focused |-> e.focused, inside |-> IF pressed /\ ~ e.was THEN n = at ELSE e.inside,
                  was |-> pressed]
    <3> HIDE DEF els, e
    <3> QED BY <2>1, <2>2 DEF HandleInput, Element, e
  <2> HIDE DEF els, e
  <2>4. e \in Element
    BY <2>1 DEF e
  <2> QED BY <2>3, <2>4 DEF Element, e
<1>4. DOMAIN all = DOMAIN m /\ all.els = els /\ all.order = m.order /\ all.focus = m.focus
  <2> HIDE DEF els
  <2> QED BY <1>1 DEF IsManager
<1>5. DOMAIN els = DOMAIN m.els
  OBVIOUS
<1> HIDE DEF els
<1>6. IsManager(all) /\ DOMAIN all.els = DOMAIN u.els /\ all.order = u.order
      /\ all.focus \in {u.focus, Nobody}
  <2>1. Nobody \notin DOMAIN m.els /\ DOMAIN m = {"els", "order", "focus", "focusDisabled", "at"}
        /\ \A n \in DOMAIN m.els : m.els[n].focused => m.focus = n
    BY <1>1 DEF IsManager
  <2>2. els \in [DOMAIN els -> Element]
    BY <1>3, <1>5 DEF els
  <2> HIDE DEF all
  <2> QED BY <1>1, <1>3, <1>4, <1>5, <2>1, <2>2 DEF IsManager
<1>7. \A n \in DOMAIN m.els : m.els[n].focused => m.els[n].state # "Pressed"
  BY <1>1 DEF Pressing
<1>8. \A n \in DOMAIN all.els : all.els[n].state = "Pressed" => n = at /\ pressed
  BY <1>3, <1>4, <1>5, <1>7
<1> HIDE DEF all
<1>9. CASE pressed
  <2>1. /\ IsManager(ClearFocus(all))
        /\ DOMAIN ClearFocus(all).els = DOMAIN all.els /\ ClearFocus(all).order = all.order
        /\ ClearFocus(all).focus = Nobody
        /\ \A n \in DOMAIN all.els :
              /\ ~ ClearFocus(all).els[n].focused
              /\ ClearFocus(all).els[n].state =
                   IF all.els[n].focused THEN "Normal" ELSE all.els[n].state
    BY <1>6, ClearFocusOK
  <2>2. Pressing(ClearFocus(all), at, pressed)
    BY <1>8, <1>9, <2>1 DEF Pressing
  <2> QED BY <1>2, <1>6, <1>9, <2>1, <2>2
<1>10. CASE ~ pressed
  <2>1. Pressing(all, at, pressed)
    BY <1>8, <1>10 DEF Pressing
  <2> QED BY <1>2, <1>6, <1>10, <2>1
<1> QED BY <1>9, <1>10

\* A callback is the one of the element the mouse was pressed on in the frame before.
LEMMA ReleasesThePressed ==
  ASSUME NEW u, NEW at, NEW pressed \in BOOLEAN, NEW was, NEW before,
         IsManager(u), Pressing(u, was, before), NEW n \in Releases(u, at, pressed)
  PROVE  before /\ n = was
<1> DEFINE m == OnMouseMovement(u, at)
<1>1. /\ DOMAIN m.els = DOMAIN u.els
      /\ \A k \in DOMAIN u.els : m.els[k].state = "Pressed" => u.els[k].state = "Pressed"
  BY MovementOK
<1>2. n \in DOMAIN m.els /\ m.els[n].state = "Pressed"
  BY DEF Releases, Released
<1> HIDE DEF m
<1> QED BY <1>1, <1>2 DEF Pressing

\* What gets the focus is not pressed any more.
LEMMA SetFocusOK ==
  ASSUME NEW u, NEW n, NEW at, NEW pressed, IsManager(u), Pressing(u, at, pressed)
  PROVE  /\ IsManager(SetFocus(u, n)) /\ Pressing(SetFocus(u, n), at, pressed)
         /\ DOMAIN SetFocus(u, n).els = DOMAIN u.els /\ SetFocus(u, n).order = u.order
         /\ SetFocus(u, n).focus = n
<1> DEFINE c == ClearFocus(u)
           e == SetFocused(c.els[n], TRUE)
           els == [c.els EXCEPT ![n] = e]
<1>1. /\ IsManager(c) /\ DOMAIN c.els = DOMAIN u.els /\ c.order = u.order
      /\ \A k \in DOMAIN u.els : /\ ~ c.els[k].focused
                                 /\ c.els[k].state = IF u.els[k].focused THEN "Normal" ELSE u.els[k].state
  BY ClearFocusOK
<1>2. SetFocus(u, n) = [c EXCEPT !.els[n] = e, !.focus = n]
  BY DEF SetFocus
<1> HIDE DEF c
<1>9. /\ DOMAIN c = {"els", "order", "focus", "focusDisabled", "at"}
      /\ c.els \in [DOMAIN c.els -> Element] /\ Nobody \notin DOMAIN c.els
  BY <1>1 DEF IsManager
<1>3. n \in DOMAIN c.els => e \in Element /\ e.state = "Focused"
  <2> SUFFICES ASSUME n \in DOMAIN c.els PROVE e \in Element /\ e.state = "Focused"
    OBVIOUS
  <2>1. c.els[n] \in Element /\ c.els[n].focused = FALSE
    BY <1>1, <1>9 DEF Element
  <2> DEFINE d == c.els[n]
  <2>2. d \in Element /\ d.focused = FALSE /\ e = SetFocused(d, TRUE)
    BY <2>1
  <2> HIDE DEF d, e
  <2> QED BY <2>2 DEF SetFocused, Element
<1> HIDE DEF e
<1>4. els \in [DOMAIN c.els -> Element] /\ DOMAIN els = DOMAIN c.els
  BY <1>9, <1>3
<1> DEFINE f == SetFocus(u, n)
<1>10. DOMAIN f = DOMAIN c /\ f.els = els /\ f.order = c.order /\ f.focus = n
  BY <1>2, <1>9
<1>6. \A k \in DOMAIN c.els : IF k = n THEN els[k].state = "Focused" ELSE els[k] = c.els[k]
  BY <1>9, <1>3
<1> HIDE DEF els
<1> HIDE DEF f
<1>7. IsManager(f)
  BY <1>1, <1>9, <1>4, <1>6, <1>10 DEF IsManager
<1>8. Pressing(f, at, pressed)
  BY <1>1, <1>4, <1>6, <1>10 DEF Pressing
<1> QED BY <1>1, <1>4, <1>7, <1>8, <1>10 DEF f

\* The keys move the focus among the elements of the order and press nothing.
LEMMA NavigationOK ==
  ASSUME NEW u, NEW action, NEW at, NEW pressed, NEW Names, IsManager(u), Pressing(u, at, pressed),
         u.order \in Seq(Names)
  PROVE  LET h == HandleNavigationInput(u, action)
         IN /\ IsManager(h) /\ Pressing(h, at, pressed)
            /\ DOMAIN h.els = DOMAIN u.els /\ h.order = u.order
            /\ h.focus = u.focus \/ h.focus \in Names
<1> DEFINE on == [u EXCEPT !.focusDisabled = FALSE]
<1>1. DOMAIN on = DOMAIN u /\ on.els = u.els /\ on.order = u.order /\ on.focus = u.focus
  BY DEF IsManager
<1> HIDE DEF on
<1>2. IsManager(on) /\ Pressing(on, at, pressed)
  BY <1>1 DEF IsManager, Pressing
<1>3. ASSUME NEW s \in SUBSET Focusable(on), s # {}
      PROVE  on.order[Min(s)] \in Names /\ on.order[Max(s)] \in Names
  <2>1. on.order \in Seq(Names) /\ DOMAIN on.order = 1 .. Len(on.order) /\ Len(on.order) \in Nat
    BY <1>1
  <2>2. s \in SUBSET (1 .. Len(on.order)) /\ s \in SUBSET Nat
    BY <2>1 DEF Focusable
  <2>3. IsFiniteSet(1 .. Len(on.order))
    BY <2>1, FS_Interval, 1 \in Int, Len(on.order) \in Int
  <2>4. IsFiniteSet(s)
    BY <2>2, <2>3, FS_Subset
  <2>5. Min(s) \in s /\ Max(s) \in s
    BY <1>3, <2>2, <2>4, NatHasMin, FiniteHasMax
  <2>6. \A i \in 1 .. Len(on.order) : on.order[i] \in Names
    BY <2>1
  <2> QED BY <2>2, <2>5, <2>6
<1> DEFINE h == HandleNavigationInput(u, action)
<1>4. h = on \/ \E n \in Names : h = SetFocus(on, n)
  <2>1. FocusPreviousElement(on) = on \/ \E n \in Names : FocusPreviousElement(on) = SetFocus(on, n)
    <3> DEFINE here == FocusIndex(on)
               from == IF here > 1 THEN here - 1 ELSE Len(on.order)
               before == {i \in Focusable(on) : i <= from}
               last == {i \in Focusable(on) : i > here}
    <3>1. FocusPreviousElement(on) =
            IF before # {} THEN SetFocus(on, on.order[Max(before)])
            ELSE IF last # {} THEN SetFocus(on, on.order[Max(last)]) ELSE on
      BY DEF FocusPreviousElement
    <3>2. before \in SUBSET Focusable(on) /\ last \in SUBSET Focusable(on)
      OBVIOUS
    <3> HIDE DEF before, last
    <3> QED BY <1>3, <3>1, <3>2
  <2>2. FocusNextElement(on) = on \/ \E n \in Names : FocusNextElement(on) = SetFocus(on, n)
    <3> DEFINE here == FocusIndex(on)
               next == {i \in Focusable(on) : i > here}
               first == {i \in Focusable(on) : i < here}
    <3>1. FocusNextElement(on) =
            IF next # {} THEN SetFocus(on, on.order[Min(next)])
            ELSE IF first # {} THEN SetFocus(on, on.order[Min(first)]) ELSE on
      BY DEF FocusNextElement
    <3>2. next \in SUBSET Focusable(on) /\ first \in SUBSET Focusable(on)
      OBVIOUS
    <3> HIDE DEF next, first
    <3> QED BY <1>3, <3>1, <3>2
  <2> QED BY <2>1, <2>2 DEF HandleNavigationInput, on
<1> HIDE DEF h
<1>5. CASE h = on
  BY <1>1, <1>2, <1>5 DEF h
<1>6. ASSUME NEW n \in Names, h = SetFocus(on, n)
      PROVE  /\ IsManager(h) /\ Pressing(h, at, pressed)
             /\ DOMAIN h.els = DOMAIN u.els /\ h.order = u.order /\ h.focus = n
  BY <1>1, <1>2, <1>6, SetFocusOK
<1> QED BY <1>4, <1>5, <1>6 DEF h

\* The greater and the smaller of two numbers.
LEMMA MaxOfTwo ==
  ASSUME NEW a \in Int, NEW b \in Int
  PROVE  /\ Max({a, b}) \in {a, b} /\ Max({a, b}) >= a /\ Max({a, b}) >= b
         /\ Min({a, b}) \in {a, b} /\ Min({a, b}) <= a /\ Min({a, b}) <= b
<1>1. \E x \in {a, b} : \A y \in {a, b} : x >= y
  OBVIOUS
<1>2. \E x \in {a, b} : \A y \in {a, b} : x <= y
  OBVIOUS
<1>3. Max({a, b}) \in {a, b} /\ \A y \in {a, b} : Max({a, b}) >= y
  BY <1>1 DEF Max
<1>4. Min({a, b}) \in {a, b} /\ \A y \in {a, b} : Min({a, b}) <= y
  BY <1>2 DEF Min
<1> QED BY <1>3, <1>4

-----------------------------------------------------------------------------
(* The replay screen, between the steps of a frame.                         *)

Fields == {"ui", "controls", "slider", "frames", "time", "total", "index", "speed", "playing",
           "paused", "switch", "cooldown", "seen", "popped"}

IsSlider(s) ==
  DOMAIN s = {"value", "max", "dragging", "was"} /\ s.value \in Nat /\ s.max \in Nat

IsViewer(w) ==
  /\ DOMAIN w = Fields
  /\ w.frames \in Seq(Nat \ {0})
  /\ w.time \in Nat /\ w.total \in Nat /\ w.speed \in Nat
  /\ IsSlider(w.slider)

\* The elements of the screen, and those of the player.
UiOK(w, at, pressed) ==
  /\ IsManager(w.ui) /\ Pressing(w.ui, at, pressed)
  /\ DOMAIN w.ui.els \subseteq Rows /\ w.ui.order \in Seq(Rows)
  /\ w.ui.focus \in Rows \cup {Nobody}
  /\ w.playing => DOMAIN w.ui.els = {} /\ w.ui.order = <<>> /\ w.ui.focus = Nobody

ControlsOK(w, at, pressed) == IsManager(w.controls) /\ Pressing(w.controls, at, pressed)

\* What is on show is what the time and the slider say.
Ready(w) ==
  w.frames # <<>> =>
    /\ w.controls.order = PlaybackControls
    /\ w.slider.max = w.total /\ w.slider.value = w.time /\ w.time <= w.total
    /\ w.index = LastFrame(w.frames, w.time)

\* A replay is chosen and not on show yet, or on show and not left yet.
Loaded(w) ==
  /\ (w.playing /\ ~ w.switch) \/ (~ w.playing /\ w.switch) => Ready(w)
  /\ ~ w.playing /\ ~ w.switch => w.controls = NoControls

\* While the keys and the time move on.
Moving(w) ==
  w.frames # <<>> /\ ~ w.switch =>
    /\ w.controls.order = PlaybackControls
    /\ w.slider.max = w.total /\ w.time <= w.total
    /\ w.slider.value = w.time => w.index = LastFrame(w.frames, w.time)

ScreenInv(w, at, pressed) ==
  /\ IsViewer(w) /\ UiOK(w, at, pressed) /\ Loaded(w)
  /\ ~ w.playing => ~ w.switch

ViewerInv ==
  screen = "replays" =>
    ScreenInv(v, mouse.at, mouse.pressed) /\ ControlsOK(v, mouse.at, mouse.pressed)

\* The player's buttons, new or not there.
LEMMA NewControlsOK ==
  ASSUME ReplaysInv, NEW at, NEW pressed
  PROVE  /\ IsManager(NewManager(PlaybackControls))
         /\ Pressing(NewManager(PlaybackControls), at, pressed)
         /\ IsManager(NoControls) /\ Pressing(NoControls, at, pressed)
         /\ NewManager(PlaybackControls).order = PlaybackControls
         /\ NoControls.order = <<>> /\ PlaybackControls # <<>>
<1>1. Nobody \notin Range(PlaybackControls)
  BY NobodyIsNoPlace DEF Buttons
<1>2. Nobody \notin Range(<<>>)
  BY DEF Range
<1>3. PlaybackControls # <<>>
  BY DEF PlaybackControls
<1>4. NewManager(PlaybackControls).order = PlaybackControls /\ NoControls.order = <<>>
  BY DEF NewManager, NoControls
<1> QED BY <1>1, <1>2, <1>3, <1>4, NewManagerOK DEF NoControls

\* A replay that is chosen is ready to be shown.
LEMMA LoadOK ==
  ASSUME ReplaysInv, NEW w, NEW n \in DOMAIN replays, NEW at, NEW pressed, IsViewer(w),
         ControlsOK(w, at, pressed)
  PROVE  LET r == LoadReplay(w, n)
         IN /\ IsViewer(r) /\ ControlsOK(r, at, pressed) /\ Ready(r)
            /\ r.ui = w.ui /\ r.playing = w.playing /\ r.switch = TRUE
<1> DEFINE frames == replays[n].frames
           total == IF frames = <<>> THEN 0 ELSE frames[Len(frames)]
           read == [w EXCEPT !.switch = TRUE, !.frames = frames, !.total = total]
           r == LoadReplay(w, n)
<1>1. r = IF frames = <<>> THEN read
          ELSE [read EXCEPT !.time = 0, !.index = 1, !.paused = FALSE,
                            !.controls = NewManager(PlaybackControls), !.slider = NewSlider(total)]
  BY DEF LoadReplay
<1>2. frames \in Seq(Nat \ {0})
  BY KeptFiles DEF ReplaysInv, Replay
<1>3. total \in Nat
  <2> HIDE DEF frames
  <2> QED BY <1>2
<1>4. DOMAIN w = Fields
  BY DEF IsViewer
<1> HIDE DEF frames, total, r
<1>5. /\ DOMAIN read = Fields /\ read.frames = frames /\ read.total = total /\ read.time = w.time
      /\ read.speed = w.speed /\ read.slider = w.slider /\ read.controls = w.controls
      /\ read.ui = w.ui /\ read.playing = w.playing /\ read.switch = TRUE
  BY <1>4 DEF Fields
<1> HIDE DEF read
<1>6. CASE frames = <<>>
  BY <1>1, <1>2, <1>3, <1>5, <1>6 DEF IsViewer, ControlsOK, Ready, r
<1>7. CASE frames # <<>>
  <2>1. /\ DOMAIN r = Fields /\ r.frames = frames /\ r.total = total /\ r.time = 0
        /\ r.speed = w.speed /\ r.slider = NewSlider(total) /\ r.index = 1
        /\ r.controls = NewManager(PlaybackControls)
        /\ r.ui = w.ui /\ r.playing = w.playing /\ r.switch = TRUE
    BY <1>1, <1>5, <1>7 DEF Fields
  <2>2. IsSlider(r.slider) /\ r.slider.value = 0 /\ r.slider.max = total
    BY <1>3, <2>1 DEF IsSlider, NewSlider
  <2>3. LastFrame(frames, 0) = 1
    <3>1. {i \in DOMAIN frames : frames[i] <= 0} = {}
      BY <1>2
    <3>2. Max({1}) = 1
      BY DEF Max
    <3> QED BY <3>1, <3>2 DEF LastFrame
  <2>4. IsViewer(r)
    BY <1>2, <1>3, <2>1, <2>2 DEF IsViewer
  <2>5. ControlsOK(r, at, pressed) /\ r.controls.order = PlaybackControls
    BY <2>1, NewControlsOK DEF ControlsOK
  <2>6. Ready(r)
    BY <1>3, <2>1, <2>2, <2>3, <2>5 DEF Ready
  <2> QED BY <2>1, <2>4, <2>5, <2>6 DEF r
<1> QED BY <1>6, <1>7

-----------------------------------------------------------------------------
(* The list of replays: the mouse, the keys and the switch to the player.    *)

\* Two viewers that show the same.
Alike(a, b) ==
  /\ DOMAIN a = Fields
  /\ a.frames = b.frames /\ a.time = b.time /\ a.total = b.total /\ a.index = b.index
  /\ a.speed = b.speed /\ a.slider = b.slider /\ a.controls = b.controls
  /\ a.playing = b.playing /\ a.switch = b.switch

\* What holds of a viewer holds of one that shows the same.
LEMMA AlikeOK ==
  ASSUME NEW a, NEW b, NEW at, NEW pressed, Alike(a, b), IsViewer(b), Loaded(b),
         ControlsOK(b, at, pressed)
  PROVE  IsViewer(a) /\ Loaded(a) /\ ControlsOK(a, at, pressed)
BY DEF Alike, IsViewer, Loaded, Ready, ControlsOK

\* A click or a selection in the list goes back or loads a replay.
LEMMA ChosenOK ==
  ASSUME ReplaysInv, NEW w, NEW names \in SUBSET Rows, NEW at, NEW pressed, NEW was, NEW before,
         IsViewer(w), UiOK(w, at, pressed), ControlsOK(w, was, before), Loaded(w),
         w.playing => names = {}
  PROVE  LET c == Chosen(w, names)
         IN /\ IsViewer(c) /\ UiOK(c, at, pressed) /\ ControlsOK(c, was, before) /\ Loaded(c)
<1>1. CASE names = {}
  BY <1>1 DEF Chosen
<1>2. CASE names # {}
  <2> DEFINE n == CHOOSE m \in names : TRUE
             c == Chosen(w, names)
  <2>1. n \in Rows
    BY <1>2
  <2>2. c = IF n = Button("back") THEN [w EXCEPT !.popped = TRUE] ELSE LoadReplay(w, n[2])
    BY <1>2 DEF Chosen
  <2> HIDE DEF n, c
  <2>3. CASE n = Button("back")
    <3>1. Alike(c, w) /\ c.ui = w.ui
      BY <2>2, <2>3 DEF IsViewer, Fields, Alike
    <3>2. UiOK(c, at, pressed)
      BY <3>1 DEF UiOK, Alike
    <3> QED BY <3>1, <3>2, AlikeOK DEF c
  <2>4. CASE n # Button("back")
    <3>1. PICK k \in DOMAIN replays : n = <<"replay", k>>
      BY <2>1, <2>4 DEF Rows
    <3>2. c = LoadReplay(w, k)
      BY <2>2, <2>4, <3>1
    <3>3. /\ IsViewer(c) /\ ControlsOK(c, was, before) /\ Ready(c)
          /\ c.ui = w.ui /\ c.playing = w.playing /\ c.switch = TRUE
      BY <3>2, LoadOK
    <3>4. UiOK(c, at, pressed) /\ Loaded(c)
      BY <3>3 DEF UiOK, Loaded
    <3> QED BY <3>3, <3>4 DEF c
  <2> QED BY <2>3, <2>4
<1> QED BY <1>1, <1>2

\* The mouse over the list.
LEMMA MouseKeeps ==
  ASSUME ReplaysInv, NEW w, NEW at, NEW pressed \in BOOLEAN, NEW was, NEW before,
         IsViewer(w), UiOK(w, was, before), ControlsOK(w, was, before), Loaded(w)
  PROVE  LET c == Mouse(w, at, pressed)
         IN /\ IsViewer(c) /\ UiOK(c, at, pressed) /\ ControlsOK(c, was, before) /\ Loaded(c)
<1> DEFINE u == HandleMouseInput(w.ui, at, pressed)
           names == Releases(w.ui, at, pressed)
           m == [w EXCEPT !.ui = u]
<1>1. /\ IsManager(u) /\ Pressing(u, at, pressed)
      /\ DOMAIN u.els = DOMAIN w.ui.els /\ u.order = w.ui.order /\ u.focus \in {w.ui.focus, Nobody}
  BY MouseOK DEF UiOK
<1>2. names \subseteq DOMAIN w.ui.els
  <2>1. DOMAIN OnMouseMovement(w.ui, at).els = DOMAIN w.ui.els
    BY MovementOK DEF UiOK
  <2> QED BY <2>1 DEF Releases
<1>3. Mouse(w, at, pressed) = Chosen(m, names)
  BY DEF Mouse
<1> HIDE DEF u, names
<1>4. Alike(m, w) /\ m.ui = u
  BY DEF IsViewer, Fields, Alike
<1> HIDE DEF m
<1>5. UiOK(m, at, pressed)
  BY <1>1, <1>4 DEF UiOK, Alike
<1>6. IsViewer(m) /\ Loaded(m) /\ ControlsOK(m, was, before)
  BY <1>4, AlikeOK
<1>7. names \in SUBSET Rows /\ (m.playing => names = {})
  BY <1>2, <1>4 DEF UiOK, Alike
<1> QED BY <1>3, <1>5, <1>6, <1>7, ChosenOK

\* The keys in the list; in the player there is nothing for them to move to.
LEMMA NavigateKeeps ==
  ASSUME ReplaysInv, NEW w, NEW key, NEW at, NEW pressed, NEW was, NEW before,
         IsViewer(w), UiOK(w, at, pressed), ControlsOK(w, was, before), Loaded(w)
  PROVE  LET c == Navigate(w, key)
         IN /\ IsViewer(c) /\ UiOK(c, at, pressed) /\ ControlsOK(c, was, before) /\ Loaded(c)
<1> DEFINE action == ActionOf(key) \ w.seen
           a == CHOOSE x \in action : TRUE
           c == Navigate(w, key)
           left == [w EXCEPT !.seen = @ \cup action, !.popped = @ \/ ~ w.playing]
           down == [w EXCEPT !.seen = ActionOf(key)]
           u == HandleNavigationInput(w.ui, a)
           names == Activates(w.ui, a)
           moved == [down EXCEPT !.ui = u]
<1>1. c = IF action = {"escape"} THEN left
          ELSE IF action = {} THEN down
          ELSE Chosen([down EXCEPT !.ui = HandleNavigationInput(down.ui, a)], Activates(down.ui, a))
  <2>1. DOMAIN w = Fields
    BY DEF IsViewer
  <2>2. down.ui = w.ui
    BY <2>1 DEF Fields
  <2> QED BY <2>2 DEF Navigate
<1> HIDE DEF action, a, c
<1>2. Alike(left, w) /\ left.ui = w.ui
  BY DEF IsViewer, Fields, Alike
<1>3. Alike(down, w) /\ down.ui = w.ui
  BY DEF IsViewer, Fields, Alike
<1> HIDE DEF left, down
<1>4. ASSUME NEW s, Alike(s, w), s.ui = w.ui
      PROVE  IsViewer(s) /\ UiOK(s, at, pressed) /\ ControlsOK(s, was, before) /\ Loaded(s)
  <2>1. UiOK(s, at, pressed)
    BY <1>4 DEF UiOK, Alike
  <2> QED BY <1>4, <2>1, AlikeOK
<1>5. /\ IsManager(u) /\ Pressing(u, at, pressed)
      /\ DOMAIN u.els = DOMAIN w.ui.els /\ u.order = w.ui.order
      /\ u.focus \in Rows \cup {Nobody}
      /\ w.playing => u.focus = Nobody
  <2>1. w.ui.order \in Seq(Rows) /\ w.ui.focus \in Rows \cup {Nobody} /\ IsManager(w.ui)
        /\ Pressing(w.ui, at, pressed)
        /\ (w.playing => w.ui.order = <<>> /\ w.ui.focus = Nobody)
    BY DEF UiOK
  <2>2. \A Names : w.ui.order \in Seq(Names) =>
          /\ IsManager(u) /\ Pressing(u, at, pressed)
          /\ DOMAIN u.els = DOMAIN w.ui.els /\ u.order = w.ui.order
          /\ u.focus = w.ui.focus \/ u.focus \in Names
    BY <2>1, NavigationOK
  <2>3. w.playing => w.ui.order \in Seq({})
    BY <2>1
  <2> HIDE DEF u
  <2>4. w.playing => u.focus = Nobody
    BY <2>1, <2>2, <2>3
  <2> QED BY <2>1, <2>2, <2>4
<1>6. names \in SUBSET Rows /\ (w.playing => names = {})
  BY DEF Activates, UiOK
<1> HIDE DEF u, names
<1>7. Alike(moved, w) /\ moved.ui = u
  BY <1>3 DEF Alike, Fields
<1> HIDE DEF moved
<1>8. UiOK(moved, at, pressed)
  BY <1>5, <1>7 DEF UiOK, Alike
<1>9. IsViewer(moved) /\ ControlsOK(moved, was, before) /\ Loaded(moved) /\ moved.playing = w.playing
  BY <1>7, AlikeOK DEF Alike
<1>10. /\ IsViewer(Chosen(moved, names)) /\ UiOK(Chosen(moved, names), at, pressed)
       /\ ControlsOK(Chosen(moved, names), was, before) /\ Loaded(Chosen(moved, names))
  BY <1>6, <1>8, <1>9, ChosenOK
<1>11. c \in {left, down, Chosen(moved, names)}
  BY <1>1, <1>3 DEF moved, u, names
<1> QED BY <1>2, <1>3, <1>4, <1>10, <1>11 DEF c

\* The player's screen has no element of its own.
LEMMA ClearElementsOK ==
  ASSUME NEW u, NEW at, NEW pressed, IsManager(u)
  PROVE  LET e == ClearElements(u)
         IN /\ IsManager(e) /\ Pressing(e, at, pressed)
            /\ DOMAIN e.els = {} /\ e.order = <<>> /\ e.focus = Nobody
<1> DEFINE none == [n \in {} |-> NewElement]
           e == ClearElements(u)
<1>1. DOMAIN none = {} /\ none \in [{} -> Element]
  OBVIOUS
<1> HIDE DEF none
<1>2. DOMAIN e = DOMAIN u /\ e.els = none /\ e.order = <<>> /\ e.focus = Nobody
  BY DEF ClearElements, IsManager, none
<1> HIDE DEF e
<1>3. IsManager(e)
  BY <1>1, <1>2 DEF IsManager
<1>4. Pressing(e, at, pressed)
  BY <1>1, <1>2 DEF Pressing
<1> QED BY <1>1, <1>2, <1>3, <1>4 DEF e

\* The list is a manager of its rows.
LEMMA SelectionOK ==
  ASSUME ReplaysInv, NEW at, NEW pressed
  PROVE  LET s == SelectionManager
         IN /\ IsManager(s) /\ Pressing(s, at, pressed)
            /\ DOMAIN s.els \subseteq Rows /\ s.order \in Seq(Rows) /\ s.focus = Nobody
<1>1. /\ SelectionManager = NewManager(SelectionManager.order)
      /\ Nobody \notin Range(SelectionManager.order)
      /\ SelectionManager.order \in Seq(Rows)
  BY ListOfReplays
<1> DEFINE order == SelectionManager.order
<1>2. IsManager(NewManager(order)) /\ Pressing(NewManager(order), at, pressed)
  BY <1>1, NewManagerOK
<1>3. DOMAIN NewManager(order).els = Range(order) /\ NewManager(order).focus = Nobody
      /\ NewManager(order).order = order
  BY DEF NewManager
<1>4. Range(order) \subseteq Rows
  <2> HIDE DEF order
  <2>1. order \in Seq(Rows)
    BY <1>1 DEF order
  <2> QED BY <2>1 DEF Range
<1> HIDE DEF order
<1> QED BY <1>1, <1>2, <1>3, <1>4 DEF order

\* After the switch either a replay that is ready is on show or there are no controls.
LEMMA SwitchOK ==
  ASSUME ReplaysInv, NEW w, NEW at, NEW pressed, NEW was, NEW before,
         IsViewer(w), UiOK(w, at, pressed), ControlsOK(w, was, before), Loaded(w)
  PROVE  LET s == Switch(w)
         IN /\ IsViewer(s) /\ UiOK(s, at, pressed) /\ ControlsOK(s, was, before)
            /\ ~ s.switch /\ (s.playing => Ready(s)) /\ (~ s.playing => s.controls = NoControls)
<1> DEFINE s == Switch(w)
<1>1. DOMAIN w = Fields
  BY DEF IsViewer
<1>2. CASE ~ w.switch
  <2>1. s = w
    BY <1>2 DEF Switch
  <2> QED BY <1>2, <2>1 DEF Loaded
<1>3. CASE w.switch /\ ~ w.playing
  <2> DEFINE u == ClearElements(w.ui)
  <2>1. /\ IsManager(u) /\ Pressing(u, at, pressed)
        /\ DOMAIN u.els = {} /\ u.order = <<>> /\ u.focus = Nobody
    BY ClearElementsOK DEF UiOK
  <2>2. s = [w EXCEPT !.switch = FALSE, !.playing = TRUE, !.ui = u]
    BY <1>3 DEF Switch
  <2> HIDE DEF u, s
  <2>3. /\ DOMAIN s = Fields /\ s.switch = FALSE /\ s.playing = TRUE /\ s.ui = u
        /\ s.frames = w.frames /\ s.time = w.time /\ s.total = w.total /\ s.index = w.index
        /\ s.speed = w.speed /\ s.slider = w.slider /\ s.controls = w.controls
    BY <1>1, <2>2 DEF Fields
  <2>4. IsViewer(s) /\ ControlsOK(s, was, before)
    BY <2>3 DEF IsViewer, ControlsOK
  <2>5. UiOK(s, at, pressed)
    <3>1. u.order \in Seq(Rows) /\ DOMAIN u.els \subseteq Rows /\ u.focus \in Rows \cup {Nobody}
      BY <2>1
    <3> QED BY <2>1, <2>3, <3>1 DEF UiOK
  <2>6. Ready(s)
    BY <1>3, <2>3 DEF Loaded, Ready
  <2> QED BY <2>3, <2>4, <2>5, <2>6 DEF s
<1>4. CASE w.switch /\ w.playing
  <2> DEFINE l == SelectionManager
             u == [l EXCEPT !.at = w.ui.at, !.focusDisabled = w.ui.focusDisabled]
  <2>1. /\ IsManager(l) /\ Pressing(l, at, pressed)
        /\ DOMAIN l.els \subseteq Rows /\ l.order \in Seq(Rows) /\ l.focus = Nobody
    BY SelectionOK
  <2>2. s = [w EXCEPT !.switch = FALSE, !.playing = FALSE, !.controls = NoControls,
                      !.slider = NewSlider(0), !.ui = u]
    BY <1>4 DEF Switch
  <2> HIDE DEF l
  <2>3. DOMAIN u = DOMAIN l /\ u.els = l.els /\ u.order = l.order /\ u.focus = l.focus
    BY <2>1 DEF IsManager
  <2> HIDE DEF u, s
  <2>4. /\ DOMAIN s = Fields /\ s.switch = FALSE /\ s.playing = FALSE /\ s.ui = u
        /\ s.frames = w.frames /\ s.time = w.time /\ s.total = w.total
        /\ s.speed = w.speed /\ s.slider = NewSlider(0) /\ s.controls = NoControls
    BY <1>1, <2>2 DEF Fields
  <2>5. IsManager(u) /\ Pressing(u, at, pressed)
    BY <2>1, <2>3 DEF IsManager, Pressing
  <2>6. UiOK(s, at, pressed)
    BY <2>1, <2>3, <2>4, <2>5 DEF UiOK
  <2>7. IsSlider(NewSlider(0))
    BY DEF IsSlider, NewSlider
  <2>8. IsViewer(s) /\ ControlsOK(s, was, before)
    BY <2>4, <2>7, NewControlsOK DEF IsViewer, ControlsOK
  <2> QED BY <2>4, <2>6, <2>8 DEF s
<1> QED BY <1>2, <1>3, <1>4

-----------------------------------------------------------------------------
(* The player.                                                              *)

\* What a step of the player leaves alone.
Shown(a, b) ==
  /\ DOMAIN a = Fields
  /\ a.ui = b.ui /\ a.frames = b.frames /\ a.total = b.total /\ a.playing = b.playing

\* The assumption on the speeds, for the solver.
LEMMA SpeedIsNat == {Slow, Normal, Fast, SeekStep, SliderParts} \subseteq Nat \ {0}
BY ReplayConstants

\* The keys move the time within the replay, without the frame and the slider.
LEMMA KeyboardOK ==
  ASSUME NEW w, NEW key, IsViewer(w), ~ w.switch, Ready(w)
  PROVE  LET k == Keyboard(w, key)
         IN IsViewer(k) /\ Shown(k, w) /\ k.controls = w.controls /\ Moving(k)
<1> DEFINE k == Keyboard(w, key)
           cool == [w EXCEPT !.cooldown = IF @ > 0 THEN @ - 1 ELSE 0]
           back == IF cool.time < SeekStep THEN 0 ELSE cool.time - SeekStep
           on == Min({cool.total, cool.time + SeekStep})
           faster == Min({Fast, cool.speed + 1})
           slower == Max({Slow, cool.speed - 1})
<1>1. \/ k = cool
      \/ k = [cool EXCEPT !.paused = ~ @, !.cooldown = Cooldown]
      \/ k = [cool EXCEPT !.switch = TRUE, !.paused = FALSE, !.cooldown = Cooldown]
      \/ k = [cool EXCEPT !.time = IF @ < SeekStep THEN 0 ELSE @ - SeekStep]
      \/ k = [cool EXCEPT !.time = Min({cool.total, @ + SeekStep})]
      \/ k = [cool EXCEPT !.speed = Min({Fast, @ + 1}), !.cooldown = Cooldown]
      \/ k = [cool EXCEPT !.speed = Max({Slow, @ - 1}), !.cooldown = Cooldown]
  BY DEF Keyboard
<1>2. /\ DOMAIN w = Fields /\ w.time \in Nat /\ w.total \in Nat /\ w.speed \in Nat
      /\ w.frames \in Seq(Nat \ {0}) /\ IsSlider(w.slider)
  BY DEF IsViewer
<1> HIDE DEF k
<1>3. /\ Shown(cool, w) /\ cool.controls = w.controls /\ cool.slider = w.slider
      /\ cool.index = w.index /\ cool.time = w.time /\ cool.speed = w.speed /\ cool.switch = w.switch
  BY <1>2 DEF Shown, Fields
<1> HIDE DEF cool
<1>4. back \in Nat /\ back <= cool.time
  BY <1>2, <1>3, SpeedIsNat
<1>5. on \in Nat /\ on <= cool.total
  <2>1. cool.total \in Nat /\ cool.time + SeekStep \in Nat
    BY <1>2, <1>3, SpeedIsNat DEF Shown
  <2>2. on \in {cool.total, cool.time + SeekStep} /\ on <= cool.total
    <3>1. cool.total \in Int /\ cool.time + SeekStep \in Int
      BY <2>1
    <3> HIDE DEF on
    <3> QED BY <3>1, MaxOfTwo DEF on
  <2> QED BY <2>1, <2>2
<1>6. faster \in Nat /\ slower \in Nat
  <2>1. Fast \in Nat /\ Slow \in Nat /\ cool.speed \in Nat
    BY <1>2, <1>3, SpeedIsNat
  <2>2. Fast \in Int /\ Slow \in Int /\ cool.speed + 1 \in Int /\ cool.speed - 1 \in Int
    BY <2>1
  <2>3. faster \in {Fast, cool.speed + 1}
    BY <2>2, MaxOfTwo
  <2>4. slower \in {Slow, cool.speed - 1} /\ slower >= Slow
    BY <2>2, MaxOfTwo
  <2> HIDE DEF faster, slower
  <2> QED BY <2>1, <2>3, <2>4
<1>7. /\ Shown(k, w) /\ k.controls = w.controls /\ k.slider = w.slider /\ k.index = w.index
      /\ k.time \in {w.time, back, on} /\ k.speed \in {w.speed, faster, slower}
  <2>1. DOMAIN cool = Fields
    BY <1>3 DEF Shown
  <2> HIDE DEF back, on, faster, slower
  <2>2. /\ DOMAIN k = Fields /\ k.ui = cool.ui /\ k.frames = cool.frames /\ k.total = cool.total
        /\ k.playing = cool.playing /\ k.controls = cool.controls /\ k.slider = cool.slider
        /\ k.index = cool.index
        /\ k.time \in {cool.time, back, on} /\ k.speed \in {cool.speed, faster, slower}
    BY <1>1, <2>1 DEF Fields, back, on, faster, slower
  <2> QED BY <1>3, <2>2 DEF Shown
<1> HIDE DEF back, on, faster, slower
<1>8. k.time \in Nat /\ (w.time <= w.total => k.time <= w.total)
  BY <1>2, <1>3, <1>4, <1>5, <1>7 DEF Shown
<1>9. IsViewer(k)
  BY <1>2, <1>6, <1>7, <1>8 DEF IsViewer, Shown
<1>10. Moving(k)
  BY <1>2, <1>7, <1>8 DEF Moving, Ready, Shown
<1> QED BY <1>7, <1>9, <1>10 DEF k

\* Time that passes takes the frame along, unless the end is reached.
LEMMA PlayOK ==
  ASSUME NEW w, IsViewer(w), Moving(w)
  PROVE  LET p == PlayReplay(w)
         IN IsViewer(p) /\ Shown(p, w) /\ p.controls = w.controls /\ Moving(p)
<1> DEFINE t == w.time + w.speed
           end == t >= w.total
           p == PlayReplay(w)
<1>1. /\ DOMAIN w = Fields /\ w.time \in Nat /\ w.total \in Nat /\ w.speed \in Nat
      /\ w.frames \in Seq(Nat \ {0}) /\ IsSlider(w.slider)
  BY DEF IsViewer
<1>2. CASE w.frames = <<>>
  <2>1. p = w
    BY <1>2 DEF PlayReplay
  <2> QED BY <1>1, <2>1 DEF Shown
<1>3. CASE w.frames # <<>>
  <2>1. p = [w EXCEPT !.time = t,
                      !.index = IF end THEN Len(w.frames) ELSE LastFrame(w.frames, t),
                      !.switch = @ \/ end, !.paused = @ /\ ~ end]
    BY <1>3 DEF PlayReplay
  <2>2. t \in Nat
    BY <1>1
  <2> HIDE DEF p, t
  <2>3. /\ Shown(p, w) /\ p.controls = w.controls /\ p.slider = w.slider /\ p.time = t
        /\ p.speed = w.speed
        /\ p.index = IF end THEN Len(w.frames) ELSE LastFrame(w.frames, t)
        /\ ~ p.switch => ~ w.switch /\ ~ end
    BY <1>1, <2>1 DEF Shown, Fields
  <2>4. IsViewer(p)
    BY <1>1, <2>2, <2>3 DEF IsViewer, Shown
  <2>5. Moving(p)
    BY <1>1, <2>2, <2>3 DEF Moving, Shown
  <2> QED BY <2>3, <2>4, <2>5 DEF p
<1> QED BY <1>2, <1>3

\* A slider's value is within its bounds, and the one it is set to if that is.
LEMMA SetValueOK ==
  ASSUME NEW s, IsSlider(s), NEW x \in Int
  PROVE  /\ IsSlider(SetValue(s, x)) /\ SetValue(s, x).max = s.max
         /\ SetValue(s, x).value <= s.max
         /\ x \in 0 .. s.max => SetValue(s, x).value = x
<1> DEFINE c == Clamp(x, s.max)
<1>1. c \in 0 .. s.max /\ (x \in 0 .. s.max => c = x)
  BY DEF Clamp, IsSlider
<1>2. SetValue(s, x) = [s EXCEPT !.value = c]
  BY DEF SetValue
<1> HIDE DEF c
<1> QED BY <1>1, <1>2 DEF IsSlider

\* So is the one the mouse drags it to.
LEMMA DragOK ==
  ASSUME NEW s, IsSlider(s), NEW over, NEW x \in Int, NEW pressed
  PROVE  LET d == Drag(s, over, x, SliderParts, pressed)
         IN IsSlider(d) /\ d.max = s.max /\ (d.value = s.value \/ d.value <= s.max)
<1> DEFINE dragging == IF ~ pressed THEN FALSE ELSE IF ~ s.was /\ over THEN TRUE ELSE s.dragging
           held == [s EXCEPT !.dragging = dragging, !.was = pressed]
           there == (s.max * Clamp(x, SliderParts)) \div SliderParts
<1>1. Drag(s, over, x, SliderParts, pressed) = IF dragging THEN SetValue(held, there) ELSE held
  BY DEF Drag
<1> HIDE DEF dragging
<1>2. IsSlider(held) /\ held.value = s.value /\ held.max = s.max
  BY DEF IsSlider
<1>3. there \in Int
  <2>1. SliderParts \in Nat \ {0} /\ s.max \in Int
    BY SpeedIsNat DEF IsSlider
  <2>2. Clamp(x, SliderParts) \in Int
    BY <2>1 DEF Clamp
  <2>3. s.max * Clamp(x, SliderParts) \in Int
    BY <2>1, <2>2
  <2> QED BY <2>1, <2>3
<1> HIDE DEF held, there
<1>4. IsSlider(SetValue(held, there)) /\ SetValue(held, there).max = s.max
      /\ SetValue(held, there).value <= s.max
  BY <1>2, <1>3, SetValueOK
<1> QED BY <1>1, <1>2, <1>4

\* A change of the slider's value takes the time and the frame along.
LEMMA SeekOK ==
  ASSUME NEW w, IsViewer(w), NEW s, IsSlider(s)
  PROVE  LET k == Seek(w, s)
         IN /\ IsViewer(k) /\ Shown(k, w) /\ k.controls = w.controls /\ k.slider = s
            /\ k.switch = w.switch
            /\ IF s.value = w.slider.value THEN k.time = w.time /\ k.index = w.index
               ELSE k.time = s.value /\ k.index = LastFrame(w.frames, s.value)
<1> DEFINE k == Seek(w, s)
<1>1. s.value \in Nat /\ DOMAIN w = Fields
  BY DEF IsSlider, IsViewer
<1>2. CASE s.value = w.slider.value
  <2>1. k = [w EXCEPT !.slider = s]
    BY <1>2 DEF Seek
  <2> HIDE DEF k
  <2>2. /\ Shown(k, w) /\ k.controls = w.controls /\ k.slider = s /\ k.switch = w.switch
        /\ k.time = w.time /\ k.index = w.index /\ k.speed = w.speed
    BY <1>1, <2>1 DEF Shown, Fields
  <2>3. IsViewer(k)
    BY <2>2 DEF IsViewer, Shown
  <2> QED BY <1>2, <2>2, <2>3 DEF k
<1>3. CASE s.value # w.slider.value
  <2> DEFINE f == LastFrame(w.frames, s.value)
  <2>1. k = [w EXCEPT !.slider = s, !.time = s.value, !.index = f]
    BY <1>3 DEF Seek
  <2> HIDE DEF k, f
  <2>2. /\ Shown(k, w) /\ k.controls = w.controls /\ k.slider = s /\ k.switch = w.switch
        /\ k.time = s.value /\ k.index = f /\ k.speed = w.speed
    BY <1>1, <2>1 DEF Shown, Fields
  <2>3. IsViewer(k)
    BY <1>1, <2>2 DEF IsViewer, Shown
  <2> QED BY <1>3, <2>2, <2>3 DEF k, f
<1> QED BY <1>2, <1>3

\* The buttons touch neither the time nor the frame.
LEMMA ClickOK ==
  ASSUME NEW w, IsViewer(w), NEW names
  PROVE  LET k == ControlClicked(w, names)
         IN /\ IsViewer(k) /\ Shown(k, w) /\ k.controls = w.controls
            /\ ~ k.switch => ~ w.switch
            /\ k.slider = w.slider /\ k.time = w.time /\ k.index = w.index
<1> DEFINE slower == Max({Slow, w.speed - 1})
           faster == Min({Fast, w.speed + 1})
           k == ControlClicked(w, names)
<1>1. DOMAIN w = Fields /\ w.speed \in Nat
  BY DEF IsViewer
<1>2. \/ k = w
      \/ k = [w EXCEPT !.switch = TRUE, !.paused = FALSE]
      \/ k = [w EXCEPT !.paused = ~ @]
      \/ k = [w EXCEPT !.speed = slower]
      \/ k = [w EXCEPT !.speed = faster]
  BY DEF ControlClicked
<1>3. faster \in Nat /\ slower \in Nat
  <2>1. Fast \in Nat /\ Slow \in Nat
    BY SpeedIsNat
  <2>2. Fast \in Int /\ Slow \in Int /\ w.speed + 1 \in Int /\ w.speed - 1 \in Int
    BY <1>1, <2>1
  <2>3. faster \in {Fast, w.speed + 1}
    BY <2>2, MaxOfTwo
  <2>4. slower \in {Slow, w.speed - 1} /\ slower >= Slow
    BY <2>2, MaxOfTwo
  <2> HIDE DEF faster, slower
  <2> QED BY <1>1, <2>1, <2>3, <2>4
<1> HIDE DEF k, faster, slower
<1>4. /\ Shown(k, w) /\ k.controls = w.controls /\ k.slider = w.slider /\ k.time = w.time
      /\ k.index = w.index /\ (~ k.switch => ~ w.switch) /\ k.speed \in {w.speed, slower, faster}
  BY <1>1, <1>2 DEF Shown, Fields
<1>5. IsViewer(k)
  BY <1>3, <1>4 DEF IsViewer, Shown
<1> QED BY <1>4, <1>5 DEF k

\* A place on the track is a number.
LEMMA TrackIsInt == ASSUME NEW at PROVE PlaceOnTrack(at) \in Int
<1>1. at \in Sliders => at[2] \in Int
  BY DEF Sliders
<1>2. SliderParts \in Int
  BY SpeedIsNat
<1> QED BY <1>1, <1>2 DEF PlaceOnTrack

\* The slider follows the time, and then the frame and the time follow the slider.
LEMMA ControlsKeep ==
  ASSUME ReplaysInv, NEW w, NEW at, NEW pressed \in BOOLEAN, NEW was, NEW before,
         IsViewer(w), ControlsOK(w, was, before), Moving(w)
  PROVE  LET c == Controls(w, at, pressed)
         IN /\ IsViewer(c) /\ Shown(c, w) /\ ControlsOK(c, at, pressed)
            /\ ~ c.switch => Ready(c)
<1> DEFINE c == Controls(w, at, pressed)
<1>1. CASE w.controls = NoControls
  <2>1. c = w
    BY <1>1 DEF Controls
  <2>2. w.controls.order # PlaybackControls
    BY <1>1, NewControlsOK
  <2>3. ControlsOK(c, at, pressed)
    BY <1>1, <2>1, NewControlsOK DEF ControlsOK
  <2>4. ~ c.switch => Ready(c)
    BY <2>1, <2>2 DEF Moving, Ready
  <2>5. Shown(c, w)
    BY <2>1 DEF Shown, IsViewer
  <2> QED BY <2>1, <2>3, <2>4, <2>5
<1>2. CASE w.controls # NoControls
  <2> DEFINE first == SetValue(w.slider, w.time)
             shown == Seek(w, first)
             second == Drag(shown.slider, at \in Sliders, PlaceOnTrack(at), SliderParts, pressed)
             dragged == Seek(shown, second)
             m == HandleMouseInput(w.controls, at, pressed)
             held == [dragged EXCEPT !.controls = m]
             names == Releases(w.controls, at, pressed)
  <2>1. c = ControlClicked(held, names)
    BY <1>2 DEF Controls
  <2>2. /\ IsSlider(first) /\ first.max = w.slider.max
        /\ w.time <= w.slider.max => first.value = w.time
    <3>1. IsSlider(w.slider) /\ w.time \in Nat /\ w.slider.max \in Nat
      BY DEF IsViewer, IsSlider
    <3>2. w.time \in Int /\ (w.time <= w.slider.max => w.time \in 0 .. w.slider.max)
      BY <3>1
    <3> QED BY <3>1, <3>2, SetValueOK
  <2> HIDE DEF first
  <2>3. /\ IsViewer(shown) /\ Shown(shown, w) /\ shown.controls = w.controls
        /\ shown.slider = first /\ shown.switch = w.switch
        /\ IF first.value = w.slider.value THEN shown.time = w.time /\ shown.index = w.index
           ELSE shown.time = first.value /\ shown.index = LastFrame(w.frames, first.value)
    BY <2>2, SeekOK
  <2> HIDE DEF shown
  <2>4. /\ IsSlider(second) /\ second.max = first.max
        /\ second.value = first.value \/ second.value <= first.max
    <3>1. PlaceOnTrack(at) \in Int
      BY TrackIsInt
    <3>2. /\ IsSlider(second) /\ second.max = shown.slider.max
          /\ second.value = shown.slider.value \/ second.value <= shown.slider.max
      <4>1. IsSlider(shown.slider)
        BY <2>2, <2>3
      <4> QED BY <3>1, <4>1, DragOK
    <3> QED BY <2>3, <3>2
  <2> HIDE DEF second
  <2>5. /\ IsViewer(dragged) /\ Shown(dragged, shown) /\ dragged.controls = shown.controls
        /\ dragged.slider = second /\ dragged.switch = shown.switch
        /\ IF second.value = first.value THEN dragged.time = shown.time /\ dragged.index = shown.index
           ELSE dragged.time = second.value /\ dragged.index = LastFrame(shown.frames, second.value)
    BY <2>3, <2>4, SeekOK
  <2> HIDE DEF dragged
  <2>6. IsManager(m) /\ Pressing(m, at, pressed) /\ m.order = w.controls.order
    BY MouseOK DEF ControlsOK
  <2> HIDE DEF m
  <2>7. /\ Shown(held, dragged) /\ held.controls = m /\ held.slider = second
        /\ held.switch = dragged.switch /\ held.time = dragged.time /\ held.index = dragged.index
        /\ held.speed = dragged.speed
    <3>1. DOMAIN dragged = Fields
      BY <2>5 DEF IsViewer
    <3> QED BY <2>5, <3>1 DEF Shown, Fields
  <2> HIDE DEF held
  <2>8. IsViewer(held)
    BY <2>4, <2>5, <2>7 DEF IsViewer, Shown
  <2> HIDE DEF names, c
  <2>9. /\ IsViewer(c) /\ Shown(c, held) /\ c.controls = held.controls
        /\ ~ c.switch => ~ held.switch
        /\ c.slider = held.slider /\ c.time = held.time /\ c.index = held.index
    BY <2>1, <2>8, ClickOK
  <2>10. Shown(c, w)
    BY <2>3, <2>5, <2>7, <2>9 DEF Shown
  <2>11. ControlsOK(c, at, pressed)
    BY <2>6, <2>7, <2>9 DEF ControlsOK
  <2>12. ASSUME ~ c.switch, c.frames # <<>> PROVE Ready(c)
    <3>1. /\ w.frames # <<>> /\ ~ w.switch /\ w.frames = c.frames /\ w.total = c.total
          /\ shown.frames = w.frames
      BY <2>3, <2>5, <2>7, <2>9, <2>10, <2>12 DEF Shown
    <3>2. /\ w.controls.order = PlaybackControls
          /\ w.slider.max = w.total /\ w.time <= w.total
          /\ w.slider.value = w.time => w.index = LastFrame(w.frames, w.time)
      BY <3>1 DEF Moving
    <3>3. first.value = w.time /\ first.max = w.total
      BY <2>2, <3>2
    <3>4. shown.time = w.time /\ shown.index = LastFrame(w.frames, w.time)
      BY <2>3, <3>2, <3>3
    <3>5. /\ second.max = w.total /\ second.value <= w.total /\ second.value = dragged.time
          /\ dragged.index = LastFrame(w.frames, dragged.time)
      BY <2>4, <2>5, <3>1, <3>2, <3>3, <3>4
    <3> QED BY <2>6, <2>7, <2>9, <3>1, <3>2, <3>5 DEF Ready
  <2> QED BY <2>9, <2>10, <2>11, <2>12 DEF c, Ready
<1> QED BY <1>1, <1>2

\* The player's part of a frame.
LEMMA PlayerOK ==
  ASSUME ReplaysInv, NEW w, NEW at, NEW pressed \in BOOLEAN, NEW key, NEW was, NEW before,
         IsViewer(w), UiOK(w, at, pressed), ControlsOK(w, was, before),
         ~ w.switch, w.playing => Ready(w), ~ w.playing => w.controls = NoControls
  PROVE  LET p == Player(w, at, pressed, key)
         IN ScreenInv(p, at, pressed) /\ ControlsOK(p, at, pressed)
<1>1. CASE ~ w.playing
  <2>1. Player(w, at, pressed, key) = w
    BY <1>1 DEF Player
  <2>2. ControlsOK(w, at, pressed)
    BY <1>1, NewControlsOK DEF ControlsOK
  <2> QED BY <1>1, <2>1, <2>2 DEF ScreenInv, Loaded
<1>2. CASE w.playing
  <2> DEFINE k == Keyboard(w, key)
             p == IF k.paused THEN k ELSE PlayReplay(k)
             c == Controls(p, at, pressed)
  <2>1. Player(w, at, pressed, key) = c
    BY <1>2 DEF Player
  <2>2. IsViewer(k) /\ Shown(k, w) /\ k.controls = w.controls /\ Moving(k)
    BY <1>2, KeyboardOK
  <2> HIDE DEF k
  <2>3. IsViewer(p) /\ Shown(p, w) /\ p.controls = w.controls /\ Moving(p)
    <3>1. /\ IsViewer(PlayReplay(k)) /\ Shown(PlayReplay(k), k)
          /\ PlayReplay(k).controls = k.controls /\ Moving(PlayReplay(k))
      BY <2>2, PlayOK
    <3> QED BY <2>2, <3>1 DEF Shown
  <2> HIDE DEF p
  <2>4. ControlsOK(p, was, before)
    BY <2>3 DEF ControlsOK
  <2>5. /\ IsViewer(c) /\ Shown(c, p) /\ ControlsOK(c, at, pressed)
        /\ ~ c.switch => Ready(c)
    BY <2>3, <2>4, ControlsKeep
  <2> HIDE DEF c
  <2>6. c.ui = w.ui /\ c.playing = w.playing
    BY <2>3, <2>5 DEF Shown
  <2>7. UiOK(c, at, pressed)
    BY <2>6 DEF UiOK
  <2> QED BY <1>2, <2>1, <2>5, <2>6, <2>7 DEF ScreenInv, Loaded
<1> QED BY <1>1, <1>2

-----------------------------------------------------------------------------
(* The steps.                                                               *)

\* A frame of the screen, part by part.
LEMMA FrameOK ==
  ASSUME ReplaysInv, NEW w, NEW at, NEW pressed \in BOOLEAN, NEW key, NEW was, NEW before,
         ScreenInv(w, was, before), ControlsOK(w, was, before)
  PROVE  LET s == Switch(Navigate(Mouse(w, at, pressed), key))
             p == Player(s, at, pressed, key)
         IN /\ ControlsOK(s, was, before)
            /\ ScreenInv(p, at, pressed) /\ ControlsOK(p, at, pressed)
<1> DEFINE clicked == Mouse(w, at, pressed)
           chosen == Navigate(clicked, key)
           s == Switch(chosen)
<1>1. /\ IsViewer(clicked) /\ UiOK(clicked, at, pressed) /\ ControlsOK(clicked, was, before)
      /\ Loaded(clicked)
  BY MouseKeeps DEF ScreenInv
<1> HIDE DEF clicked
<1>2. /\ IsViewer(chosen) /\ UiOK(chosen, at, pressed) /\ ControlsOK(chosen, was, before)
      /\ Loaded(chosen)
  BY <1>1, NavigateKeeps
<1> HIDE DEF chosen
<1>3. /\ IsViewer(s) /\ UiOK(s, at, pressed) /\ ControlsOK(s, was, before)
      /\ ~ s.switch /\ (s.playing => Ready(s)) /\ (~ s.playing => s.controls = NoControls)
  BY <1>2, SwitchOK
<1> HIDE DEF s
<1>4. ScreenInv(Player(s, at, pressed, key), at, pressed)
      /\ ControlsOK(Player(s, at, pressed, key), at, pressed)
  BY <1>3, PlayerOK
<1> QED BY <1>3, <1>4 DEF s, chosen, clicked

\* The screen as it opens.
LEMMA NewViewerOK ==
  ASSUME ReplaysInv, NEW at, NEW pressed
  PROVE  ScreenInv(NewViewer, at, pressed) /\ ControlsOK(NewViewer, at, pressed)
<1> DEFINE w == NewViewer
<1>1. /\ DOMAIN w = Fields /\ w.ui = SelectionManager /\ w.controls = NoControls
      /\ w.slider = NewSlider(0) /\ w.frames = <<>> /\ w.time = 0 /\ w.total = 0
      /\ w.speed = Normal /\ w.playing = FALSE /\ w.switch = FALSE
  BY DEF NewViewer, Fields
<1> HIDE DEF w
<1>2. IsSlider(NewSlider(0)) /\ Normal \in Nat
  BY SpeedIsNat DEF IsSlider, NewSlider
<1>3. IsViewer(w) /\ ControlsOK(w, at, pressed)
  BY <1>1, <1>2, NewControlsOK DEF IsViewer, ControlsOK
<1>4. UiOK(w, at, pressed)
  BY <1>1, SelectionOK DEF UiOK
<1> QED BY <1>1, <1>3, <1>4 DEF ScreenInv, Loaded, w

\* The screen is not open at first.
LEMMA ViewerInit == Init => ViewerInv
BY DEF Init, ViewerInv

\* The screen is only changed by its frames, and the files not while it is open.
LEMMA ViewerStep == ReplaysInv /\ ViewerInv /\ [Next]_vars => ViewerInv'
<1> SUFFICES ASSUME ReplaysInv, ViewerInv, [Next]_vars PROVE ViewerInv'
  OBVIOUS
<1>1. ASSUME NEW gap \in 1 .. MaxGap, NEW zone \in BOOLEAN, RecordFrame(gap, zone) PROVE ViewerInv'
  <2>1. screen' = "game"
    BY <1>1 DEF RecordFrame
  <2> QED BY <2>1 DEF ViewerInv
<1>2. CASE StartGame \/ EndGame \/ Restart
  <2>1. screen' # "replays"
    BY <1>2 DEF StartGame, EndGame, Restart
  <2> QED BY <2>1 DEF ViewerInv
<1>3. ASSUME replays' = replays, screen' = "replays",
             ScreenInv(v', mouse'.at, mouse'.pressed), ControlsOK(v', mouse'.at, mouse'.pressed)
      PROVE  ViewerInv'
  <2>1. Rows' = Rows
    BY <1>3 DEF Rows
  <2>2. ScreenInv(v, mouse.at, mouse.pressed)'
    BY <1>3, <2>1 DEF ScreenInv, UiOK
  <2>3. ControlsOK(v, mouse.at, mouse.pressed)'
    BY <1>3
  <2> QED BY <2>2, <2>3 DEF ViewerInv
<1>4. CASE OpenReplays
  <2>1. screen' = "replays" /\ replays' = replays /\ v' = NewViewer
    BY <1>4 DEF OpenReplays
  <2>2. ScreenInv(v', mouse'.at, mouse'.pressed) /\ ControlsOK(v', mouse'.at, mouse'.pressed)
    BY <2>1, NewViewerOK
  <2> QED BY <1>3, <2>1, <2>2
<1>5. ASSUME NEW at \in Places, NEW pressed \in BOOLEAN, NEW key \in Keys, Frame(at, pressed, key)
      PROVE  ViewerInv'
  <2> DEFINE s == Switch(Navigate(Mouse(v, at, pressed), key))
             p == Player(s, at, pressed, key)
  <2>1. /\ screen = "replays" /\ replays' = replays
        /\ (v' = Nobody /\ screen' = "profile") \/ v' = p
        /\ mouse' = [at |-> at, pressed |-> pressed]
    BY <1>5 DEF Frame
  <2>2. ScreenInv(v, mouse.at, mouse.pressed) /\ ControlsOK(v, mouse.at, mouse.pressed)
    BY <2>1 DEF ViewerInv
  <2>3. ScreenInv(p, at, pressed) /\ ControlsOK(p, at, pressed)
    BY <2>2, FrameOK
  <2> HIDE DEF s, p
  <2>4. CASE screen' # "replays"
    BY <2>4 DEF ViewerInv
  <2>5. CASE screen' = "replays"
    <3>1. v' = p /\ mouse'.at = at /\ mouse'.pressed = pressed
      BY <2>1, <2>5
    <3> QED BY <1>3, <2>1, <2>3, <2>5, <3>1
  <2> QED BY <2>4, <2>5
<1>6. CASE UNCHANGED vars
  <2>1. CASE screen = "replays"
    <3>1. screen' = "replays" /\ replays' = replays /\ v' = v /\ mouse' = mouse
      BY <1>6, <2>1 DEF vars
    <3>2. ScreenInv(v', mouse'.at, mouse'.pressed) /\ ControlsOK(v', mouse'.at, mouse'.pressed)
      BY <2>1, <3>1 DEF ViewerInv
    <3> QED BY <1>3, <3>1, <3>2
  <2>2. CASE screen # "replays"
    BY <1>6, <2>2 DEF vars, ViewerInv
  <2> QED BY <2>1, <2>2
<1> QED BY <1>1, <1>2, <1>4, <1>5, <1>6 DEF Next

\* Both invariants hold always.
LEMMA ViewerAlways == Spec => [](ReplaysInv /\ ViewerInv)
BY ReplaysInit, ReplaysStep, ViewerInit, ViewerStep, PTL DEF Spec

\* The frame on show is the one of the time, for every replay, speed and slider, whatever was
\* pressed or dragged and in whichever order.
THEOREM FrameOnShowFollowsTime == Spec => []FrameFollowsTime
<1>1. ViewerInv => FrameFollowsTime
  BY DEF ViewerInv, ScreenInv, Loaded, Ready, FrameFollowsTime, Playing
<1> QED BY ViewerAlways, <1>1, PTL

\* A frame calls the callback of one element at most: the one the mouse pressed in the frame
\* before. What is pressed never has the focus, so that no key moves it away from the mouse.
THEOREM ClicksCallOnce == Spec => OneCallbackPerClick
<1> DEFINE Once == fired' # {} /\ screen = "replays" => mouse.pressed /\ fired' = {mouse.at}
<1>1. ReplaysInv /\ ViewerInv /\ [Next]_vars => [Once]_vars
  <2> SUFFICES ASSUME ReplaysInv, ViewerInv, Next, fired' # {}, screen = "replays"
               PROVE  mouse.pressed /\ fired' = {mouse.at}
    OBVIOUS
  <2>1. PICK at \in Places, pressed \in BOOLEAN, key \in Keys : Frame(at, pressed, key)
    <3>1. ~ StartGame /\ ~ EndGame /\ ~ OpenReplays /\ ~ Restart
      BY DEF StartGame, EndGame, OpenReplays, Restart
    <3>2. ASSUME NEW gap, NEW zone, RecordFrame(gap, zone) PROVE FALSE
      BY <3>2 DEF RecordFrame
    <3> QED BY <3>1, <3>2 DEF Next
  <2> DEFINE s == Switch(Navigate(Mouse(v, at, pressed), key))
  <2>2. fired' = Releases(v.ui, at, pressed) \cup ControlsFired(s, at, pressed)
    BY <2>1 DEF Frame
  <2>3. ScreenInv(v, mouse.at, mouse.pressed) /\ ControlsOK(v, mouse.at, mouse.pressed)
    BY DEF ViewerInv
  <2>4. ControlsOK(s, mouse.at, mouse.pressed)
    BY <2>3, FrameOK
  <2> HIDE DEF s
  <2>5. ASSUME NEW n \in Releases(v.ui, at, pressed) PROVE mouse.pressed /\ n = mouse.at
    <3>1. IsManager(v.ui) /\ Pressing(v.ui, mouse.at, mouse.pressed)
      BY <2>3 DEF ScreenInv, UiOK
    <3> QED BY <3>1, ReleasesThePressed
  <2>6. ASSUME NEW n \in ControlsFired(s, at, pressed) PROVE mouse.pressed /\ n = mouse.at
    <3>1. n \in Releases(s.controls, at, pressed)
      BY DEF ControlsFired
    <3>2. IsManager(s.controls) /\ Pressing(s.controls, mouse.at, mouse.pressed)
      BY <2>4 DEF ControlsOK
    <3> QED BY <3>1, <3>2, ReleasesThePressed
  <2> QED BY <2>2, <2>5, <2>6
<1> QED BY ViewerAlways, <1>1, PTL DEF Spec, OneCallbackPerClick
=============================================================================
