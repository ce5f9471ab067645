-------------------------- MODULE LevelEditorProofs --------------------------
(***************************************************************************)
(* Proofs about LevelEditor for every level, prefab, place and bound: what  *)
(* is selected exists, a level with nothing waiting is recorded, and the    *)
(* history the whole editor keeps is an undo history.                       *)
(***************************************************************************)
EXTENDS LevelEditor, SequenceTheorems, TLAPS

-----------------------------------------------------------------------------
(* The history of the editor.                                               *)

\* The index is at an entry, and there are never too many of them.
HistoryInv ==
  /\ history \in Seq(Levels)
  /\ current \in 1..Len(history)
  /\ Len(history) <= MaxHistory

\* What was undone is empty when the index is at the last entry.
LEMMA EmptySubSeq ==
  ASSUME NEW S, NEW s \in Seq(S)
  PROVE  SubSeq(s, Len(s) + 1, Len(s)) = << >>
  BY SubSeqProperties

\* Cutting off after an entry is cutting off before it and adding it again.
LEMMA PrefixAppend ==
  ASSUME NEW S, NEW s \in Seq(S), NEW i \in 1..Len(s)
  PROVE  SubSeq(s, 1, i) = Append(SubSeq(s, 1, i - 1), s[i])
<1>1. SubSeq(s, 1, i) \in Seq(S) /\ SubSeq(s, 1, i - 1) \in Seq(S)
  BY SubSeqProperties
<1>2. Len(SubSeq(s, 1, i)) = i /\ Len(SubSeq(s, 1, i - 1)) = i - 1
  BY SubSeqProperties
<1>3. s[i] \in S /\ Append(SubSeq(s, 1, i - 1), s[i]) \in Seq(S)
  BY <1>1, ElementOfSeq, AppendProperties
<1>4. Len(Append(SubSeq(s, 1, i - 1), s[i])) = i
  BY <1>1, <1>2, <1>3, AppendProperties
<1>5. ASSUME NEW j \in 1..i
      PROVE  SubSeq(s, 1, i)[j] = Append(SubSeq(s, 1, i - 1), s[i])[j]
  <2>1. SubSeq(s, 1, i)[j] = s[j]
    BY SubSeqProperties
  <2>2. CASE j = i
    BY <1>1, <1>2, <1>3, <2>1, <2>2, AppendProperties
  <2>3. CASE j # i
    <3>1. j \in 1..(i - 1)
      BY <2>3
    <3>2. SubSeq(s, 1, i - 1)[j] = s[j]
      BY <3>1, SubSeqProperties
    <3> QED
      BY <1>1, <1>2, <1>3, <2>1, <3>1, <3>2, AppendProperties
  <2> QED
    BY <2>2, <2>3
<1> QED
  BY <1>1, <1>2, <1>3, <1>4, <1>5, SeqEqual

\* Forgetting the oldest entry of a prefix is the prefix from the second one on.
LEMMA TailPrefix ==
  ASSUME NEW S, NEW s \in Seq(S), NEW i \in 1..Len(s)
  PROVE  Tail(SubSeq(s, 1, i)) = SubSeq(s, 2, i)
  BY HeadTailOfSubSeq

\* What was cut off leaves the entries before it as they were.
LEMMA PrefixOfAppend ==
  ASSUME NEW S, NEW s \in Seq(S), NEW e \in S, NEW m \in 1..(Len(s) + 1), NEW n \in 0..Len(s)
  PROVE  SubSeq(Append(s, e), m, n) = SubSeq(s, m, n)
<1> DEFINE long  == SubSeq(Append(s, e), m, n)
           short == SubSeq(s, m, n)
<1>1. CASE n < m
  BY <1>1, SubSeqEmpty
<1>2. CASE m <= n
  <2>1. Append(s, e) \in Seq(S) /\ Len(Append(s, e)) = Len(s) + 1
        /\ \A i \in 1..Len(s) : Append(s, e)[i] = s[i]
    BY AppendProperties
  <2>2. \A i \in m..n : s[i] \in S /\ Append(s, e)[i] \in S
    BY <1>2, <2>1, ElementOfSeq
  <2>3. long \in Seq(S) /\ Len(long) = n - m + 1
        /\ \A i \in 1..(n - m + 1) : long[i] = Append(s, e)[m + i - 1]
    BY <1>2, <2>2, SubSeqProperties
  <2>4. short \in Seq(S) /\ Len(short) = n - m + 1
        /\ \A i \in 1..(n - m + 1) : short[i] = s[m + i - 1]
    BY <1>2, <2>2, SubSeqProperties
  <2>5. \A i \in 1..Len(long) : long[i] = short[i]
    BY <2>1, <2>3, <2>4
  <2> QED
    BY <2>3, <2>4, <2>5, SeqEqual
<1> QED
  BY <1>1, <1>2

\* The vector and the index after an entry is saved, as the parts of an undo history.
LEMMA SaveIsChange ==
  ASSUME HistoryInv, NEW edited \in Levels, SaveToHistory(edited)
  PROVE  HistoryInv' /\ Undo!Change
<1> DEFINE longer == Append(SubSeq(history, 1, current), edited)
           before == SubSeq(history, 1, current - 1)
<1>0. MaxHistory \in Nat \ {0}
  BY HistoryConstants
<1>1. SubSeq(history, 1, current) \in Seq(Levels) /\ Len(SubSeq(history, 1, current)) = current
  BY SubSeqProperties, ElementOfSeq DEF HistoryInv
<1>2. longer \in Seq(Levels) /\ Len(longer) = current + 1 /\ longer[current + 1] = edited
  BY <1>1, AppendProperties
<1>3. Append(before, history[current]) = SubSeq(history, 1, current)
  BY PrefixAppend DEF HistoryInv
<1>4. SubSeq(longer, 1, current) = SubSeq(history, 1, current)
  <2>1. SubSeq(longer, 1, current) = SubSeq(SubSeq(history, 1, current), 1, current)
    BY <1>1, PrefixOfAppend DEF HistoryInv
  <2> QED
    BY <1>1, <2>1, SubSeqFull
<1>5. CASE current + 1 > MaxHistory
  <2>1. history' = Tail(longer) /\ current' = current
    BY <1>2, <1>5 DEF SaveToHistory
  <2>2. current = MaxHistory
    BY <1>0, <1>5 DEF HistoryInv
  <2>3. Tail(longer) \in Seq(Levels) /\ Len(Tail(longer)) = current
        /\ Tail(longer)[current] = edited
    <3>1. longer # << >>
      BY <1>2, EmptySeq
    <3> QED
      BY <1>2, <3>1, HeadTailProperties, SMTT(30) DEF HistoryInv
  <2> HIDE DEF longer, before
  <2>4. HistoryInv'
    <3>1. current' \in 1..Len(history')
      BY <2>1, <2>3 DEF HistoryInv
    <3>2. Len(history') <= MaxHistory
      BY <1>0, <2>1, <2>2, <2>3
    <3> QED
      BY <2>1, <2>3, <3>1, <3>2 DEF HistoryInv
  <2> USE DEF longer, before
  <2>5. SubSeq(history', 1, current' - 1) = Undo!Latest(Append(before, history[current]))
    <3>1. Undo!Latest(Append(before, history[current])) = Tail(SubSeq(history, 1, current))
      BY <1>0, <1>1, <1>3, <2>2 DEF Undo!Latest
    <3>2. Tail(SubSeq(history, 1, current)) = SubSeq(history, 2, current)
      BY TailPrefix DEF HistoryInv
    <3>3. Tail(longer) = SubSeq(longer, 2, current + 1)
      <4>1. longer # << >>
        BY <1>2, EmptySeq
      <4> QED
        BY <1>2, <4>1, TailIsSubSeq
    <3>4. SubSeq(Tail(longer), 1, current - 1) = SubSeq(longer, 2, current)
      <4>1. CASE current = 1
        <5>1. SubSeq(Tail(longer), 1, current - 1) = << >>
          BY <4>1, SubSeqEmpty
        <5>2. SubSeq(longer, 2, current) = << >>
          BY <4>1, SubSeqEmpty
        <5> QED
          BY <5>1, <5>2
      <4>2. CASE current # 1
        <5>1. 2 \in 1..Len(longer) /\ current + 1 \in 1..Len(longer)
              /\ 1 \in 1..(current + 1 - 2 + 1) /\ current - 1 \in 1..(current + 1 - 2 + 1)
          BY <1>2, <4>2 DEF HistoryInv
        <5>2. SubSeq(SubSeq(longer, 2, current + 1), 1, current - 1)
                = SubSeq(longer, 2 + 1 - 1, 2 + (current - 1) - 1)
          BY <1>2, <5>1, SubSeqOfSubSeq
        <5>3. 2 + 1 - 1 = 2 /\ 2 + (current - 1) - 1 = current
          BY DEF HistoryInv
        <5> QED
          BY <3>3, <5>2, <5>3
      <4> QED
        BY <4>1, <4>2
    <3>5. SubSeq(longer, 2, current) = SubSeq(SubSeq(history, 1, current), 2, current)
      BY <1>1, PrefixOfAppend DEF HistoryInv
    <3>6. SubSeq(SubSeq(history, 1, current), 2, current) = SubSeq(history, 2, current)
      <4>1. Tail(SubSeq(history, 1, current)) = SubSeq(SubSeq(history, 1, current), 2, current)
        <5>1. SubSeq(history, 1, current) # << >>
          BY <1>1, EmptySeq DEF HistoryInv
        <5> QED
          BY <1>1, <5>1, TailIsSubSeq
      <4> QED
        BY <3>2, <4>1
    <3> QED
      BY <2>1, <3>1, <3>2, <3>4, <3>5, <3>6
  <2>6. SubSeq(history', current' + 1, Len(history')) = << >>
    BY <2>1, <2>3, SubSeqEmpty DEF HistoryInv
  <2> QED
    BY <2>1, <2>3, <2>4, <2>5, <2>6 DEF Undo!Change
<1>6. CASE current + 1 <= MaxHistory
  <2>1. history' = longer /\ current' = current + 1
    BY <1>0, <1>2, <1>6 DEF SaveToHistory, HistoryInv
  <2>2. HistoryInv'
    BY <1>2, <1>6, <2>1 DEF HistoryInv
  <2>3. SubSeq(history', 1, current' - 1) = Undo!Latest(Append(before, history[current]))
    <3>1. current' - 1 = current
      BY <2>1 DEF HistoryInv
    <3>2. Undo!Latest(Append(before, history[current])) = SubSeq(history, 1, current)
      BY <1>0, <1>1, <1>3, <1>6 DEF Undo!Latest, HistoryInv
    <3> QED
      BY <1>4, <2>1, <3>1, <3>2
  <2>4. SubSeq(history', current' + 1, Len(history')) = << >>
    BY <1>2, <2>1, SubSeqEmpty DEF HistoryInv
  <2> QED
    BY <1>2, <2>1, <2>2, <2>3, <2>4 DEF Undo!Change
<1> QED
  BY <1>0, <1>5, <1>6 DEF HistoryInv

\* Moving the index back is going back.
LEMMA LoadIsGoBack ==
  ASSUME HistoryInv, LoadFromHistory(current - 1)
  PROVE  HistoryInv' /\ Undo!GoBack
<1> DEFINE before == SubSeq(history, 1, current - 1)
<1>1. history' = history /\ current' = current - 1 /\ current - 1 \in 1..Len(history)
  BY LenProperties DEF LoadFromHistory, HistoryInv
<1>2. HistoryInv'
  BY <1>1 DEF HistoryInv
<1>3. before \in Seq(Levels) /\ Len(before) = current - 1
      /\ before[current - 1] = history[current - 1]
  BY <1>1, SubSeqProperties, ElementOfSeq DEF HistoryInv
<1>4. before # << >>
  BY <1>1, <1>3, EmptySeq
<1>5. SubSeq(history, 1, current - 1 - 1) = SubSeq(before, 1, Len(before) - 1)
  <2>1. CASE current - 1 = 1
    BY <1>3, <2>1, SubSeqEmpty
  <2>2. CASE current - 1 # 1
    <3>1. 1 \in 1..Len(history) /\ current - 1 \in 1..Len(history)
          /\ 1 \in 1..(current - 1 - 1 + 1) /\ current - 2 \in 1..(current - 1 - 1 + 1)
      BY <1>1, <2>2 DEF HistoryInv
    <3>2. SubSeq(before, 1, current - 2) = SubSeq(history, 1 + 1 - 1, 1 + (current - 2) - 1)
      BY <3>1, SubSeqOfSubSeq DEF HistoryInv
    <3>3. 1 + 1 - 1 = 1 /\ 1 + (current - 2) - 1 = current - 1 - 1 /\ Len(before) - 1 = current - 2
      BY <1>1, <1>3 DEF HistoryInv
    <3> QED
      BY <3>2, <3>3
  <2> QED
    BY <2>1, <2>2
<1>6. SubSeq(history, current - 1 + 1, Len(history))
        = <<history[current]>> \o SubSeq(history, current + 1, Len(history))
  <2>1. current - 1 + 1 = current /\ current \in 1..Len(history)
        /\ Len(history) \in current..Len(history)
    BY LenProperties DEF HistoryInv
  <2> QED
    BY <2>1, SubSeqRecursiveFirst DEF HistoryInv
<1> QED
  BY <1>1, <1>2, <1>3, <1>4, <1>5, <1>6 DEF Undo!GoBack

\* Moving the index forward is going forward.
LEMMA LoadIsGoForward ==
  ASSUME HistoryInv, LoadFromHistory(current + 1)
  PROVE  HistoryInv' /\ Undo!GoForward
<1> DEFINE after == SubSeq(history, current + 1, Len(history))
<1>1. history' = history /\ current' = current + 1 /\ current + 1 \in 1..Len(history)
  BY LenProperties DEF LoadFromHistory, HistoryInv
<1>2. HistoryInv'
  BY <1>1 DEF HistoryInv
<1>3. after \in Seq(Levels) /\ Len(after) = Len(history) - current
  <2>1. current + 1 \in Int /\ Len(history) \in Int
        /\ \A i \in (current + 1)..Len(history) : history[i] \in Levels
    BY LenProperties, ElementOfSeq DEF HistoryInv
  <2> QED
    BY <1>1, <2>1, SubSeqProperties DEF HistoryInv
<1> HIDE DEF after
<1>4. after # << >>
  <2>1. Len(history) \in Nat /\ current \in Nat
    BY LenProperties DEF HistoryInv
  <2>2. Len(after) # 0
    BY <1>1, <1>3, <2>1
  <2> QED
    BY <2>2, EmptySeq
<1>5. Head(after) = history[current + 1]
      /\ Tail(after) = SubSeq(history, current + 1 + 1, Len(history))
  <2>1. Len(history) \in (current + 1)..Len(history)
    BY <1>1 DEF HistoryInv
  <2> QED
    BY <1>1, <2>1, HeadTailOfSubSeq DEF HistoryInv, after
<1>6. SubSeq(history, 1, current - 1)' = Append(SubSeq(history, 1, current - 1), history[current])
  <2>1. current' - 1 = current
    BY <1>1 DEF HistoryInv
  <2>2. SubSeq(history', 1, current' - 1) = SubSeq(history, 1, current)
    BY <1>1, <2>1
  <2> QED
    BY <2>2, PrefixAppend DEF HistoryInv
<1>7. history[current]' = Head(after)
      /\ SubSeq(history, current + 1, Len(history))' = Tail(after)
  BY <1>1, <1>5
<1> QED
  BY <1>2, <1>4, <1>6, <1>7 DEF Undo!GoForward, after

\* A level that is opened is a history without past or future.
LEMMA StartIsInit ==
  ASSUME EditInit
  PROVE  HistoryInv /\ Undo!HistoryInit
<1>1. PICK edited \in Levels : history = <<edited>> /\ current = 1
  BY DEF EditInit, StartHistory
<1>2. history \in Seq(Levels) /\ Len(history) = 1 /\ history[1] = edited
  BY <1>1
<1>3. MaxHistory >= 1
  BY HistoryConstants
<1>4. SubSeq(history, 1, current - 1) = << >>
      /\ SubSeq(history, current + 1, Len(history)) = << >>
  BY <1>1, <1>2, SubSeqEmpty
<1> QED
  BY <1>1, <1>2, <1>3, <1>4, HistoryConstants DEF HistoryInv, Undo!HistoryInit

\* The history of the editor (saveToHistory, undo and redo over _history and its
\* index) implements an undo history, for every bound and whatever is recorded.
THEOREM HistoryImplementsUndo == EditSpec => IsUndoHistory
<1>1. EditInit => HistoryInv /\ Undo!HistoryInit
  BY StartIsInit
<1>2. HistoryInv /\ [EditNext]_<<history, current>>
        => HistoryInv' /\ [Undo!HistoryNext]_(Undo!historyVars)
  <2> SUFFICES ASSUME HistoryInv, [EditNext]_<<history, current>>
               PROVE  HistoryInv' /\ [Undo!HistoryNext]_(Undo!historyVars)
    OBVIOUS
  <2>1. CASE \E edited \in Levels : SaveToHistory(edited)
    BY <2>1, SaveIsChange DEF Undo!HistoryNext
  <2>2. CASE LoadFromHistory(current - 1)
    BY <2>2, LoadIsGoBack DEF Undo!HistoryNext
  <2>3. CASE LoadFromHistory(current + 1)
    BY <2>3, LoadIsGoForward DEF Undo!HistoryNext
  <2>4. CASE UNCHANGED <<history, current>>
    BY <2>4 DEF HistoryInv, Undo!historyVars
  <2> QED
    BY <2>1, <2>2, <2>3, <2>4 DEF EditNext
<1> QED
  BY <1>1, <1>2, PTL DEF EditSpec, IsUndoHistory, Undo!HistorySpec

-----------------------------------------------------------------------------
(* Levels and what the handlers make of them.                               *)

Wave == [at : Places, enemies : Seq(Places)]

\* Taking an element out leaves a sequence, one shorter.
LEMMA RemoveAtType ==
  ASSUME NEW S, NEW s \in Seq(S), NEW i \in 1..Len(s)
  PROVE  RemoveAt(s, i) \in Seq(S) /\ Len(RemoveAt(s, i)) = Len(s) - 1
<1> DEFINE before == SubSeq(s, 1, i - 1)
           after == SubSeq(s, i + 1, Len(s))
<1>1. i \in 1..Len(s) /\ Len(s) \in Nat
  OBVIOUS
<1>2. before \in Seq(S) /\ Len(before) = i - 1
  BY <1>1
<1>3. after \in Seq(S) /\ Len(after) = Len(s) - i
  BY <1>1
<1>4. RemoveAt(s, i) = before \o after
  BY DEF RemoveAt
<1> HIDE DEF before, after
<1> QED BY <1>1, <1>2, <1>3, <1>4

\* The parts of a level.
LEMMA LevelParts ==
  ASSUME NEW l \in AllLevels
  PROVE  /\ l.settings \in Settings
         /\ l.placed \in [Shelves -> Seq(Places)]
         /\ l.waves \in Seq(Wave)
         /\ \A w \in 1..Len(l.waves) :
              l.waves[w].at \in Places /\ l.waves[w].enemies \in Seq(Places)
<1>1. l.waves \in Seq(Wave)
  BY DEF AllLevels, Wave
<1>2. \A w \in 1..Len(l.waves) : l.waves[w] \in Wave
  BY <1>1, ElementOfSeq
<1> QED BY <1>1, <1>2 DEF AllLevels, Wave

\* A level with other waves ...
LEMMA WithWaves ==
  ASSUME NEW l \in AllLevels, NEW ws \in Seq(Wave)
  PROVE  /\ [l EXCEPT !.waves = ws] \in AllLevels
         /\ [l EXCEPT !.waves = ws].waves = ws
         /\ [l EXCEPT !.waves = ws].placed = l.placed
BY DEF AllLevels, Wave

\* ... and one with another shelf.
LEMMA WithShelf ==
  ASSUME NEW l \in AllLevels, NEW s \in Shelves, NEW q \in Seq(Places)
  PROVE  /\ [l EXCEPT !.placed[s] = q] \in AllLevels
         /\ [l EXCEPT !.placed[s] = q].placed = [l.placed EXCEPT ![s] = q]
         /\ [l EXCEPT !.placed[s] = q].waves = l.waves
<1>1. [l EXCEPT !.placed[s] = q] = [l EXCEPT !.placed = [l.placed EXCEPT ![s] = q]]
  BY DEF AllLevels
<1>2. [l.placed EXCEPT ![s] = q] \in [Shelves -> Seq(Places)]
  BY DEF AllLevels
<1> QED BY <1>1, <1>2 DEF AllLevels

\* One thing is put elsewhere.
LEMMA WithPlace ==
  ASSUME NEW l \in AllLevels, NEW s \in Shelves, NEW i \in 1..Len(l.placed[s]),
         NEW p \in Places
  PROVE  /\ [l EXCEPT !.placed[s][i] = p] \in AllLevels
         /\ \A t \in Shelves : Len([l EXCEPT !.placed[s][i] = p].placed[t]) = Len(l.placed[t])
         /\ [l EXCEPT !.placed[s][i] = p].waves = l.waves
<1> DEFINE q == [l.placed[s] EXCEPT ![i] = p]
<1>1. l.placed[s] \in Seq(Places)
  BY LevelParts
<1>2. q \in Seq(Places) /\ Len(q) = Len(l.placed[s])
  BY <1>1, ExceptSeq
<1>3. [l EXCEPT !.placed[s][i] = p] = [l EXCEPT !.placed[s] = q]
  BY DEF AllLevels
<1> HIDE DEF q
<1>4. \A t \in Shelves : Len([l.placed EXCEPT ![s] = q][t]) = Len(l.placed[t])
  BY <1>2, LevelParts
<1> QED BY <1>2, <1>3, <1>4, WithShelf

\* Another wave in the place of one.
LEMMA WithWave ==
  ASSUME NEW l \in AllLevels, NEW w \in 1..Len(l.waves), NEW v \in Wave
  PROVE  /\ [l.waves EXCEPT ![w] = v] \in Seq(Wave)
         /\ Len([l.waves EXCEPT ![w] = v]) = Len(l.waves)
         /\ \A u \in 1..Len(l.waves) :
              [l.waves EXCEPT ![w] = v][u] = IF u = w THEN v ELSE l.waves[u]
BY LevelParts, ExceptSeq

\* A wave is put elsewhere ...
LEMMA WithWaveAt ==
  ASSUME NEW l \in AllLevels, NEW w \in 1..Len(l.waves), NEW p \in Places
  PROVE  LET m == [l EXCEPT !.waves[w].at = p]
         IN  /\ m \in AllLevels /\ m.placed = l.placed
             /\ Len(m.waves) = Len(l.waves)
             /\ \A u \in 1..Len(l.waves) : m.waves[u].enemies = l.waves[u].enemies
<1> DEFINE v == [l.waves[w] EXCEPT !.at = p]
           ws == [l.waves EXCEPT ![w] = v]
<1>1. l.waves \in Seq(Wave) /\ l.waves[w] \in Wave
  BY LevelParts, ElementOfSeq
<1>2. v \in Wave /\ v.enemies = l.waves[w].enemies
  BY <1>1 DEF Wave
<1>3. [l EXCEPT !.waves[w].at = p] = [l EXCEPT !.waves = ws]
  BY <1>1 DEF AllLevels
<1> HIDE DEF v
<1>4. /\ ws \in Seq(Wave) /\ Len(ws) = Len(l.waves)
      /\ \A u \in 1..Len(l.waves) : ws[u].enemies = l.waves[u].enemies
  BY <1>2, WithWave
<1> HIDE DEF ws
<1> QED BY <1>3, <1>4, WithWaves

\* ... or gets other enemies.
LEMMA WithEnemies ==
  ASSUME NEW l \in AllLevels, NEW w \in 1..Len(l.waves), NEW q \in Seq(Places)
  PROVE  LET m == [l EXCEPT !.waves[w].enemies = q]
         IN  /\ m \in AllLevels /\ m.placed = l.placed
             /\ Len(m.waves) = Len(l.waves)
             /\ \A u \in 1..Len(l.waves) :
                  m.waves[u].enemies = IF u = w THEN q ELSE l.waves[u].enemies
<1> DEFINE v == [l.waves[w] EXCEPT !.enemies = q]
           ws == [l.waves EXCEPT ![w] = v]
<1>1. l.waves \in Seq(Wave) /\ l.waves[w] \in Wave
  BY LevelParts, ElementOfSeq
<1>2. v \in Wave /\ v.enemies = q
  BY <1>1 DEF Wave
<1>3. [l EXCEPT !.waves[w].enemies = q] = [l EXCEPT !.waves = ws]
  BY <1>1 DEF AllLevels
<1> HIDE DEF v
<1>4. /\ ws \in Seq(Wave) /\ Len(ws) = Len(l.waves)
      /\ \A u \in 1..Len(l.waves) : ws[u].enemies = IF u = w THEN q ELSE l.waves[u].enemies
  BY <1>2, WithWave
<1> HIDE DEF ws
<1> QED BY <1>3, <1>4, WithWaves

\* One enemy of a wave changes.
LEMMA WithEnemy ==
  ASSUME NEW l \in AllLevels, NEW w \in 1..Len(l.waves),
         NEW e \in 1..Len(l.waves[w].enemies), NEW p \in Places
  PROVE  LET m == [l EXCEPT !.waves[w].enemies[e] = p]
         IN  /\ m \in AllLevels /\ m.placed = l.placed
             /\ Len(m.waves) = Len(l.waves)
             /\ \A u \in 1..Len(l.waves) : Len(m.waves[u].enemies) = Len(l.waves[u].enemies)
<1> DEFINE q == [l.waves[w].enemies EXCEPT ![e] = p]
<1>1. l.waves[w].enemies \in Seq(Places)
  BY LevelParts
<1>2. q \in Seq(Places) /\ Len(q) = Len(l.waves[w].enemies)
  BY <1>1, ExceptSeq
<1>3. [l EXCEPT !.waves[w].enemies[e] = p] = [l EXCEPT !.waves[w].enemies = q]
  BY DEF AllLevels
<1> HIDE DEF q
<1> QED BY <1>2, <1>3, WithEnemies

-----------------------------------------------------------------------------
(* What can be selected.                                                    *)

\* The objects of a kind, as pairs.
LEMMA ShelfObjects ==
  ASSUME level \in AllLevels, NEW k \in {"Obstacles", "PowerUps"}
  PROVE  /\ shelfOf(k) \subseteq Shelves
         /\ \A o : o \in Objects(k) <=>
              \E s \in shelfOf(k) : \E i \in 1..Len(level.placed[s]) : o = <<s, i>>
<1>1. shelfOf(k) \subseteq Shelves
  BY DEF shelfOf, Shelves
<1>2. \A s \in shelfOf(k) : DOMAIN level.placed[s] = 1..Len(level.placed[s])
  BY <1>1, LevelParts
<1>3. Objects(k) = UNION {{s} \X DOMAIN level.placed[s] : s \in shelfOf(k)}
  BY DEF Objects
<1> QED BY <1>1, <1>2, <1>3

LEMMA WaveObjects ==
  ASSUME level \in AllLevels
  PROVE  \A o : o \in Objects("Waves") <=>
           \E w \in 1..Len(level.waves) :
             \E e \in 0..Len(level.waves[w].enemies) : o = <<w, e>>
<1>1. DOMAIN level.waves = 1..Len(level.waves)
  BY LevelParts
<1>2. Objects("Waves") = UNION {{w} \X (0..Len(level.waves[w].enemies)) : w \in DOMAIN level.waves}
  BY DEF Objects
<1> QED BY <1>1, <1>2

\* Where nothing becomes shorter, no object goes.
LEMMA ObjectsKept ==
  ASSUME level \in AllLevels, level' \in AllLevels,
         \A s \in Shelves : Len(level.placed[s]) <= Len(level'.placed[s]),
         Len(level.waves) <= Len(level'.waves),
         \A w \in 1..Len(level.waves) :
           Len(level.waves[w].enemies) <= Len(level'.waves[w].enemies)
  PROVE  \A k \in Kinds : Objects(k) \subseteq Objects(k)'
<1>1. ASSUME NEW k \in {"Obstacles", "PowerUps"}, NEW o \in Objects(k)
      PROVE  o \in Objects(k)'
  <2>0. PICK s \in shelfOf(k) : \E i \in 1..Len(level.placed[s]) : o = <<s, i>>
    BY <1>1, ShelfObjects
  <2>1. PICK i \in 1..Len(level.placed[s]) : o = <<s, i>>
    BY <2>0
  <2>2. s \in Shelves
    BY <1>1, ShelfObjects
  <2>3. level.placed[s] \in Seq(Places) /\ level'.placed[s] \in Seq(Places)
    BY <2>2, LevelParts
  <2>4. i \in DOMAIN level'.placed[s]
    BY <2>2, <2>3
  <2>5. Objects(k)' = UNION {{t} \X DOMAIN level'.placed[t] : t \in shelfOf(k)}
    BY DEF Objects
  <2> QED BY <2>1, <2>4, <2>5
<1>2. ASSUME NEW o \in Objects("Waves")
      PROVE  o \in Objects("Waves")'
  <2>0. PICK w \in 1..Len(level.waves) : \E e \in 0..Len(level.waves[w].enemies) : o = <<w, e>>
    BY <1>2, WaveObjects
  <2>1. PICK e \in 0..Len(level.waves[w].enemies) : o = <<w, e>>
    BY <2>0
  <2>2. /\ level.waves \in Seq(Wave) /\ level'.waves \in Seq(Wave)
        /\ level.waves[w].enemies \in Seq(Places)
    BY LevelParts
  <2>3. w \in 1..Len(level'.waves)
    BY <2>2
  <2>4. level'.waves[w].enemies \in Seq(Places)
    BY <2>3, LevelParts
  <2>5. w \in DOMAIN level'.waves /\ e \in 0..Len(level'.waves[w].enemies)
    BY <2>2, <2>3, <2>4
  <2>6. Objects("Waves")' = UNION {{u} \X (0..Len(level'.waves[u].enemies)) : u \in DOMAIN level'.waves}
    BY DEF Objects
  <2> QED BY <2>1, <2>5, <2>6
<1> QED BY <1>1, <1>2 DEF Kinds

-----------------------------------------------------------------------------
(* The inductive invariant.                                                 *)

\* The level and the entries of the history are levels, and the index is at an entry.
LevelsInv ==
  /\ level \in AllLevels
  /\ history \in Seq(AllLevels)
  /\ current \in 1..Len(history)

\* The clipboard holds a kind and where an object of that kind was.
WidgetsInv ==
  /\ selected = [k \in Kinds |-> selected[k]]
  /\ mode \in Kinds
  /\ currentWave \in Nat \ {0}
  /\ currentEnemy \in Nat \ {0}
  /\ clipboard # None =>
       /\ clipboard[1] \in Kinds
       /\ IF clipboard[1] = "Waves"
          THEN clipboard[2][1] \in Nat \ {0}
          ELSE clipboard[2][1] \in shelfOf(clipboard[1])

EditorInv == LevelsInv /\ WidgetsInv /\ SelectionExists /\ SettledIsRecorded

\* After saveToHistory the index is at what was saved.
LEMMA SaveRecords ==
  ASSUME LevelsInv, NEW l \in AllLevels, SaveToHistory(l)
  PROVE  /\ history' \in Seq(AllLevels)
         /\ current' \in 1..Len(history')
         /\ history'[current'] = l
<1> DEFINE before == SubSeq(history, 1, current)
           longer == Append(before, l)
<1>1. before \in Seq(AllLevels) /\ Len(before) = current /\ current \in Nat \ {0}
  BY SubSeqProperties, ElementOfSeq DEF LevelsInv
<1>2. /\ longer \in Seq(AllLevels) /\ Len(longer) = current + 1
      /\ longer[current + 1] = l
  BY <1>1, AppendProperties
<1>3. \/ history' = Tail(longer) /\ current' = Len(longer) - 1
      \/ history' = longer /\ current' = Len(longer)
  BY DEF SaveToHistory
<1> HIDE DEF before, longer
<1>4. longer # << >>
  BY <1>1, <1>2, EmptySeq
<1>5. /\ Tail(longer) \in Seq(AllLevels) /\ Len(Tail(longer)) = current
      /\ Tail(longer)[current] = l
  BY <1>1, <1>2, <1>4, HeadTailProperties
<1> QED BY <1>1, <1>2, <1>3, <1>5

EditStep(changed) ==
  EditAndRecord(changed) \/ EditAndWait(changed) \/ EditUntracked(changed)

\* However a handler leaves the level, it is recorded or something waits.
LEMMA EditMade ==
  ASSUME EditorInv, NEW changed \in AllLevels, EditStep(changed)
  PROVE  level' = changed /\ LevelsInv' /\ SettledIsRecorded'
<1>1. level' = changed
  BY DEF EditStep, EditAndRecord, EditAndWait, EditUntracked, Edit
<1>2. CASE EditAndRecord(changed)
  <2>1. SaveToHistory(changed)
    BY <1>2 DEF EditAndRecord
  <2> QED BY <1>1, <2>1, SaveRecords DEF EditorInv, LevelsInv, SettledIsRecorded
<1>3. CASE EditAndWait(changed)
  BY <1>1, <1>3 DEF EditAndWait, EditorInv, LevelsInv, SettledIsRecorded
<1>4. CASE EditUntracked(changed)
  BY <1>1, <1>4 DEF EditUntracked, EditorInv, LevelsInv, SettledIsRecorded
<1> QED BY <1>1, <1>2, <1>3, <1>4 DEF EditStep

\* A handler that leaves the level alone, and what is selected after it, was there
\* or is nothing.
LEMMA KeptInv ==
  ASSUME EditorInv, LevelKept, WidgetsInv',
         \A k \in Kinds : selected'[k] # None => selected'[k] \in Objects(k)
  PROVE  EditorInv'
<1>1. LevelsInv' /\ SettledIsRecorded'
  BY DEF LevelKept, EditorInv, LevelsInv, SettledIsRecorded
<1>2. \A k \in Kinds : Objects(k)' = Objects(k)
  BY DEF LevelKept, Objects
<1> QED BY <1>1, <1>2 DEF EditorInv, SelectionExists

\* A handler that changes the level.
LEMMA EditInv ==
  ASSUME EditorInv, NEW changed \in AllLevels, EditStep(changed), WidgetsInv',
         \A k \in Kinds : selected'[k] # None => selected'[k] \in Objects(k)'
  PROVE  EditorInv'
BY EditMade DEF EditorInv, SelectionExists

-----------------------------------------------------------------------------
(* The canvas.                                                              *)

\* What the mouse is on is there.
LEMMA HitsAreThere ==
  ASSUME NEW hits \in Hits, NEW k \in Kinds
  PROVE  hits[k] # None => hits[k] \in Objects(k)
BY DEF Hits, Kinds

\* A thing added to a shelf is the last one there, and the others are where they were.
LEMMA AddedLast ==
  ASSUME level \in AllLevels, NEW k \in {"Obstacles", "PowerUps"},
         NEW s \in shelfOf(k), NEW p \in Places
  PROVE  /\ Added(s, p) \in AllLevels
         /\ level' = Added(s, p) =>
              /\ Last_(s) \in Objects(k)'
              /\ \A j \in Kinds : Objects(j) \subseteq Objects(j)'
<1> DEFINE q == Append(level.placed[s], p)
<1>1. s \in Shelves /\ k \in Kinds
  BY DEF shelfOf, Shelves, Kinds
<1>2. level.placed[s] \in Seq(Places) /\ level.placed \in [Shelves -> Seq(Places)]
  BY <1>1, LevelParts
<1>3. q \in Seq(Places) /\ Len(q) = Len(level.placed[s]) + 1
  BY <1>2, AppendProperties
<1>4. Added(s, p) = [level EXCEPT !.placed[s] = q]
  BY DEF Added, AllLevels
<1> HIDE DEF q
<1>5. /\ Added(s, p) \in AllLevels
      /\ Added(s, p).placed = [level.placed EXCEPT ![s] = q]
      /\ Added(s, p).waves = level.waves
  BY <1>1, <1>3, <1>4, WithShelf
<1>6. ASSUME level' = Added(s, p)
      PROVE  /\ Last_(s) \in Objects(k)'
             /\ \A j \in Kinds : Objects(j) \subseteq Objects(j)'
  <2>1. level'.placed[s] = q /\ level' \in AllLevels
    BY <1>1, <1>2, <1>5, <1>6
  <2>2. Len(level.placed[s]) + 1 \in DOMAIN level'.placed[s]
    BY <1>2, <1>3, <2>1
  <2>3. Objects(k)' = UNION {{t} \X DOMAIN level'.placed[t] : t \in shelfOf(k)}
    BY DEF Objects
  <2>4. Last_(s) \in Objects(k)'
    BY <2>2, <2>3 DEF Last_
  <2>5. \A t \in Shelves : Len(level.placed[t]) <= Len(level'.placed[t])
    <3> SUFFICES ASSUME NEW t \in Shelves
                 PROVE  Len(level.placed[t]) <= Len(level'.placed[t])
      OBVIOUS
    <3>1. level.placed[t] \in Seq(Places)
      BY LevelParts
    <3>2. level'.placed[t] = IF t = s THEN q ELSE level.placed[t]
      BY <1>2, <1>5, <1>6
    <3> QED BY <1>2, <1>3, <3>1, <3>2
  <2>6. level'.waves = level.waves
    BY <1>5, <1>6
  <2>7. Len(level.waves) \in Nat /\ \A w \in 1..Len(level.waves) : Len(level.waves[w].enemies) \in Nat
    BY LevelParts
  <2>8. \A j \in Kinds : Objects(j) \subseteq Objects(j)'
    BY <2>1, <2>5, <2>6, <2>7, ObjectsKept
  <2> QED BY <2>4, <2>8
<1> QED BY <1>5, <1>6

\* So is a wave.
LEMMA AddedWave ==
  ASSUME level \in AllLevels, NEW v \in Wave
  PROVE  /\ [level EXCEPT !.waves = Append(@, v)] \in AllLevels
         /\ level' = [level EXCEPT !.waves = Append(@, v)] =>
              /\ NewWave \in Objects("Waves")'
              /\ \A j \in Kinds : Objects(j) \subseteq Objects(j)'
<1> DEFINE ws == Append(level.waves, v)
<1>1. level.waves \in Seq(Wave) /\ level.placed \in [Shelves -> Seq(Places)]
  BY LevelParts
<1>2. /\ ws \in Seq(Wave) /\ Len(ws) = Len(level.waves) + 1
      /\ \A w \in 1..Len(level.waves) : ws[w] = level.waves[w]
      /\ ws[Len(level.waves) + 1] = v
  BY <1>1, AppendProperties
<1>3. [level EXCEPT !.waves = Append(@, v)] = [level EXCEPT !.waves = ws]
  BY DEF AllLevels
<1> HIDE DEF ws
<1>4. /\ [level EXCEPT !.waves = ws] \in AllLevels
      /\ [level EXCEPT !.waves = ws].waves = ws
      /\ [level EXCEPT !.waves = ws].placed = level.placed
  BY <1>2, WithWaves
<1>5. ASSUME level' = [level EXCEPT !.waves = ws]
      PROVE  /\ NewWave \in Objects("Waves")'
             /\ \A j \in Kinds : Objects(j) \subseteq Objects(j)'
  <2>1. level' \in AllLevels /\ level'.waves = ws /\ level'.placed = level.placed
    BY <1>4, <1>5
  <2>2. Len(level.waves) + 1 \in DOMAIN level'.waves
    BY <1>1, <1>2, <2>1
  <2>3. 0 \in 0..Len(level'.waves[Len(level.waves) + 1].enemies)
    <3>1. v.enemies \in Seq(Places)
      BY DEF Wave
    <3> QED BY <1>2, <2>1, <3>1
  <2>4. Objects("Waves")' = UNION {{u} \X (0..Len(level'.waves[u].enemies)) : u \in DOMAIN level'.waves}
    BY DEF Objects
  <2>5. NewWave \in Objects("Waves")'
    BY <2>2, <2>3, <2>4 DEF NewWave
  <2>6. \A t \in Shelves : Len(level.placed[t]) <= Len(level'.placed[t])
    <3>1. \A t \in Shelves : Len(level.placed[t]) \in Nat
      BY <1>1
    <3> QED BY <2>1, <3>1
  <2>7. /\ Len(level.waves) <= Len(level'.waves)
        /\ \A w \in 1..Len(level.waves) :
             Len(level.waves[w].enemies) <= Len(level'.waves[w].enemies)
    <3>1. \A w \in 1..Len(level.waves) : Len(level.waves[w].enemies) \in Nat
      BY LevelParts
    <3> QED BY <1>1, <1>2, <2>1, <3>1
  <2>8. \A j \in Kinds : Objects(j) \subseteq Objects(j)'
    BY <2>1, <2>6, <2>7, ObjectsKept
  <2> QED BY <2>5, <2>8
<1> QED BY <1>3, <1>4, <1>5

LEMMA SelectStep ==
  ASSUME EditorInv, NEW k \in Kinds, NEW o \in Objects(k), Select(k, o)
  PROVE  EditorInv'
<1>1. /\ selected' = [NothingSelected EXCEPT ![k] = o]
      /\ mode' = k /\ LevelKept /\ UNCHANGED <<clipboard, currentEnemy>>
      /\ currentWave' = IF k = "Waves" THEN o[1] ELSE currentWave
  BY DEF Select
<1>2. currentWave' \in Nat \ {0}
  <2>1. CASE k = "Waves"
    <3>1. PICK w \in 1..Len(level.waves) : \E e \in 0..Len(level.waves[w].enemies) : o = <<w, e>>
      BY <2>1, WaveObjects DEF EditorInv, LevelsInv
    <3> QED BY <1>1, <2>1, <3>1
  <2>2. CASE k # "Waves"
    BY <1>1, <2>2 DEF EditorInv, WidgetsInv
  <2> QED BY <2>1, <2>2
<1>3. WidgetsInv'
  BY <1>1, <1>2 DEF EditorInv, WidgetsInv, NothingSelected, shelfOf
<1>4. \A j \in Kinds : selected'[j] # None => selected'[j] \in Objects(j)
  BY <1>1 DEF NothingSelected
<1> QED BY <1>1, <1>3, <1>4, KeptInv

LEMMA CreateObjectStep ==
  ASSUME EditorInv, NEW k \in {"Obstacles", "PowerUps"}, CreateObject(k)
  PROVE  EditorInv'
<1>1. PICK s \in shelfOf(k), p \in Places :
        /\ EditAndRecord(Added(s, Rounded[p]))
        /\ selected' = [selected EXCEPT ![k] = Last_(s)]
  BY DEF CreateObject
<1>2. Rounded[p] \in Places
  BY EditorConstants
<1>3. Added(s, Rounded[p]) \in AllLevels
  BY <1>2, AddedLast DEF EditorInv, LevelsInv
<1>4. EditStep(Added(s, Rounded[p]))
  BY <1>1 DEF EditStep
<1>5. level' = Added(s, Rounded[p])
  BY <1>3, <1>4, EditMade
<1>6. /\ Last_(s) \in Objects(k)'
      /\ \A j \in Kinds : Objects(j) \subseteq Objects(j)'
  BY <1>2, <1>5, AddedLast DEF EditorInv, LevelsInv
<1>7. UNCHANGED <<clipboard, mode, currentWave, currentEnemy>>
  BY DEF CreateObject
<1>8. WidgetsInv'
  BY <1>1, <1>7 DEF EditorInv, WidgetsInv, shelfOf
<1>9. \A j \in Kinds : selected'[j] # None => selected'[j] \in Objects(j)'
  BY <1>1, <1>6 DEF EditorInv, WidgetsInv, SelectionExists
<1> QED BY <1>3, <1>4, <1>8, <1>9, EditInv

LEMMA CreateWaveStep ==
  ASSUME EditorInv, CreateWave
  PROVE  EditorInv'
<1>1. PICK p \in Places :
        EditAndRecord([level EXCEPT !.waves = Append(@, [at |-> Rounded[p], enemies |-> << >>])])
  BY DEF CreateWave
<1> DEFINE v == [at |-> Rounded[p], enemies |-> << >>]
           changed == [level EXCEPT !.waves = Append(@, v)]
<1>2. v \in Wave
  BY EditorConstants DEF Wave
<1> HIDE DEF v
<1>3. changed \in AllLevels /\ EditStep(changed)
  BY <1>1, <1>2, AddedWave DEF EditorInv, LevelsInv, EditStep, v
<1>4. level' = changed
  BY <1>3, EditMade
<1>5. /\ NewWave \in Objects("Waves")'
      /\ \A j \in Kinds : Objects(j) \subseteq Objects(j)'
  BY <1>2, <1>4, AddedWave DEF EditorInv, LevelsInv
<1> HIDE DEF changed
<1>6. /\ selected' = [selected EXCEPT !["Waves"] = NewWave]
      /\ currentWave' = NewWave[1]
      /\ UNCHANGED <<clipboard, mode, currentEnemy>>
  BY DEF CreateWave
<1>7. NewWave[1] \in Nat \ {0}
  BY LevelParts DEF NewWave, EditorInv, LevelsInv
<1>8. WidgetsInv'
  BY <1>6, <1>7 DEF EditorInv, WidgetsInv, shelfOf
<1>9. \A j \in Kinds : selected'[j] # None => selected'[j] \in Objects(j)'
  BY <1>5, <1>6 DEF EditorInv, WidgetsInv, SelectionExists, Kinds
<1> QED BY <1>3, <1>8, <1>9, EditInv

LEMMA ClickStep == EditorInv /\ ClickCanvas => EditorInv'
<1> SUFFICES ASSUME EditorInv, ClickCanvas
             PROVE  EditorInv'
  OBVIOUS
<1>1. PICK hits \in Hits, kind \in Kinds : HandleClick(kind, hits[kind])
  BY DEF ClickCanvas
<1>2. CASE hits[kind] # None /\ Select(kind, hits[kind])
  BY <1>2, HitsAreThere, SelectStep
<1>3. CASE IF kind = "Waves" THEN CreateWave ELSE CreateObject(kind)
  BY <1>3, CreateWaveStep, CreateObjectStep DEF Kinds
<1>4. CASE Deselect(kind)
  <2>1. /\ selected' = [selected EXCEPT ![kind] = None]
        /\ LevelKept /\ UNCHANGED <<clipboard, mode, currentWave, currentEnemy>>
    BY <1>4 DEF Deselect
  <2>2. WidgetsInv'
    BY <2>1 DEF EditorInv, WidgetsInv, shelfOf
  <2>3. \A j \in Kinds : selected'[j] # None => selected'[j] \in Objects(j)
    BY <2>1 DEF EditorInv, WidgetsInv, SelectionExists
  <2> QED BY <2>1, <2>2, <2>3, KeptInv
<1> QED BY <1>1, <1>2, <1>3, <1>4 DEF HandleClick

\* Element by element, a sequence gives one as long.
LEMMA SameLength ==
  ASSUME NEW S, NEW T, NEW q \in Seq(S), NEW f \in [DOMAIN q -> T]
  PROVE  f \in Seq(T) /\ Len(f) = Len(q)
OBVIOUS

\* A drag moves things and neither adds nor removes any.
LEMMA DragKeeps ==
  ASSUME level \in AllLevels, NEW p \in Places
  PROVE  /\ DragTo(p) \in AllLevels
         /\ \A s \in Shelves : Len(DragTo(p).placed[s]) = Len(level.placed[s])
         /\ Len(DragTo(p).waves) = Len(level.waves)
         /\ \A w \in 1..Len(level.waves) :
              DragTo(p).waves[w].enemies = level.waves[w].enemies
<1> DEFINE to(kind, old, object) ==
             IF kind \in dragging /\ selected[kind] = object THEN Rounded[p] ELSE old
           shelf(s) == [i \in DOMAIN level.placed[s] |->
             to(IF s \in ObstacleShelves THEN "Obstacles" ELSE "PowerUps", level.placed[s][i], <<s, i>>)]
           shelves == [s \in Shelves |-> shelf(s)]
           at(w) == IF selected["Waves"] # None /\ selected["Waves"][1] = w
                    THEN to("Waves", level.waves[w].at, selected["Waves"])
                    ELSE level.waves[w].at
           waves == [w \in DOMAIN level.waves |-> [level.waves[w] EXCEPT !.at = at(w)]]
<1>0. Rounded[p] \in Places
  BY EditorConstants
<1>1. DragTo(p) = [level EXCEPT !.placed = shelves, !.waves = waves]
  BY DEF DragTo, AllLevels
<1>2. ASSUME NEW s \in Shelves
      PROVE  shelf(s) \in Seq(Places) /\ Len(shelf(s)) = Len(level.placed[s])
  <2>1. level.placed[s] \in Seq(Places)
    BY LevelParts
  <2>2. \A i \in DOMAIN level.placed[s] : level.placed[s][i] \in Places
    BY <2>1
  <2>3. shelf(s) \in [DOMAIN level.placed[s] -> Places]
    BY <1>0, <2>2
  <2> HIDE DEF shelf
  <2> QED BY <2>1, <2>3, SameLength
<1>3. waves \in Seq(Wave) /\ Len(waves) = Len(level.waves)
      /\ \A w \in 1..Len(level.waves) : waves[w].enemies = level.waves[w].enemies
  <2>1. level.waves \in Seq(Wave) /\ DOMAIN level.waves = 1..Len(level.waves)
    BY LevelParts
  <2>2. ASSUME NEW w \in DOMAIN level.waves
        PROVE  /\ [level.waves[w] EXCEPT !.at = at(w)] \in Wave
               /\ [level.waves[w] EXCEPT !.at = at(w)].enemies = level.waves[w].enemies
    <3>1. level.waves[w] \in Wave
      BY <2>1
    <3>2. at(w) \in Places
      BY <1>0, <3>1 DEF Wave
    <3> HIDE DEF at
    <3> QED BY <3>1, <3>2 DEF Wave
  <2>3. waves \in [DOMAIN level.waves -> Wave]
    BY <2>2
  <2>4. \A w \in 1..Len(level.waves) : waves[w].enemies = level.waves[w].enemies
    BY <2>1, <2>2
  <2> HIDE DEF waves
  <2> QED BY <2>1, <2>3, <2>4, SameLength
<1>4. shelves \in [Shelves -> Seq(Places)]
      /\ \A s \in Shelves : Len(shelves[s]) = Len(level.placed[s])
  BY <1>2
<1> HIDE DEF shelves, waves
<1> QED BY <1>1, <1>3, <1>4 DEF AllLevels, Wave

LEMMA DragStep == EditorInv /\ DragCanvas => EditorInv'
<1> SUFFICES ASSUME EditorInv, DragCanvas
             PROVE  EditorInv'
  OBVIOUS
<1>1. UNCHANGED <<selected, clipboard, mode, currentWave, currentEnemy>>
  BY DEF DragCanvas
<1>2. WidgetsInv'
  BY <1>1 DEF EditorInv, WidgetsInv, shelfOf
<1>3. CASE LevelKept
  BY <1>1, <1>2, <1>3, KeptInv DEF EditorInv, SelectionExists
<1>4. ASSUME NEW p \in Places, EditAndWait(DragTo(p))
      PROVE  EditorInv'
  <2>1. level \in AllLevels
    BY DEF EditorInv, LevelsInv
  <2>2. DragTo(p) \in AllLevels /\ EditStep(DragTo(p))
    BY <1>4, <2>1, DragKeeps DEF EditStep
  <2>3. level' = DragTo(p)
    BY <2>2, EditMade
  <2>4. \A s \in Shelves : Len(level.placed[s]) <= Len(level'.placed[s])
    <3>1. \A s \in Shelves : Len(level.placed[s]) \in Nat
      BY <2>1, LevelParts
    <3> QED BY <2>1, <2>3, <3>1, DragKeeps
  <2>5. /\ Len(level.waves) <= Len(level'.waves)
        /\ \A w \in 1..Len(level.waves) :
             Len(level.waves[w].enemies) <= Len(level'.waves[w].enemies)
    <3>1. Len(level.waves) \in Nat /\ \A w \in 1..Len(level.waves) : Len(level.waves[w].enemies) \in Nat
      BY <2>1, LevelParts
    <3> QED BY <2>1, <2>3, <3>1, DragKeeps
  <2>6. \A k \in Kinds : Objects(k) \subseteq Objects(k)'
    BY <2>1, <2>2, <2>3, <2>4, <2>5, ObjectsKept
  <2> QED BY <1>1, <1>2, <2>2, <2>6, EditInv DEF EditorInv, SelectionExists
<1> QED BY <1>3, <1>4 DEF DragCanvas

-----------------------------------------------------------------------------
(* The panels.                                                              *)

\* A change of the level after which each kind has the objects it had, and the
\* selection stays.
LEMMA SelectionStays ==
  ASSUME EditorInv, NEW changed \in AllLevels, EditStep(changed),
         UNCHANGED <<selected, clipboard, mode>>,
         currentWave' \in Nat \ {0}, currentEnemy' \in Nat \ {0},
         \A s \in Shelves : Len(changed.placed[s]) = Len(level.placed[s]),
         Len(changed.waves) = Len(level.waves),
         \A w \in 1..Len(level.waves) :
           Len(changed.waves[w].enemies) = Len(level.waves[w].enemies)
  PROVE  EditorInv'
<1>1. level \in AllLevels /\ level' = changed
  BY EditMade DEF EditorInv, LevelsInv
<1>2. WidgetsInv'
  BY DEF EditorInv, WidgetsInv, shelfOf
<1>3. /\ \A s \in Shelves : Len(level.placed[s]) \in Nat
      /\ Len(level.waves) \in Nat
      /\ \A w \in 1..Len(level.waves) : Len(level.waves[w].enemies) \in Nat
  BY <1>1, LevelParts
<1>4. \A k \in Kinds : Objects(k) \subseteq Objects(k)'
  BY <1>1, <1>3, ObjectsKept
<1> QED BY <1>2, <1>4, EditInv DEF EditorInv, SelectionExists

\* The selected wave and enemy are there.
LEMMA SelectedWave ==
  ASSUME EditorInv, selected["Waves"] # None
  PROVE  /\ wave \in 1..Len(level.waves)
         /\ enemy \in 0..Len(level.waves[wave].enemies)
         /\ selected["Waves"] = <<wave, enemy>>
<1>1. selected["Waves"] \in Objects("Waves")
  BY DEF EditorInv, SelectionExists, Kinds
<1>2. PICK w \in 1..Len(level.waves) :
        \E e \in 0..Len(level.waves[w].enemies) : selected["Waves"] = <<w, e>>
  BY <1>1, WaveObjects DEF EditorInv, LevelsInv
<1> QED BY <1>2 DEF wave, enemy

\* So is the selected obstacle or power-up.
LEMMA SelectedObject ==
  ASSUME EditorInv, NEW k \in {"Obstacles", "PowerUps"}, selected[k] # None
  PROVE  /\ selected[k][1] \in shelfOf(k) /\ shelfOf(k) \subseteq Shelves
         /\ selected[k][2] \in 1..Len(level.placed[selected[k][1]])
<1>1. selected[k] \in Objects(k)
  BY DEF EditorInv, SelectionExists, Kinds
<1>2. PICK s \in shelfOf(k) : \E i \in 1..Len(level.placed[s]) : selected[k] = <<s, i>>
  BY <1>1, ShelfObjects DEF EditorInv, LevelsInv
<1>3. shelfOf(k) \subseteq Shelves
  BY DEF shelfOf, Shelves
<1> QED BY <1>2, <1>3

LEMMA TypePlaceStep == EditorInv /\ TypePlace => EditorInv'
<1> SUFFICES ASSUME EditorInv, NEW k \in Kinds, NEW p \in Places, selected[k] # None,
                    EditAndWait(Put(k, selected[k], p)),
                    UNCHANGED <<selected, clipboard, mode, currentWave, currentEnemy>>
             PROVE  EditorInv'
  BY DEF TypePlace
<1>1. level \in AllLevels /\ currentWave' \in Nat \ {0} /\ currentEnemy' \in Nat \ {0}
  BY DEF EditorInv, LevelsInv, WidgetsInv
<1>2. EditStep(Put(k, selected[k], p))
  BY DEF EditStep
<1>3. CASE k = "Waves"
  <2>1. wave \in 1..Len(level.waves)
    BY <1>3, SelectedWave
  <2>2. Put(k, selected[k], p) = [level EXCEPT !.waves[wave].at = p]
    BY <1>3 DEF Put, wave
  <2> DEFINE changed == [level EXCEPT !.waves[wave].at = p]
  <2>3. /\ changed \in AllLevels /\ changed.placed = level.placed
        /\ Len(changed.waves) = Len(level.waves)
        /\ \A u \in 1..Len(level.waves) : changed.waves[u].enemies = level.waves[u].enemies
    BY <1>1, <2>1, WithWaveAt
  <2>4. EditStep(changed)
    BY <1>2, <2>2
  <2> HIDE DEF changed
  <2> QED BY <1>1, <2>3, <2>4, SelectionStays
<1>4. CASE k \in {"Obstacles", "PowerUps"}
  <2> DEFINE s == selected[k][1]
             i == selected[k][2]
  <2>1. s \in Shelves /\ i \in 1..Len(level.placed[s])
    BY <1>4, SelectedObject
  <2>2. Put(k, selected[k], p) = [level EXCEPT !.placed[s][i] = p]
    BY <1>4 DEF Put
  <2> HIDE DEF s, i
  <2> DEFINE changed == [level EXCEPT !.placed[s][i] = p]
  <2>3. /\ changed \in AllLevels /\ changed.waves = level.waves
        /\ \A t \in Shelves : Len(changed.placed[t]) = Len(level.placed[t])
    BY <1>1, <2>1, WithPlace
  <2>4. EditStep(changed)
    BY <1>2, <2>2
  <2> HIDE DEF changed
  <2> QED BY <1>1, <2>3, <2>4, SelectionStays
<1> QED BY <1>3, <1>4 DEF Kinds

\* What happens on one shelf leaves the objects of the other kinds.
LEMMA OtherKinds ==
  ASSUME level \in AllLevels, NEW k \in {"Obstacles", "PowerUps"},
         level'.waves = level.waves,
         \A t \in Shelves \ shelfOf(k) : level'.placed[t] = level.placed[t]
  PROVE  \A j \in Kinds \ {k} : Objects(j)' = Objects(j)
<1>1. ASSUME NEW j \in {"Obstacles", "PowerUps"}, j # k
      PROVE  Objects(j)' = Objects(j)
  <2>1. shelfOf(j) \subseteq Shelves \ shelfOf(k)
    BY <1>1, EditorConstants DEF shelfOf, Shelves
  <2>2. \A t \in shelfOf(j) : level'.placed[t] = level.placed[t]
    BY <2>1
  <2>3. Objects(j)' = UNION {{t} \X DOMAIN level'.placed[t] : t \in shelfOf(j)}
    BY <1>1 DEF Objects
  <2>4. Objects(j) = UNION {{t} \X DOMAIN level.placed[t] : t \in shelfOf(j)}
    BY <1>1 DEF Objects
  <2> QED BY <2>2, <2>3, <2>4
<1>2. Objects("Waves")' = Objects("Waves")
  BY DEF Objects
<1> QED BY <1>1, <1>2 DEF Kinds

LEMMA ChangeTypeStep == EditorInv /\ ChangeType => EditorInv'
<1> SUFFICES ASSUME EditorInv, ChangeType
             PROVE  EditorInv'
  OBVIOUS
<1> DEFINE s == selected["Obstacles"][1]
           i == selected["Obstacles"][2]
           place == level.placed[s][i]
<1>0. level \in AllLevels /\ level.placed \in [Shelves -> Seq(Places)]
  BY LevelParts DEF EditorInv, LevelsInv
<1>1. selected["Obstacles"] # None
  BY DEF ChangeType
<1>2. s \in shelfOf("Obstacles") /\ s \in Shelves /\ i \in 1..Len(level.placed[s])
  BY <1>1, SelectedObject
<1>3. PICK to \in ObstacleShelves \ {s} :
        /\ EditAndWait([level EXCEPT !.placed[s] = RemoveAt(@, i),
                                     !.placed[to] = Append(@, Rounded[place])])
        /\ selected' = [selected EXCEPT !["Obstacles"] = Last_(to)]
  BY DEF ChangeType
<1>4. UNCHANGED <<clipboard, mode, currentWave, currentEnemy>>
  BY DEF ChangeType
<1>5. Rounded[place] \in Places
  <2>1. level.placed[s] \in Seq(Places)
    BY <1>0, <1>2
  <2>2. place \in Places
    BY <1>2, <2>1, ElementOfSeq
  <2> QED BY <2>2, EditorConstants
<1> DEFINE a == RemoveAt(level.placed[s], i)
           b == Append(level.placed[to], Rounded[place])
           changed == [level EXCEPT !.placed = [level.placed EXCEPT ![s] = a, ![to] = b]]
<1>6. to \in Shelves /\ to # s /\ to \in shelfOf("Obstacles")
  BY <1>3 DEF Shelves, shelfOf
<1>7. a \in Seq(Places) /\ b \in Seq(Places) /\ Len(b) = Len(level.placed[to]) + 1
  BY <1>0, <1>2, <1>5, <1>6, RemoveAtType, AppendProperties
<1>8. EditStep(changed)
  <2>1. changed = [level EXCEPT !.placed[s] = RemoveAt(@, i),
                                !.placed[to] = Append(@, Rounded[place])]
    BY <1>0, <1>6 DEF AllLevels
  <2> HIDE DEF changed
  <2> QED BY <1>3, <2>1 DEF EditStep
<1> HIDE DEF s, i, place, a, b
<1>9. /\ changed \in AllLevels /\ changed.waves = level.waves
      /\ changed.placed = [level.placed EXCEPT ![s] = a, ![to] = b]
  BY <1>0, <1>2, <1>6, <1>7 DEF AllLevels
<1> HIDE DEF changed
<1>10. level' = changed
  BY <1>8, <1>9, EditMade
<1>11. \A j \in Kinds \ {"Obstacles"} : Objects(j)' = Objects(j)
  BY <1>0, <1>2, <1>6, <1>9, <1>10, OtherKinds
<1>12. Last_(to) \in Objects("Obstacles")'
  <2>1. level'.placed[to] = b
    BY <1>0, <1>6, <1>9, <1>10
  <2>2. Len(level.placed[to]) + 1 \in DOMAIN level'.placed[to]
    BY <1>0, <1>6, <1>7, <2>1
  <2>3. Objects("Obstacles")' = UNION {{t} \X DOMAIN level'.placed[t] : t \in shelfOf("Obstacles")}
    BY DEF Objects
  <2> QED BY <1>6, <2>2, <2>3 DEF Last_
<1>13. WidgetsInv'
  BY <1>3, <1>4 DEF EditorInv, WidgetsInv, shelfOf
<1>14. \A j \in Kinds : selected'[j] # None => selected'[j] \in Objects(j)'
  BY <1>3, <1>11, <1>12 DEF EditorInv, WidgetsInv, SelectionExists
<1> QED BY <1>8, <1>9, <1>13, <1>14, EditInv

LEMMA DeleteObjectStep == EditorInv /\ DeleteObject => EditorInv'
<1> SUFFICES ASSUME EditorInv, DeleteObject
             PROVE  EditorInv'
  OBVIOUS
<1>1. PICK k \in {"Obstacles", "PowerUps"} :
        /\ selected[k] # None
        /\ EditAndRecord([level EXCEPT !.placed[selected[k][1]] = RemoveAt(@, selected[k][2])])
        /\ selected' = [selected EXCEPT ![k] = None]
  BY DEF DeleteObject
<1> DEFINE s == selected[k][1]
           i == selected[k][2]
           q == RemoveAt(level.placed[s], i)
           changed == [level EXCEPT !.placed[s] = q]
<1>2. level \in AllLevels /\ level.placed \in [Shelves -> Seq(Places)]
  BY LevelParts DEF EditorInv, LevelsInv
<1>3. s \in shelfOf(k) /\ s \in Shelves /\ i \in 1..Len(level.placed[s])
  BY <1>1, SelectedObject
<1>4. EditStep(changed)
  BY <1>1, <1>2 DEF EditStep, AllLevels
<1> HIDE DEF s, i
<1>5. q \in Seq(Places)
  BY <1>2, <1>3, RemoveAtType
<1> HIDE DEF q
<1>6. /\ changed \in AllLevels /\ changed.waves = level.waves
      /\ changed.placed = [level.placed EXCEPT ![s] = q]
  BY <1>2, <1>3, <1>5, WithShelf
<1> HIDE DEF changed
<1>7. level' = changed
  BY <1>4, <1>6, EditMade
<1>8. \A j \in Kinds \ {k} : Objects(j)' = Objects(j)
  BY <1>2, <1>3, <1>6, <1>7, OtherKinds
<1>9. UNCHANGED <<clipboard, mode, currentWave, currentEnemy>>
  BY DEF DeleteObject
<1>10. WidgetsInv'
  BY <1>1, <1>9 DEF EditorInv, WidgetsInv, shelfOf
<1>11. \A j \in Kinds : selected'[j] # None => selected'[j] \in Objects(j)'
  BY <1>1, <1>8 DEF EditorInv, WidgetsInv, SelectionExists, Kinds
<1> QED BY <1>4, <1>6, <1>10, <1>11, EditInv

LEMMA DuplicateObjectStep == EditorInv /\ DuplicateObject => EditorInv'
<1> SUFFICES ASSUME EditorInv, DuplicateObject
             PROVE  EditorInv'
  OBVIOUS
<1>1. PICK k \in {"Obstacles", "PowerUps"}, p \in Places :
        /\ selected[k] # None
        /\ EditStep(Added(selected[k][1], Rounded[p]))
        /\ selected' = [selected EXCEPT ![k] = Last_(selected[k][1])]
  BY DEF DuplicateObject, EditStep
<1> DEFINE s == selected[k][1]
           changed == Added(s, Rounded[p])
<1>2. level \in AllLevels
  BY DEF EditorInv, LevelsInv
<1>3. s \in shelfOf(k) /\ Rounded[p] \in Places
  BY <1>1, SelectedObject, EditorConstants
<1>4. EditStep(changed) /\ selected' = [selected EXCEPT ![k] = Last_(s)]
  BY <1>1
<1> HIDE DEF s
<1>5. changed \in AllLevels
  BY <1>2, <1>3, AddedLast
<1>6. level' = changed
  BY <1>4, <1>5, EditMade
<1>7. /\ Last_(s) \in Objects(k)'
      /\ \A j \in Kinds : Objects(j) \subseteq Objects(j)'
  BY <1>2, <1>3, <1>6, AddedLast
<1> HIDE DEF changed
<1>8. UNCHANGED <<clipboard, mode, currentWave, currentEnemy>>
  BY DEF DuplicateObject
<1>9. WidgetsInv'
  BY <1>4, <1>8 DEF EditorInv, WidgetsInv, shelfOf
<1>10. \A j \in Kinds : selected'[j] # None => selected'[j] \in Objects(j)'
  BY <1>4, <1>7 DEF EditorInv, WidgetsInv, SelectionExists
<1> QED BY <1>4, <1>5, <1>9, <1>10, EditInv

-----------------------------------------------------------------------------
(* Waves and enemies.                                                       *)

\* A change of the waves after which a wave, or an enemy of one, is selected.
LEMMA WaveEdit ==
  ASSUME EditorInv, NEW changed \in AllLevels, EditStep(changed),
         changed.placed = level.placed, UNCHANGED <<clipboard, mode>>,
         currentWave' \in Nat \ {0}, currentEnemy' \in Nat \ {0},
         NEW o, selected' = [selected EXCEPT !["Waves"] = o],
         \/ o = None
         \/ \E w \in 1..Len(changed.waves) :
              \E e \in 0..Len(changed.waves[w].enemies) : o = <<w, e>>
  PROVE  EditorInv'
<1>1. level' = changed /\ level' \in AllLevels
  BY EditMade
<1>2. \A j \in Kinds \ {"Waves"} : Objects(j)' = Objects(j)
  BY <1>1 DEF Objects
<1>3. o # None => o \in Objects("Waves")'
  <2> SUFFICES ASSUME o # None
               PROVE  o \in Objects("Waves")'
    OBVIOUS
  <2>1. PICK w \in 1..Len(changed.waves) :
          \E e \in 0..Len(changed.waves[w].enemies) : o = <<w, e>>
    OBVIOUS
  <2>2. w \in DOMAIN level'.waves
    BY <1>1, <2>1, LevelParts
  <2>3. Objects("Waves")' = UNION {{u} \X (0..Len(level'.waves[u].enemies)) : u \in DOMAIN level'.waves}
    BY DEF Objects
  <2> QED BY <1>1, <2>1, <2>2, <2>3
<1>4. WidgetsInv'
  BY DEF EditorInv, WidgetsInv, shelfOf
<1>5. \A j \in Kinds : selected'[j] # None => selected'[j] \in Objects(j)'
  BY <1>2, <1>3 DEF EditorInv, WidgetsInv, SelectionExists
<1> QED BY <1>4, <1>5, EditInv

LEMMA StepWaveStep == EditorInv /\ StepWave => EditorInv'
<1> SUFFICES ASSUME EditorInv, StepWave
             PROVE  EditorInv'
  OBVIOUS
<1>1. /\ level \in AllLevels /\ level.waves \in Seq(Wave)
      /\ currentWave \in Nat \ {0} /\ currentEnemy \in Nat \ {0}
  BY LevelParts DEF EditorInv, LevelsInv, WidgetsInv
<1> DEFINE n == Len(level.waves)
<1>2. n \in Nat \ {0}
  BY <1>1, EmptySeq DEF StepWave
<1>3. PICK by \in {1, n - 1} :
        LET w == ((currentWave - 1 + by) % n) + 1
        IN  /\ currentWave' = w
            /\ selected' = [selected EXCEPT !["Waves"] = <<w, 0>>]
            /\ EditAndWait(Put("Waves", <<w, 0>>, Rounded[level.waves[w].at]))
  BY DEF StepWave
<1> DEFINE w == ((currentWave - 1 + by) % n) + 1
<1>4. w \in 1..n
  <2>1. currentWave - 1 + by \in Int
    BY <1>1, <1>2
  <2> HIDE DEF n
  <2>2. (currentWave - 1 + by) % n \in 0..(n - 1)
    BY <1>2, <2>1
  <2> QED BY <1>2, <2>2
<1>5. /\ currentWave' = w
      /\ selected' = [selected EXCEPT !["Waves"] = <<w, 0>>]
      /\ EditAndWait(Put("Waves", <<w, 0>>, Rounded[level.waves[w].at]))
  BY <1>3
<1> HIDE DEF w
<1> DEFINE p == Rounded[level.waves[w].at]
           changed == [level EXCEPT !.waves[w].at = p]
<1>6. p \in Places
  BY <1>1, <1>4, LevelParts, EditorConstants
<1>7. EditStep(changed)
  BY <1>5 DEF Put, EditStep
<1> HIDE DEF p
<1>8. /\ changed \in AllLevels /\ changed.placed = level.placed
      /\ Len(changed.waves) = n
      /\ changed.waves[w].enemies = level.waves[w].enemies
  BY <1>1, <1>4, <1>6, WithWaveAt
<1>9. w \in 1..Len(changed.waves) /\ 0 \in 0..Len(changed.waves[w].enemies)
  BY <1>1, <1>4, <1>8, LevelParts
<1>10. UNCHANGED <<clipboard, mode, currentEnemy>>
  BY DEF StepWave
<1> HIDE DEF changed
<1>11. \E u \in 1..Len(changed.waves) :
         \E e \in 0..Len(changed.waves[u].enemies) : <<w, 0>> = <<u, e>>
  BY <1>9
<1>12. currentWave' \in Nat \ {0} /\ currentEnemy' \in Nat \ {0}
  BY <1>1, <1>4, <1>5, <1>10
<1> QED BY <1>5, <1>7, <1>8, <1>10, <1>11, <1>12, WaveEdit

LEMMA DeleteWaveStep == EditorInv /\ DeleteWave => EditorInv'
<1> SUFFICES ASSUME EditorInv, DeleteWave
             PROVE  EditorInv'
  OBVIOUS
<1> DEFINE ws == RemoveAt(level.waves, wave)
           changed == [level EXCEPT !.waves = ws]
<1>1. level \in AllLevels /\ level.waves \in Seq(Wave)
  BY LevelParts DEF EditorInv, LevelsInv
<1>2. ws \in Seq(Wave)
  BY <1>1, SelectedWave, RemoveAtType DEF DeleteWave
<1>3. /\ EditStep(changed) /\ selected' = [selected EXCEPT !["Waves"] = None]
      /\ UNCHANGED <<clipboard, mode, currentWave, currentEnemy>>
  BY <1>1 DEF DeleteWave, EditStep, AllLevels
<1> HIDE DEF ws
<1>4. changed \in AllLevels /\ changed.placed = level.placed
  BY <1>1, <1>2, WithWaves
<1> HIDE DEF changed
<1>5. currentWave' \in Nat \ {0} /\ currentEnemy' \in Nat \ {0}
  BY <1>3 DEF EditorInv, WidgetsInv
<1> QED BY <1>3, <1>4, <1>5, WaveEdit

LEMMA DuplicateWaveStep == EditorInv /\ DuplicateWave => EditorInv'
<1> SUFFICES ASSUME EditorInv, DuplicateWave
             PROVE  EditorInv'
  OBVIOUS
<1>1. level \in AllLevels /\ level.waves \in Seq(Wave)
  BY LevelParts DEF EditorInv, LevelsInv
<1>2. wave \in 1..Len(level.waves)
  BY SelectedWave DEF DuplicateWave
<1>3. PICK p \in Places :
        EditAndRecord([level EXCEPT !.waves = Append(@, [@[wave] EXCEPT !.at = Rounded[p]])])
  BY DEF DuplicateWave
<1> DEFINE v == [level.waves[wave] EXCEPT !.at = Rounded[p]]
           changed == [level EXCEPT !.waves = Append(@, v)]
<1>4. v \in Wave
  <2>1. level.waves[wave] \in Wave /\ Rounded[p] \in Places
    BY <1>1, <1>2, ElementOfSeq, EditorConstants
  <2> QED BY <2>1 DEF Wave
<1>5. EditStep(changed)
  BY <1>1, <1>3 DEF EditStep, AllLevels
<1> HIDE DEF v
<1>6. changed \in AllLevels
  BY <1>1, <1>4, AddedWave
<1>7. level' = changed
  BY <1>5, <1>6, EditMade
<1>8. /\ NewWave \in Objects("Waves")'
      /\ \A j \in Kinds : Objects(j) \subseteq Objects(j)'
  BY <1>1, <1>4, <1>7, AddedWave
<1> HIDE DEF changed
<1>9. /\ selected' = [selected EXCEPT !["Waves"] = NewWave]
      /\ currentWave' = NewWave[1]
      /\ UNCHANGED <<clipboard, mode, currentEnemy>>
  BY DEF DuplicateWave
<1>10. NewWave[1] \in Nat \ {0}
  BY <1>1 DEF NewWave
<1>11. WidgetsInv'
  BY <1>9, <1>10 DEF EditorInv, WidgetsInv, shelfOf
<1>12. \A j \in Kinds : selected'[j] # None => selected'[j] \in Objects(j)'
  BY <1>8, <1>9 DEF EditorInv, WidgetsInv, SelectionExists, Kinds
<1> QED BY <1>5, <1>6, <1>11, <1>12, EditInv

\* The enemy shown is one of those the wave now has.
LEMMA ShowEnemyStep ==
  ASSUME EditorInv, selected["Waves"] # None,
         NEW enemies \in Seq(Places), NEW e \in 1..Len(enemies),
         ShowEnemy(enemies, e), UNCHANGED <<clipboard, mode, currentWave>>
  PROVE  EditorInv'
<1> DEFINE q == [enemies EXCEPT ![e] = Rounded[enemies[e]]]
           changed == [level EXCEPT !.waves[wave].enemies = q]
<1>1. level \in AllLevels /\ wave \in 1..Len(level.waves)
  BY SelectedWave DEF EditorInv, LevelsInv
<1>2. q \in Seq(Places) /\ Len(q) = Len(enemies)
  <2>1. Rounded[enemies[e]] \in Places
    BY EditorConstants, ElementOfSeq
  <2> QED BY <2>1, ExceptSeq
<1>3. /\ EditStep(changed) /\ currentEnemy' = e
      /\ selected' = [selected EXCEPT !["Waves"] = <<wave, e>>]
  BY DEF ShowEnemy, EditStep
<1> HIDE DEF q
<1>4. /\ changed \in AllLevels /\ changed.placed = level.placed
      /\ wave \in 1..Len(changed.waves)
      /\ changed.waves[wave].enemies = q
  BY <1>1, <1>2, WithEnemies
<1>5. e \in 0..Len(changed.waves[wave].enemies) /\ e \in Nat \ {0}
  BY <1>2, <1>4
<1> HIDE DEF changed
<1>6. currentWave' \in Nat \ {0}
  BY DEF EditorInv, WidgetsInv
<1> QED BY <1>3, <1>4, <1>5, <1>6, WaveEdit

LEMMA EnemySteps == EditorInv /\ (StepEnemy \/ AddEnemy \/ DeleteEnemy) => EditorInv'
<1> SUFFICES ASSUME EditorInv, StepEnemy \/ AddEnemy \/ DeleteEnemy
             PROVE  EditorInv'
  OBVIOUS
<1> DEFINE enemies == level.waves[wave].enemies
<1>1. selected["Waves"] # None /\ UNCHANGED <<clipboard, mode, currentWave>>
  BY DEF StepEnemy, AddEnemy, DeleteEnemy
<1>2. /\ level \in AllLevels /\ wave \in 1..Len(level.waves)
      /\ enemy \in 0..Len(enemies)
  BY <1>1, SelectedWave DEF EditorInv, LevelsInv
<1>3. enemies \in Seq(Places) /\ Len(enemies) \in Nat
  BY <1>2, LevelParts
<1>4. CASE StepEnemy
  <2>1. PICK e : /\ e = (IF enemy = Len(enemies) THEN 1 ELSE enemy + 1)
                    \/ e = (IF enemy \in {0, 1} THEN Len(enemies) ELSE enemy - 1)
                 /\ ShowEnemy(enemies, e)
    BY <1>4 DEF StepEnemy
  <2>2. Len(enemies) > 0
    BY <1>4 DEF StepEnemy
  <2> HIDE DEF enemies
  <2>3. e \in 1..Len(enemies)
    BY <1>2, <1>3, <2>1, <2>2
  <2> QED BY <1>1, <1>3, <2>1, <2>3, ShowEnemyStep
<1>5. CASE AddEnemy
  <2> DEFINE more == Append(enemies, Basic)
  <2>1. ShowEnemy(more, Len(more))
    BY <1>5 DEF AddEnemy
  <2>2. more \in Seq(Places) /\ Len(more) \in 1..Len(more)
    BY <1>3, EditorConstants, AppendProperties
  <2> HIDE DEF more
  <2> QED BY <1>1, <2>1, <2>2, ShowEnemyStep
<1>6. CASE DeleteEnemy
  <2> DEFINE left == RemoveAt(enemies, enemy)
             changed == [level EXCEPT !.waves[wave].enemies = left]
             e == IF currentEnemy > Len(left) THEN Len(left) ELSE currentEnemy
  <2>1. enemy \in 1..Len(enemies)
    BY <1>2, <1>3, <1>6 DEF DeleteEnemy
  <2>2. left \in Seq(Places) /\ Len(left) \in Nat
    <3> HIDE DEF enemies
    <3>1. left \in Seq(Places)
      BY <1>3, <2>1, RemoveAtType
    <3> HIDE DEF left
    <3> QED BY <3>1
  <2>3. \/ /\ left = << >> /\ EditStep(changed)
           /\ currentEnemy' = 1 /\ selected' = [selected EXCEPT !["Waves"] = <<wave, 0>>]
        \/ left # << >> /\ ShowEnemy(left, e)
    BY <1>6 DEF DeleteEnemy, EditStep
  <2> HIDE DEF left
  <2>4. CASE left # << >> /\ ShowEnemy(left, e)
    <3>1. Len(left) # 0
      BY <2>2, <2>4, EmptySeq
    <3>2. e \in 1..Len(left)
      BY <2>2, <3>1 DEF EditorInv, WidgetsInv
    <3> QED BY <1>1, <2>2, <2>4, <3>2, ShowEnemyStep
  <2>5. CASE /\ left = << >> /\ EditStep(changed)
             /\ currentEnemy' = 1 /\ selected' = [selected EXCEPT !["Waves"] = <<wave, 0>>]
    <3>1. /\ changed \in AllLevels /\ changed.placed = level.placed
          /\ wave \in 1..Len(changed.waves) /\ changed.waves[wave].enemies = left
      BY <1>2, <2>2, WithEnemies
    <3>2. 0 \in 0..Len(changed.waves[wave].enemies)
      BY <2>2, <3>1
    <3> HIDE DEF changed
    <3>3. currentWave' \in Nat \ {0} /\ currentEnemy' \in Nat \ {0}
      BY <1>1, <2>5 DEF EditorInv, WidgetsInv
    <3> QED BY <1>1, <2>5, <3>1, <3>2, <3>3, WaveEdit
  <2> QED BY <2>3, <2>4, <2>5
<1> QED BY <1>4, <1>5, <1>6

\* Typing into the fields of an enemy and applying its type.
LEMMA TypeEnemyStep == EditorInv /\ (TypeEnemy \/ ApplyEnemyType) => EditorInv'
<1> SUFFICES ASSUME EditorInv, TypeEnemy \/ ApplyEnemyType
             PROVE  EditorInv'
  OBVIOUS
<1>1. PICK p \in Places : EditStep([level EXCEPT !.waves[wave].enemies[enemy] = p])
  BY DEF TypeEnemy, ApplyEnemyType, EditStep
<1>2. /\ selected["Waves"] # None /\ enemy > 0
      /\ UNCHANGED <<selected, clipboard, mode, currentWave, currentEnemy>>
  BY DEF TypeEnemy, ApplyEnemyType
<1>3. /\ level \in AllLevels /\ wave \in 1..Len(level.waves)
      /\ enemy \in 1..Len(level.waves[wave].enemies)
  BY <1>2, SelectedWave DEF EditorInv, LevelsInv
<1> DEFINE changed == [level EXCEPT !.waves[wave].enemies[enemy] = p]
<1>4. /\ changed \in AllLevels /\ changed.placed = level.placed
      /\ Len(changed.waves) = Len(level.waves)
      /\ \A u \in 1..Len(level.waves) :
           Len(changed.waves[u].enemies) = Len(level.waves[u].enemies)
  BY <1>3, WithEnemy
<1> HIDE DEF changed
<1>5. currentWave' \in Nat \ {0} /\ currentEnemy' \in Nat \ {0}
  BY <1>2 DEF EditorInv, WidgetsInv
<1> QED BY <1>1, <1>2, <1>4, <1>5, SelectionStays DEF changed

-----------------------------------------------------------------------------
(* The side panel, the keyboard and the clock.                              *)

LEMMA SettingsStep == EditorInv /\ (TypeSettings \/ ChooseMusic) => EditorInv'
<1> SUFFICES ASSUME EditorInv, TypeSettings \/ ChooseMusic
             PROVE  EditorInv'
  OBVIOUS
<1>1. PICK s \in Settings : EditStep([level EXCEPT !.settings = s])
  BY DEF TypeSettings, ChooseMusic, EditStep
<1>2. UNCHANGED <<selected, clipboard, mode, currentWave, currentEnemy>>
  BY DEF TypeSettings, ChooseMusic
<1> DEFINE changed == [level EXCEPT !.settings = s]
<1>3. changed \in AllLevels /\ changed.placed = level.placed /\ changed.waves = level.waves
  BY DEF EditorInv, LevelsInv, AllLevels
<1> HIDE DEF changed
<1>4. currentWave' \in Nat \ {0} /\ currentEnemy' \in Nat \ {0}
  BY <1>2 DEF EditorInv, WidgetsInv
<1> QED BY <1>1, <1>2, <1>3, <1>4, SelectionStays DEF changed

LEMMA CopyStep == EditorInv /\ Copy => EditorInv'
<1> SUFFICES ASSUME EditorInv, Copy
             PROVE  EditorInv'
  OBVIOUS
<1>1. PICK k \in Kinds : selected[k] # None /\ clipboard' = <<k, selected[k]>>
  BY DEF Copy, First
<1>2. LevelKept /\ UNCHANGED <<selected, mode, currentWave, currentEnemy>>
  BY DEF Copy
<1>3. CASE k = "Waves"
  <2>1. selected[k][1] \in Nat \ {0}
    BY <1>1, <1>3, SelectedWave DEF wave
  <2>2. WidgetsInv'
    BY <1>1, <1>2, <1>3, <2>1 DEF EditorInv, WidgetsInv
  <2> QED BY <1>2, <2>2, KeptInv DEF EditorInv, SelectionExists
<1>4. CASE k \in {"Obstacles", "PowerUps"}
  <2>1. selected[k][1] \in shelfOf(k)
    BY <1>1, <1>4, SelectedObject
  <2>2. WidgetsInv'
    BY <1>1, <1>2, <1>4, <2>1 DEF EditorInv, WidgetsInv, shelfOf
  <2> QED BY <1>2, <2>2, KeptInv DEF EditorInv, SelectionExists
<1> QED BY <1>3, <1>4 DEF Kinds

\* A paste of what is still there is recorded and selects the copy.
LEMMA PasteStep == EditorInv /\ Paste => EditorInv'
<1> SUFFICES ASSUME EditorInv, Paste
             PROVE  EditorInv'
  OBVIOUS
<1>1. /\ clipboard # None /\ UNCHANGED <<clipboard, mode, currentEnemy>>
      /\ level \in AllLevels /\ LevelsInv
      /\ clipboard[1] \in Kinds
  BY DEF Paste, EditorInv, LevelsInv, WidgetsInv
<1>2. CASE LevelKept /\ UNCHANGED <<selected, currentWave>>
  <2>1. WidgetsInv'
    BY <1>1, <1>2 DEF EditorInv, WidgetsInv, shelfOf
  <2> QED BY <1>2, <2>1, KeptInv DEF EditorInv, SelectionExists
<1>k. PICK k \in Kinds : k = clipboard[1]
  BY <1>1
<1> DEFINE from == clipboard[2][1]
<1>3. ASSUME There(clipboard[1], clipboard[2]), SaveToHistory(level'), pending' = TRUE,
             NEW p \in Places,
             IF k = "Waves" THEN PasteWave(from, p) ELSE PasteObject(k, from, p)
      PROVE  EditorInv'
  <2>1. Rounded[p] \in Places
    BY EditorConstants
  <2>2. CASE k = "Waves"
    <3>1. from \in 1..Len(level.waves)
      <4>1. from \in Nat \ {0} /\ from <= Len(level.waves) /\ Len(level.waves) \in Nat
        BY <1>1, <1>k, <1>3, <2>2, LevelParts DEF There, EditorInv, WidgetsInv
      <4> QED BY <4>1
    <3> DEFINE v == [level.waves[from] EXCEPT !.at = Rounded[p]]
    <3>2. v \in Wave
      <4>1. level.waves[from] \in Wave
        BY <1>1, <3>1, LevelParts, ElementOfSeq
      <4> QED BY <2>1, <4>1 DEF Wave
    <3>3. /\ level' = [level EXCEPT !.waves = Append(@, v)]
          /\ selected' = [NothingSelected EXCEPT !["Waves"] = NewWave]
          /\ currentWave' = NewWave[1]
      BY <1>1, <1>3, <2>2 DEF PasteWave, AllLevels
    <3> HIDE DEF v, from
    <3>4. /\ level' \in AllLevels /\ NewWave \in Objects("Waves")'
      BY <1>1, <3>2, <3>3, AddedWave
    <3>5. LevelsInv'
      BY <1>1, <1>3, <3>4, SaveRecords DEF LevelsInv
    <3>6. SettledIsRecorded'
      BY <1>3 DEF SettledIsRecorded
    <3>7. NewWave[1] \in Nat \ {0}
      BY <1>1, LevelParts DEF NewWave
    <3>8. WidgetsInv'
      BY <1>1, <3>3, <3>7 DEF EditorInv, WidgetsInv, NothingSelected, shelfOf
    <3>9. SelectionExists'
      BY <3>3, <3>4 DEF SelectionExists, NothingSelected, Kinds
    <3> QED BY <3>5, <3>6, <3>8, <3>9 DEF EditorInv
  <2>3. CASE k \in {"Obstacles", "PowerUps"}
    <3>1. from \in shelfOf(k)
      BY <1>1, <1>k, <2>3 DEF EditorInv, WidgetsInv
    <3>2. /\ level' = Added(from, Rounded[p])
          /\ selected' = [NothingSelected EXCEPT ![k] = Last_(from)]
          /\ UNCHANGED currentWave
      BY <1>3, <2>3 DEF PasteObject
    <3> HIDE DEF from
    <3>3. level' \in AllLevels /\ Last_(from) \in Objects(k)'
      BY <1>1, <2>1, <2>3, <3>1, <3>2, AddedLast
    <3>4. LevelsInv'
      BY <1>1, <1>3, <3>3, SaveRecords DEF LevelsInv
    <3>5. SettledIsRecorded'
      BY <1>3 DEF SettledIsRecorded
    <3>6. WidgetsInv'
      BY <1>1, <3>2 DEF EditorInv, WidgetsInv, NothingSelected, shelfOf
    <3>7. SelectionExists'
      BY <2>3, <3>2, <3>3 DEF SelectionExists, NothingSelected, Kinds
    <3> QED BY <3>4, <3>5, <3>6, <3>7 DEF EditorInv
  <2> QED BY <2>2, <2>3 DEF Kinds
<1> QED BY <1>k, <1>2, <1>3 DEF Paste

\* Undo and redo put an entry of the history on the canvas and select nothing.
LEMMA LoadStep == EditorInv /\ (UndoEdit \/ RedoEdit) => EditorInv'
<1> SUFFICES ASSUME EditorInv, NEW i, LoadLevel(i)
             PROVE  EditorInv'
  BY DEF UndoEdit, RedoEdit
<1>1. /\ i \in DOMAIN history /\ current' = i /\ history' = history
      /\ level' = history[i] /\ selected' = NothingSelected
      /\ UNCHANGED <<clipboard, mode, currentWave, currentEnemy>>
  BY DEF LoadLevel, LoadFromHistory
<1>2. LevelsInv'
  BY <1>1 DEF EditorInv, LevelsInv
<1>3. WidgetsInv'
  BY <1>1 DEF EditorInv, WidgetsInv, NothingSelected, shelfOf
<1>4. SelectionExists' /\ SettledIsRecorded'
  BY <1>1 DEF SelectionExists, SettledIsRecorded, NothingSelected
<1> QED BY <1>2, <1>3, <1>4 DEF EditorInv

\* Saving writes the file; the pause that ends records the level.
LEMMA RecordStep == EditorInv /\ (Save \/ Debounce) => EditorInv'
<1> SUFFICES ASSUME EditorInv, Save \/ Debounce
             PROVE  EditorInv'
  OBVIOUS
<1>1. UNCHANGED <<level, selected, clipboard, mode, currentWave, currentEnemy>>
  BY DEF Save, Debounce
<1>2. WidgetsInv' /\ SelectionExists'
  BY <1>1 DEF EditorInv, WidgetsInv, SelectionExists, Objects, shelfOf
<1>3. CASE Save
  <2>1. UNCHANGED <<history, current, pending, untracked>>
    BY <1>3 DEF Save
  <2> QED BY <1>1, <1>2, <2>1 DEF EditorInv, LevelsInv, SettledIsRecorded
<1>4. CASE Debounce
  <2>1. SaveToHistory(level) /\ level \in AllLevels /\ LevelsInv
    BY <1>4 DEF Debounce, EditorInv, LevelsInv
  <2>2. LevelsInv' /\ SettledIsRecorded'
    BY <1>1, <2>1, SaveRecords DEF LevelsInv, SettledIsRecorded
  <2> QED BY <1>2, <2>2 DEF EditorInv
<1> QED BY <1>3, <1>4

\* The rest leaves the level alone.
LEMMA WidgetStep == EditorInv /\ (StopDrag \/ ChangeMode \/ CycleFilter) => EditorInv'
<1> SUFFICES ASSUME EditorInv, StopDrag \/ ChangeMode \/ CycleFilter
             PROVE  EditorInv'
  OBVIOUS
<1>1. LevelKept /\ UNCHANGED <<clipboard, currentWave, currentEnemy>>
  BY DEF StopDrag, ChangeMode, CycleFilter
<1>2. mode' \in Kinds /\ selected' = [k \in Kinds |-> selected'[k]]
      /\ \A k \in Kinds : selected'[k] \in {None, selected[k]}
  BY DEF StopDrag, ChangeMode, CycleFilter, EditorInv, WidgetsInv
<1>3. WidgetsInv'
  BY <1>1, <1>2 DEF EditorInv, WidgetsInv, shelfOf
<1>4. \A k \in Kinds : selected'[k] # None => selected'[k] \in Objects(k)
  BY <1>2 DEF EditorInv, SelectionExists
<1> QED BY <1>1, <1>3, <1>4, KeptInv

-----------------------------------------------------------------------------

LEMMA EditorInit == Init => EditorInv
<1> SUFFICES ASSUME Init
             PROVE  EditorInv
  OBVIOUS
<1>1. level \in AllLevels /\ history = <<level>> /\ current = 1
  BY EditorConstants DEF Init, StartHistory
<1>2. LevelsInv
  BY <1>1 DEF LevelsInv
<1>3. WidgetsInv
  BY DEF Init, WidgetsInv, NothingSelected, Kinds
<1>4. SelectionExists
  BY DEF Init, SelectionExists, NothingSelected
<1>5. SettledIsRecorded
  BY <1>1 DEF SettledIsRecorded
<1> QED BY <1>2, <1>3, <1>4, <1>5 DEF EditorInv

LEMMA EditorStep == EditorInv /\ [Next]_vars => EditorInv'
<1> SUFFICES ASSUME EditorInv, [Next]_vars
             PROVE  EditorInv'
  OBVIOUS
<1>1. CASE UNCHANGED vars
  BY <1>1 DEF vars, EditorInv, LevelsInv, WidgetsInv, SelectionExists, SettledIsRecorded,
              Objects, shelfOf
<1> QED
  BY <1>1, ClickStep, DragStep, TypePlaceStep, ChangeTypeStep, DeleteObjectStep,
     DuplicateObjectStep, StepWaveStep, DeleteWaveStep, DuplicateWaveStep, EnemySteps,
     TypeEnemyStep, SettingsStep, CopyStep, PasteStep, LoadStep, RecordStep, WidgetStep
  DEF Next

LEMMA EditorInvariant == Spec => []EditorInv
BY EditorInit, EditorStep, PTL DEF Spec

\* After every click, deletion, change of type, undo and paste, what is selected is
\* there: the handlers that index the level with it find it.
THEOREM SelectionCorrect == Spec => []SelectionExists
<1>1. EditorInv => SelectionExists
  BY DEF EditorInv
<1> QED BY <1>1, EditorInvariant, PTL

\* A level on the canvas with nothing waiting is the entry of the history the index
\* is at, unless it was left by one of the two edits that are never recorded.
THEOREM SettledCorrect == Spec => []SettledIsRecorded
<1>1. EditorInv => SettledIsRecorded
  BY DEF EditorInv
<1> QED BY <1>1, EditorInvariant, PTL

\* Whatever a handler does to the level, the history sees an entry saved, a move of
\* its index by one, or nothing.
LEMMA EveryStepIsAnEdit ==
  ASSUME AllLevels \subseteq Levels
  PROVE  EditorInv /\ EditorInv' /\ [Next]_vars => [EditNext]_<<history, current>>
<1> SUFFICES ASSUME EditorInv, EditorInv', [Next]_vars
             PROVE  [EditNext]_<<history, current>>
  OBVIOUS
<1>1. level \in Levels /\ level' \in Levels
  BY DEF EditorInv, LevelsInv
<1>2. ASSUME SaveToHistory(level) \/ SaveToHistory(level')
      PROVE  EditNext
  BY <1>1, <1>2 DEF EditNext
<1>3. ASSUME NEW changed, EditStep(changed)
      PROVE  [EditNext]_<<history, current>>
  <2>1. level' = changed
    BY <1>3 DEF EditStep, EditAndRecord, EditAndWait, EditUntracked, Edit
  <2> QED BY <1>2, <1>3, <2>1 DEF EditStep, EditAndRecord, EditAndWait, EditUntracked
<1>4. ASSUME LevelKept
      PROVE  [EditNext]_<<history, current>>
  BY <1>4 DEF LevelKept
<1>5. CASE ClickCanvas
  BY <1>3, <1>4, <1>5
  DEF ClickCanvas, HandleClick, Select, CreateObject, CreateWave, Deselect, EditStep
<1>6. CASE DragCanvas \/ StopDrag \/ TypePlace \/ ChangeType
  BY <1>3, <1>4, <1>6 DEF DragCanvas, StopDrag, TypePlace, ChangeType, EditStep
<1>7. CASE DeleteObject \/ DuplicateObject
  BY <1>3, <1>7 DEF DeleteObject, DuplicateObject, EditStep
<1>8. CASE StepWave \/ DeleteWave \/ DuplicateWave
  BY <1>3, <1>8 DEF StepWave, DeleteWave, DuplicateWave, EditStep
<1>9. CASE StepEnemy \/ AddEnemy \/ DeleteEnemy \/ TypeEnemy \/ ApplyEnemyType
  BY <1>3, <1>9
  DEF StepEnemy, AddEnemy, DeleteEnemy, TypeEnemy, ApplyEnemyType, ShowEnemy, EditStep
<1>10. CASE TypeSettings \/ ChooseMusic \/ ChangeMode \/ CycleFilter \/ Copy
  BY <1>3, <1>4, <1>10
  DEF TypeSettings, ChooseMusic, ChangeMode, CycleFilter, Copy, EditStep
<1>11. CASE Paste
  BY <1>2, <1>4, <1>11 DEF Paste
<1>12. CASE UndoEdit \/ RedoEdit
  <2>1. PICK i \in {current - 1, current + 1} : LoadFromHistory(i)
    BY <1>12 DEF UndoEdit, RedoEdit, LoadLevel
  <2> QED BY <2>1 DEF EditNext
<1>13. CASE Save
  BY <1>13 DEF Save
<1>14. CASE Debounce
  BY <1>2, <1>14 DEF Debounce
<1>15. CASE UNCHANGED vars
  BY <1>15 DEF vars
<1> QED
  BY <1>5, <1>6, <1>7, <1>8, <1>9, <1>10, <1>11, <1>12, <1>13, <1>14, <1>15 DEF Next

\* Through all its handlers, the pauses they start and the undos that cancel them,
\* the editor keeps an undo history of levels, cut to MAX_HISTORY_SIZE entries.
THEOREM EditorImplementsUndo ==
  ASSUME AllLevels \subseteq Levels
  PROVE  Spec => IsUndoHistory
<1>1. Init => EditInit
  BY EditorConstants DEF Init, EditInit
<1>2. EditorInv /\ EditorInv' /\ [Next]_vars => [EditNext]_<<history, current>>
  BY EveryStepIsAnEdit
<1>3. Spec => EditSpec
  BY <1>1, <1>2, EditorInvariant, PTL DEF Spec, EditSpec
<1> QED BY <1>3, HistoryImplementsUndo

=============================================================================
