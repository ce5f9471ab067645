-------------------------- MODULE ClientFilesProofs --------------------------
(***************************************************************************)
(* Proofs about the client's settings, for every keyboard, every set of     *)
(* names and every defaults, and about its list of levels, for every        *)
(* directory and every page size.                                           *)
(*                                                                         *)
(* The settings' files are proved to hold what is in effect with two facts *)
(* besides: a file that is not empty is one a save wrote, so that what is   *)
(* read back from it is written back the same; and only the file of a save  *)
(* under way is empty while the client is up.                               *)
(***************************************************************************)
EXTENDS ClientFiles, FiniteSetTheorems, WellFoundedInduction, TLAPS

-----------------------------------------------------------------------------
(* Induction over the natural numbers, for a set of them, and the greatest   *)
(* element of a set of them.                                                 *)

\* A set of numbers that holds 0 and with each number the next is Nat.
LEMMA NatSetInduction ==
  ASSUME NEW S \in SUBSET Nat, 0 \in S, \A n \in S : n + 1 \in S
  PROVE  S = Nat
<1> SUFFICES ASSUME S # Nat PROVE FALSE
  OBVIOUS
<1> DEFINE R == {p \in Nat \X Nat : p[1] < p[2]}
<1>1. IsWellFoundedOn(R, Nat)
  <2>1. R = OpToRel(<, Nat)
    BY DEF OpToRel
  <2> QED BY <2>1, NatLessThanWellFounded
<1>2. PICK x \in Nat \ S : \A y \in Nat \ S : <<y, x>> \notin R
  <2> HIDE DEF R
  <2> QED BY <1>1, WFMin
<1>3. x - 1 \in Nat \ S
  <2>1. x # 0
    BY <1>2
  <2>2. x - 1 \in Nat
    BY <2>1
  <2> QED BY <2>2, (x - 1) + 1 = x
<1>4. <<x - 1, x>> \in R
  BY <1>3
<1> HIDE DEF R
<1> QED BY <1>2, <1>3, <1>4


LEMMA MaxOfInterval ==
  ASSUME NEW n \in Nat \ {0}
  PROVE  Max(1 .. n) = n
BY DEF Max

HasMax(t) == \E x \in t : \A y \in t : x >= y

\* A finite set of numbers has a greatest.
LEMMA FiniteHasMax ==
  ASSUME NEW s \in SUBSET Nat, IsFiniteSet(s), s # {}
  PROVE  Max(s) \in s /\ \A x \in s : x <= Max(s)
<1> DEFINE P == {k \in Nat : \A t \in SUBSET Nat :
                               IsFiniteSet(t) /\ Cardinality(t) = k /\ t # {} => HasMax(t)}
<1>1. 0 \in P
  BY FS_EmptySet
<1>2. ASSUME NEW k \in P PROVE k + 1 \in P
  <2>1. ASSUME NEW t \in SUBSET Nat, IsFiniteSet(t), Cardinality(t) = k + 1, t # {}
        PROVE HasMax(t)
    <3>1. PICK x \in t : TRUE
      BY <2>1
    <3>2. IsFiniteSet(t \ {x}) /\ Cardinality(t \ {x}) = k
      <4>1. IsFiniteSet(t \ {x}) /\ Cardinality(t \ {x}) = Cardinality(t) - 1
        BY <2>1, <3>1, FS_RemoveElement
      <4>2. k \in Nat /\ Cardinality(t) = k + 1
        BY <2>1
      <4> HIDE DEF P
      <4> QED BY <4>1, <4>2
    <3>3. CASE t \ {x} = {}
      BY <3>1, <3>3 DEF HasMax
    <3>4. CASE t \ {x} # {}
      <4>1. HasMax(t \ {x})
        BY <3>2, <3>4
      <4>2. PICK y \in t \ {x} : \A z \in t \ {x} : y >= z
        BY <4>1 DEF HasMax
      <4>3. x \in Nat /\ y \in Nat /\ \A z \in t : z \in Nat
        BY <3>1, <4>2
      <4> QED BY <3>1, <4>2, <4>3 DEF HasMax
    <3> QED BY <3>3, <3>4
  <2>2. k + 1 \in Nat
    OBVIOUS
  <2> QED BY <2>1, <2>2
<1>3. P = Nat
  <2>1. P \in SUBSET Nat
    OBVIOUS
  <2> HIDE DEF P
  <2> QED BY <1>1, <1>2, <2>1, NatSetInduction
<1>4. HasMax(s)
  <2>1. Cardinality(s) \in Nat
    BY FS_CardinalityType
  <2> QED BY <1>3, <2>1
<1>5. \E x \in s : \A y \in s : x >= y
  BY <1>4 DEF HasMax
<1>6. Max(s) \in s /\ \A x \in s : Max(s) >= x
  BY <1>5 DEF Max
<1> QED BY <1>6

LEMMA MaxIn ==
  ASSUME NEW n \in Nat, NEW s \in SUBSET (1 .. n), s # {}
  PROVE  Max(s) \in s /\ \A x \in s : x <= Max(s)
<1>1. s \in SUBSET Nat /\ \A x \in s : x <= n
  OBVIOUS
<1>2. IsFiniteSet(s)
  BY <1>1, FS_BoundedSetOfNaturals
<1> QED BY <1>1, <1>2, FiniteHasMax

\* Without its greatest, a set of numbers up to k + 1 is one of numbers up to k.
LEMMA WithoutLast ==
  ASSUME NEW k \in Nat, NEW s \in SUBSET (1 .. k + 1), NEW m \in s, \A x \in s : x <= m
  PROVE  s \ {m} \in SUBSET (1 .. k) /\ s \ {m} \in SUBSET (1 .. k + 1)
<1>1. ASSUME NEW x \in s \ {m} PROVE x \in 1 .. k
  <2>1. x \in 1 .. k + 1 /\ m \in 1 .. k + 1 /\ x <= m /\ x # m
    OBVIOUS
  <2> QED BY <2>1
<1> QED BY <1>1

-----------------------------------------------------------------------------
(* Types.                                                                   *)

Config == [colour : 0 .. 3, contrast : BOOLEAN, bright : Values, general : Values]

SettingsTypeOK ==
  /\ running \in {"up", "down", "failed"} /\ open \in BOOLEAN
  /\ bound \in [Places -> Keys \cup {None}]
  /\ toggleMode \in BOOLEAN
  /\ waiting \in Places \cup {None}
  /\ DOMAIN label = Places
  /\ config \in Config
  /\ event \in Keys \cup {None}
  /\ saving \in Files \cup {None}
  /\ DOMAIN files = Files

\* What a save writes to a file: keys with a name, or none.
Written(f) ==
  CASE f = "keybinds" -> [bound : [Places -> NamedKeys \cup {None}], toggle : BOOLEAN]
    [] f = "accessibility" -> [colour : 0 .. 3, contrast : BOOLEAN, bright : Values]
    [] f = "settings" -> [general : Values]

FilesWritten == \A f \in Files : files[f] = None \/ files[f] \in Written(f)

\* Apart from the file that is being saved, the files hold what is in effect.
FilesCurrent ==
  running = "up" =>
    \A f \in Files : f # saving => files[f] = Content(f, bound, toggleMode, config)

SettingsInv == SettingsTypeOK /\ FilesWritten /\ FilesCurrent /\ ShownIsConfigured

LEMMA ContentIsWritten ==
  ASSUME NEW f \in Files, NEW b \in [Places -> Keys \cup {None}], NEW t \in BOOLEAN,
         NEW c \in Config
  PROVE  Content(f, b, t, c) \in Written(f)
<1>1. ReadBack(b) \in [Places -> NamedKeys \cup {None}]
  BY DEF ReadBack
<1>2. CASE f = "keybinds"
  BY <1>1, <1>2 DEF Content, Written
<1>3. CASE f = "accessibility"
  BY <1>3 DEF Content, Written, Config
<1>4. CASE f = "settings"
  BY <1>4 DEF Content, Written, Config
<1> QED BY <1>2, <1>3, <1>4 DEF Files

\* A file that was written is read, and written back, as it is.
LEMMA WrittenIsKept ==
  ASSUME NEW fs, NEW b, NEW t, NEW c,
         \A f \in Files : fs[f] \in Written(f),
         b = fs["keybinds"].bound, t = fs["keybinds"].toggle,
         c = [colour |-> fs["accessibility"].colour, contrast |-> fs["accessibility"].contrast,
              bright |-> fs["accessibility"].bright, general |-> fs["settings"].general]
  PROVE  /\ b \in [Places -> Keys \cup {None}] /\ t \in BOOLEAN /\ c \in Config
         /\ \A f \in Files : fs[f] = Content(f, b, t, c)
<1>1. /\ fs["keybinds"] \in [bound : [Places -> NamedKeys \cup {None}], toggle : BOOLEAN]
      /\ fs["accessibility"] \in [colour : 0 .. 3, contrast : BOOLEAN, bright : Values]
      /\ fs["settings"] \in [general : Values]
  BY DEF Files, Written
<1>2. b \in [Places -> NamedKeys \cup {None}]
  BY <1>1
<1>3. b \in [Places -> Keys \cup {None}] /\ t \in BOOLEAN /\ c \in Config
  BY <1>1, <1>2, SettingsConstants DEF Config
<1>4. ReadBack(b) = b
  BY <1>2, SettingsConstants DEF ReadBack
<1>5. fs["keybinds"] = Content("keybinds", b, t, c)
  BY <1>1, <1>4 DEF Content
<1>6. fs["accessibility"] = Content("accessibility", b, t, c)
  BY <1>1 DEF Content
<1>7. fs["settings"] = Content("settings", b, t, c)
  BY <1>1 DEF Content
<1> QED BY <1>3, <1>5, <1>6, <1>7 DEF Files

-----------------------------------------------------------------------------
(* The settings are saved and shown.                                        *)

LEMMA FiltersShow ==
  ASSUME NEW c \in Config
  PROVE  /\ "contrast" \in FiltersOf(c) <=> c.contrast
         /\ "brightness" \in FiltersOf(c)
BY DEF FiltersOf, Config

LEMMA SettingsInit == Init => SettingsInv
<1> SUFFICES ASSUME Init PROVE SettingsInv
  OBVIOUS
<1>1. DefaultConfig \in Config
  BY SettingsConstants DEF DefaultConfig, Config
<1>2. SettingsTypeOK
  BY <1>1, SettingsConstants DEF Init, SettingsTypeOK
<1>3. FilesWritten
  BY <1>1, SettingsConstants, ContentIsWritten DEF Init, FilesWritten
<1>4. FilesCurrent
  BY DEF Init, FilesCurrent
<1>5. ShownIsConfigured
  BY DEF Init, ShownIsConfigured
<1> QED BY <1>2, <1>3, <1>4, <1>5 DEF SettingsInv

\* A click or a new binding that changes at most what one file holds, and empties that file.
LEMMA SaveKeepsOthers ==
  ASSUME SettingsTypeOK, FilesWritten, FilesCurrent, running = "up", saving = None, running' = running,
         NEW f \in Files, Save(f),
         \A g \in Files \ {f} :
           Content(g, bound, toggleMode, config)' = Content(g, bound, toggleMode, config)
  PROVE  FilesWritten' /\ FilesCurrent' /\ saving' \in Files \cup {None} /\ DOMAIN files' = Files
<1>1. /\ DOMAIN files' = Files /\ saving' = f
      /\ files'[f] = None /\ \A g \in Files \ {f} : files'[g] = files[g]
  BY DEF Save, SettingsTypeOK
<1>2. \A g \in Files : g # saving => files[g] = Content(g, bound, toggleMode, config)
  BY DEF FilesCurrent
<1>3. None \notin Files
  BY SettingsConstants
<1>4. FilesWritten'
  BY <1>1 DEF FilesWritten
<1>5. FilesCurrent'
  BY <1>1, <1>2, <1>3 DEF FilesCurrent
<1> QED BY <1>1, <1>4, <1>5

\* Steps that change neither a setting nor a file.
LEMMA KeepsSettings ==
  ASSUME SettingsInv, UNCHANGED <<running, bound, config, look, toggleMode, files, saving>>,
         open' \in BOOLEAN, waiting' \in Places \cup {None}, DOMAIN label' = Places,
         event' \in Keys \cup {None},
         running = "up" /\ open' =>
           \A p \in Places : label'[p] = (IF waiting' = p THEN "press" ELSE bound[p])
  PROVE  SettingsInv'
<1>1. SettingsTypeOK'
  BY DEF SettingsInv, SettingsTypeOK
<1>2. FilesWritten'
  BY DEF SettingsInv, FilesWritten
<1>3. FilesCurrent'
  BY DEF SettingsInv, FilesCurrent
<1>4. ShownIsConfigured'
  BY DEF SettingsInv, ShownIsConfigured, look
<1> QED BY <1>1, <1>2, <1>3, <1>4 DEF SettingsInv

\* A click on the screen that changes settings and saves them to a file.
LEMMA ClickSaves ==
  ASSUME SettingsInv, Click, UNCHANGED <<bound, waiting, label>>,
         NEW f \in Files, Save(f), toggleMode' \in BOOLEAN, config' \in Config,
         filters' = FiltersOf(config'), brightness' = config'.bright,
         \A g \in Files \ {f} :
           Content(g, bound, toggleMode, config)' = Content(g, bound, toggleMode, config)
  PROVE  SettingsInv'
<1>1. /\ running = "up" /\ saving = None /\ running' = running /\ open' = open
      /\ event' \in Keys \cup {None}
  BY DEF Click, Idle
<1>2. FilesWritten' /\ FilesCurrent' /\ saving' \in Files \cup {None} /\ DOMAIN files' = Files
  BY <1>1, SaveKeepsOthers DEF SettingsInv
<1>3. SettingsTypeOK'
  BY <1>1, <1>2 DEF SettingsInv, SettingsTypeOK
<1>4. ShownIsConfigured'
  BY <1>1 DEF SettingsInv, ShownIsConfigured
<1> QED BY <1>2, <1>3, <1>4 DEF SettingsInv

LEMMA SettingsStep == SettingsInv /\ [Next]_vars => SettingsInv'
<1> SUFFICES ASSUME SettingsInv, [Next]_vars
             PROVE  SettingsInv'
  OBVIOUS
<1> USE DEF Idle
<1>1. SettingsTypeOK /\ FilesWritten /\ FilesCurrent /\ ShownIsConfigured
  BY DEF SettingsInv
<1>2. None \notin Keys /\ None \notin Places /\ None \notin Files
  BY SettingsConstants
<1>3. ASSUME NEW k \in Keys, Press(k)
      PROVE  SettingsInv'
  BY <1>1, <1>3, KeepsSettings DEF Press, input, SettingsTypeOK, ShownIsConfigured
<1>4. ASSUME NEW k \in Keys, Release(k)
      PROVE  SettingsInv'
  BY <1>1, <1>4, KeepsSettings DEF Release, input, SettingsTypeOK, ShownIsConfigured
<1>5. CASE GameFrame
  BY <1>1, <1>5, KeepsSettings DEF GameFrame, SettingsTypeOK, ShownIsConfigured
<1>6. CASE OpenSettings
  <2>1. /\ UNCHANGED <<running, bound, config, look, toggleMode, files, saving, event>>
        /\ open' = TRUE /\ waiting' = None /\ label' = bound
    BY <1>6 DEF OpenSettings, input, keyboard
  <2>2. \A p \in Places : label'[p] = (IF waiting' = p THEN "press" ELSE bound[p])
    BY <1>2, <2>1
  <2> QED BY <1>1, <2>1, <2>2, KeepsSettings DEF SettingsTypeOK
<1>7. CASE LeaveSettings
  BY <1>1, <1>7, KeepsSettings DEF LeaveSettings, input, SettingsTypeOK
<1>8. CASE SettingsFrame
  BY <1>1, <1>8, KeepsSettings DEF SettingsFrame, input, SettingsTypeOK, ShownIsConfigured
<1>9. ASSUME NEW p \in Places, StartKeyRebind(p)
      PROVE  SettingsInv'
  <2>1. /\ running = "up" /\ open /\ waiting = None
        /\ UNCHANGED <<running, open, bound, config, look, toggleMode, files, saving>>
        /\ event' = None /\ waiting' = p /\ label' = [label EXCEPT ![p] = "press"]
    BY <1>9 DEF StartKeyRebind, Click, input
  <2>2. DOMAIN label' = Places
    BY <1>1, <2>1 DEF SettingsTypeOK
  <2>3. \A q \in Places : label'[q] = (IF waiting' = q THEN "press" ELSE bound[q])
    BY <1>1, <1>2, <2>1 DEF SettingsTypeOK, ShownIsConfigured
  <2> QED BY <1>1, <2>1, <2>2, <2>3, KeepsSettings DEF SettingsTypeOK
<1>10. CASE CancelRebind
  <2>1. /\ running = "up" /\ open /\ waiting \in Places
        /\ UNCHANGED <<running, open, bound, config, look, toggleMode, files, saving>>
        /\ event' = None /\ waiting' = None /\ label' = [label EXCEPT ![waiting] = bound[waiting]]
    BY <1>1, <1>10 DEF CancelRebind, input, SettingsTypeOK
  <2>2. DOMAIN label' = Places
    BY <1>1, <2>1 DEF SettingsTypeOK
  <2>3. \A q \in Places : label'[q] = (IF waiting' = q THEN "press" ELSE bound[q])
    BY <1>1, <1>2, <2>1 DEF SettingsTypeOK, ShownIsConfigured
  <2> QED BY <1>1, <2>1, <2>2, <2>3, KeepsSettings DEF SettingsTypeOK
<1>11. CASE HandleKeyRebind
  <2>1. /\ running = "up" /\ saving = None /\ open /\ waiting \in Places /\ event \in Keys
        /\ UNCHANGED <<running, open, config, filters, brightness, toggleMode>>
        /\ bound' = [bound EXCEPT ![waiting] = event]
        /\ label' = [label EXCEPT ![waiting] = event]
        /\ event' = None /\ waiting' = None /\ Save("keybinds")
    BY <1>1, <1>11 DEF HandleKeyRebind, SettingsTypeOK, look
  <2>2. /\ FilesWritten' /\ FilesCurrent' /\ saving' \in Files \cup {None}
        /\ DOMAIN files' = Files
    <3>1. "keybinds" \in Files
      BY DEF Files
    <3>2. \A g \in Files \ {"keybinds"} :
            Content(g, bound, toggleMode, config)' = Content(g, bound, toggleMode, config)
      BY <2>1 DEF Content, Files
    <3> QED BY <1>1, <2>1, <3>1, <3>2, SaveKeepsOthers
  <2>3. bound' \in [Places -> Keys \cup {None}] /\ DOMAIN label' = Places
    BY <1>1, <2>1 DEF SettingsTypeOK
  <2>4. SettingsTypeOK'
    BY <1>1, <2>1, <2>2, <2>3 DEF SettingsTypeOK
  <2>5. \A q \in Places : label'[q] = (IF waiting' = q THEN "press" ELSE bound'[q])
    BY <1>1, <1>2, <2>1 DEF SettingsTypeOK, ShownIsConfigured
  <2>6. ShownIsConfigured'
    BY <1>1, <2>1, <2>5 DEF ShownIsConfigured
  <2> QED BY <2>2, <2>4, <2>6 DEF SettingsInv
<1>12. CASE UpdateToggleValue
  <2>1. /\ Click /\ UNCHANGED <<bound, waiting, label, config, filters, brightness>>
        /\ Save("keybinds") /\ toggleMode' = ~ toggleMode
    BY <1>12 DEF UpdateToggleValue, SetToggleMode, look
  <2>2. running = "up" /\ toggleMode' \in BOOLEAN /\ "keybinds" \in Files
    BY <1>1, <2>1 DEF Click, Files, SettingsTypeOK
  <2>3. \A g \in Files \ {"keybinds"} :
          Content(g, bound, toggleMode, config)' = Content(g, bound, toggleMode, config)
    BY <2>1 DEF Content, Files
  <2> QED BY <1>1, <2>1, <2>2, <2>3, ClickSaves DEF SettingsTypeOK, ShownIsConfigured
<1>13. CASE CycleColorBlindnessFilter
  <2>1. /\ Click /\ UNCHANGED <<bound, waiting, label, brightness, toggleMode>>
        /\ config' = [config EXCEPT !.colour = (@ + 1) % 4] /\ Save("accessibility")
        /\ filters' = FiltersOf([config' EXCEPT !.contrast = "contrast" \in filters])
    BY <1>13 DEF CycleColorBlindnessFilter, input
  <2>2. /\ running = "up" /\ "accessibility" \in Files /\ config \in Config
        /\ filters = FiltersOf(config) /\ brightness = config.bright
    BY <1>1, <2>1 DEF Click, Files, SettingsTypeOK, ShownIsConfigured
  <2>3. config' \in Config
    BY <2>1, <2>2 DEF Config
  <2>4. config'.contrast = ("contrast" \in filters)
    <3>1. config'.contrast = config.contrast /\ config.contrast \in BOOLEAN
      BY <2>1, <2>2 DEF Config
    <3>2. "contrast" \in filters <=> config.contrast
      BY <2>2, FiltersShow
    <3> QED BY <3>1, <3>2
  <2>5. [config' EXCEPT !.contrast = "contrast" \in filters] = config'
    BY <2>3, <2>4 DEF Config
  <2>6. filters' = FiltersOf(config') /\ brightness' = config'.bright
    <3>1. brightness' = config'.bright
      BY <2>1, <2>2 DEF Config
    <3> QED BY <2>1, <2>5, <3>1
  <2>7. \A g \in Files \ {"accessibility"} :
          Content(g, bound, toggleMode, config)' = Content(g, bound, toggleMode, config)
    <3>1. config'.general = config.general
      BY <2>1, <2>2 DEF Config
    <3> QED BY <2>1, <3>1 DEF Content, Files
  <2> QED BY <1>1, <2>1, <2>2, <2>3, <2>6, <2>7, ClickSaves DEF SettingsTypeOK
<1>14. CASE ToggleHighContrastFilter
  <2>1. /\ Click /\ UNCHANGED <<bound, waiting, label, brightness, toggleMode>>
        /\ config' = [config EXCEPT !.contrast = ~ @] /\ Save("accessibility")
        /\ filters' = IF config'.contrast THEN filters \cup {"contrast"} ELSE filters \ {"contrast"}
    BY <1>14 DEF ToggleHighContrastFilter, input
  <2>2. /\ running = "up" /\ "accessibility" \in Files /\ config \in Config
        /\ filters = FiltersOf(config) /\ brightness = config.bright
    BY <1>1, <2>1 DEF Click, Files, SettingsTypeOK, ShownIsConfigured
  <2>3. /\ config' \in Config /\ config'.colour = config.colour
        /\ config'.bright = config.bright /\ config'.general = config.general
    BY <2>1, <2>2 DEF Config
  <2>4. filters' = FiltersOf(config')
    <3>1. config'.contrast = ~ config.contrast /\ config.colour \in 0 .. 3
      BY <2>1, <2>2 DEF Config
    <3>2. CASE config'.contrast
      <4>1. ~ config.contrast
        BY <3>1, <3>2
      <4> QED BY <2>1, <2>2, <2>3, <3>1, <3>2, <4>1 DEF FiltersOf
    <3>3. CASE ~ config'.contrast
      <4>1. config.contrast
        BY <3>1, <3>3
      <4> QED BY <2>1, <2>2, <2>3, <3>1, <3>3, <4>1 DEF FiltersOf
    <3> QED BY <3>2, <3>3
  <2>5. \A g \in Files \ {"accessibility"} :
          Content(g, bound, toggleMode, config)' = Content(g, bound, toggleMode, config)
    BY <2>1, <2>3 DEF Content, Files
  <2> QED BY <1>1, <2>1, <2>2, <2>3, <2>4, <2>5, ClickSaves DEF SettingsTypeOK
<1>15. CASE UpdateBrightnessFilter
  <2>1. PICK v \in Values :
          /\ Click /\ UNCHANGED <<bound, waiting, label, toggleMode>>
          /\ config' = [config EXCEPT !.bright = v] /\ Save("accessibility")
          /\ filters' = filters \cup {"brightness"} /\ brightness' = config'.bright
    BY <1>15 DEF UpdateBrightnessFilter, input
  <2>2. /\ running = "up" /\ "accessibility" \in Files /\ config \in Config
        /\ filters = FiltersOf(config)
    BY <1>1, <2>1 DEF Click, Files, SettingsTypeOK, ShownIsConfigured
  <2>3. /\ config' \in Config /\ config'.colour = config.colour
        /\ config'.contrast = config.contrast /\ config'.general = config.general
    BY <2>1, <2>2 DEF Config
  <2>4. filters' = FiltersOf(config')
    <3>1. filters' = filters
      BY <2>1, <2>2, FiltersShow
    <3> QED BY <2>2, <2>3, <3>1 DEF FiltersOf
  <2>5. \A g \in Files \ {"accessibility"} :
          Content(g, bound, toggleMode, config)' = Content(g, bound, toggleMode, config)
    BY <2>1, <2>3 DEF Content, Files
  <2> QED BY <1>1, <2>1, <2>2, <2>3, <2>4, <2>5, ClickSaves DEF SettingsTypeOK
<1>16. CASE UpdateSettings
  <2>1. PICK v \in Values :
          /\ Click /\ UNCHANGED <<bound, waiting, label, filters, brightness, toggleMode>>
          /\ config' = [config EXCEPT !.general = v] /\ Save("settings")
    BY <1>16 DEF UpdateSettings, input, look
  <2>2. /\ running = "up" /\ "settings" \in Files /\ config \in Config
        /\ filters = FiltersOf(config) /\ brightness = config.bright
    BY <1>1, <2>1 DEF Click, Files, SettingsTypeOK, ShownIsConfigured
  <2>3. /\ config' \in Config /\ config'.colour = config.colour
        /\ config'.contrast = config.contrast /\ config'.bright = config.bright
    BY <2>1, <2>2 DEF Config
  <2>4. filters' = FiltersOf(config')
    BY <2>1, <2>2, <2>3 DEF FiltersOf
  <2>5. \A g \in Files \ {"settings"} :
          Content(g, bound, toggleMode, config)' = Content(g, bound, toggleMode, config)
    BY <2>1, <2>3 DEF Content, Files
  <2> QED BY <1>1, <2>1, <2>2, <2>3, <2>4, <2>5, ClickSaves DEF SettingsTypeOK
<1>17. CASE FinishSave
  <2>1. /\ running = "up" /\ saving \in Files /\ saving' = None
        /\ files' = [files EXCEPT ![saving] = Content(saving, bound, toggleMode, config)]
        /\ UNCHANGED <<running, open, bound, waiting, label, config, filters, brightness, event,
                       toggleMode>>
    BY <1>1, <1>17 DEF FinishSave, SettingsTypeOK, look, keyboard, input
  <2>2. SettingsTypeOK'
    BY <1>1, <2>1 DEF SettingsTypeOK
  <2>3. Content(saving, bound, toggleMode, config) \in Written(saving)
    BY <1>1, <2>1, ContentIsWritten DEF SettingsTypeOK
  <2>4. \A f \in Files :
          files'[f] = IF f = saving THEN Content(saving, bound, toggleMode, config) ELSE files[f]
    BY <1>1, <2>1 DEF SettingsTypeOK
  <2>5. FilesWritten'
    BY <1>1, <2>1, <2>3, <2>4 DEF FilesWritten
  <2>6. FilesCurrent'
    BY <1>1, <2>1, <2>4 DEF FilesCurrent
  <2>7. ShownIsConfigured'
    BY <1>1, <2>1 DEF ShownIsConfigured
  <2> QED BY <2>2, <2>5, <2>6, <2>7 DEF SettingsInv
<1>18. CASE Stop
  <2>1. /\ running' = "down" /\ saving' = None
        /\ UNCHANGED <<open, bound, waiting, label, config, event, toggleMode, files>>
    BY <1>18 DEF Stop, keyboard, input
  <2>2. SettingsTypeOK'
    BY <1>1, <2>1 DEF SettingsTypeOK
  <2> QED BY <1>1, <2>1, <2>2 DEF SettingsInv, FilesWritten, FilesCurrent, ShownIsConfigured
<1>19. CASE FailToStart
  <2>1. /\ running' = "failed"
        /\ UNCHANGED <<open, bound, waiting, label, config, event, toggleMode, files, saving>>
    BY <1>19 DEF FailToStart, keyboard, input
  <2>2. SettingsTypeOK'
    BY <1>1, <2>1 DEF SettingsTypeOK
  <2> QED BY <1>1, <2>1, <2>2 DEF SettingsInv, FilesWritten, FilesCurrent, ShownIsConfigured
<1>20. CASE Start
  <2>1. /\ running' = "up" /\ \A f \in Files : files[f] # None
        /\ open' = FALSE /\ waiting' = None /\ event' = None
        /\ bound' = files["keybinds"].bound /\ label' = files["keybinds"].bound
        /\ toggleMode' = files["keybinds"].toggle
        /\ config' = [colour |-> files["accessibility"].colour,
                      contrast |-> files["accessibility"].contrast,
                      bright |-> files["accessibility"].bright,
                      general |-> files["settings"].general]
        /\ filters' = FiltersOf(config') /\ brightness' = config'.bright
        /\ UNCHANGED <<files, saving>>
    BY <1>20 DEF Start, SetToggleMode
  <2>2. \A f \in Files : files[f] \in Written(f)
    BY <1>1, <2>1 DEF FilesWritten
  <2>3. /\ bound' \in [Places -> Keys \cup {None}] /\ toggleMode' \in BOOLEAN /\ config' \in Config
        /\ \A f \in Files : files[f] = Content(f, bound', toggleMode', config')
    BY <2>1, <2>2, WrittenIsKept
  <2>4. SettingsTypeOK'
    BY <1>1, <2>1, <2>3 DEF SettingsTypeOK
  <2>5. FilesWritten' /\ FilesCurrent'
    BY <1>1, <2>1, <2>3 DEF FilesWritten, FilesCurrent
  <2>6. ShownIsConfigured'
    BY <2>1 DEF ShownIsConfigured
  <2> QED BY <2>4, <2>5, <2>6 DEF SettingsInv
<1>21. CASE UNCHANGED vars
  BY <1>1, <1>21, KeepsSettings DEF vars, input, keyboard, SettingsTypeOK, ShownIsConfigured
<1> QED BY <1>3, <1>4, <1>5, <1>6, <1>7, <1>8, <1>9, <1>10, <1>11, <1>12, <1>13, <1>14, <1>15,
           <1>16, <1>17, <1>18, <1>19, <1>20, <1>21 DEF Next

LEMMA SettingsAlways == Spec => []SettingsInv
BY SettingsInit, SettingsStep, PTL DEF Spec

\* Whenever no save is under way, the files hold what is in effect: a restart brings back the
\* bindings, the toggle mode and the configuration, also those changed after an earlier restart.
THEOREM SettingsAreSaved == Spec => []SavedIsLoaded
<1>1. SettingsInv => SavedIsLoaded
  BY SettingsConstants DEF SettingsInv, FilesCurrent, SavedIsLoaded, Idle
<1> QED BY <1>1, SettingsAlways, PTL

\* The buttons of the screen and the filters of the window are those of the configuration.
THEOREM SettingsAreShown == Spec => []ShownIsConfigured
<1>1. SettingsInv => ShownIsConfigured
  BY DEF SettingsInv
<1> QED BY <1>1, SettingsAlways, PTL

-----------------------------------------------------------------------------
(* The axis in toggle mode.                                                  *)

\* What a frame makes of the toggles.
Toggled == FoldLeft(Toggle, toggled, KeyOrder)

\* A fold over the keys is a sequence of toggles, one per key; the recursion behind FoldLeft has a
\* solution because every prefix of the keys has one.
LEMMA ToggleByToggle ==
  ASSUME NEW n \in Nat, DOMAIN KeyOrder = 1 .. n
  PROVE  \E g : /\ g[0] = toggled
                /\ \A i \in 1 .. n : g[i] = Toggle(g[i - 1], KeyOrder[i])
                /\ Toggled = g[n]
<1> DEFINE Def(h, s) == IF s = {} THEN toggled ELSE Toggle(h[s \ {Max(s)}], KeyOrder[Max(s)])
           Solves(h, k) == h = [s \in SUBSET (1 .. k) |-> Def(h, s)]
           h == CHOOSE h : h = [s \in SUBSET (1 .. n) |-> Def(h, s)]
           P == {k \in Nat : \E f : Solves(f, k)}
<1>1. Toggled = h[1 .. n]
  BY DEF Toggled, FoldLeft, MapThenFoldSet
<1>2. 0 \in P
  <2> DEFINE f == [s \in SUBSET (1 .. 0) |-> toggled]
  <2>1. \A s \in SUBSET (1 .. 0) : Def(f, s) = toggled
    <3>1. 1 .. 0 = {}
      OBVIOUS
    <3> HIDE DEF f
    <3> QED BY <3>1
  <2>2. Solves(f, 0)
    <3> HIDE DEF Def
    <3> QED BY <2>1
  <2> HIDE DEF f, Solves
  <2> QED BY <2>2
<1>3. ASSUME NEW k \in P PROVE k + 1 \in P
  <2>1. PICK f : Solves(f, k)
    BY <1>3
  <2> DEFINE e == [s \in SUBSET (1 .. k + 1) |-> Def(f, s)]
  <2>2. ASSUME NEW s \in SUBSET (1 .. k + 1)
        PROVE  Def(f, s) = Def(e, s)
    <3>1. CASE s = {}
      BY <3>1
    <3>2. CASE s # {}
      <4>1. s \ {Max(s)} \in SUBSET (1 .. k) /\ s \ {Max(s)} \in SUBSET (1 .. k + 1)
        <5>1. k + 1 \in Nat
          OBVIOUS
        <5> HIDE DEF P, h, Solves, e, Def
        <5>2. Max(s) \in s /\ \A x \in s : x <= Max(s)
          BY <5>1, <3>2, MaxIn
        <5>3. k \in Nat
          BY DEF P
        <5> QED BY <5>2, <5>3, WithoutLast
      <4>2. e[s \ {Max(s)}] = f[s \ {Max(s)}]
        <5> HIDE DEF Def
        <5> QED BY <2>1, <4>1
      <4> HIDE DEF e
      <4> QED BY <3>2, <4>2
    <3> QED BY <3>1, <3>2
  <2>3. Solves(e, k + 1)
    <3>1. \A s \in SUBSET (1 .. k + 1) : Def(f, s) = Def(e, s)
      BY <2>2
    <3> HIDE DEF Def
    <3> QED BY <3>1
  <2>4. k + 1 \in Nat
    OBVIOUS
  <2> HIDE DEF e, Solves
  <2> QED BY <2>3, <2>4
<1>4. P = Nat
  <2>1. P \in SUBSET Nat
    OBVIOUS
  <2> HIDE DEF P
  <2> QED BY <1>2, <1>3, <2>1, NatSetInduction
<1>5. h = [s \in SUBSET (1 .. n) |-> Def(h, s)]
  <2>1. \E f : Solves(f, n)
    <3> HIDE DEF Solves
    <3> QED BY <1>4
  <2> HIDE DEF Def
  <2> QED BY <2>1
<1> DEFINE g == [i \in 0 .. n |-> h[1 .. i]]
<1>6. g[0] = toggled
  <2>1. h[{}] = Def(h, {})
    <3> HIDE DEF Def
    <3> QED BY <1>5
  <2>2. 1 .. 0 = {}
    OBVIOUS
  <2> HIDE DEF h
  <2> QED BY <2>1, <2>2
<1>7. ASSUME NEW i \in 1 .. n PROVE g[i] = Toggle(g[i - 1], KeyOrder[i])
  <2>1. Max(1 .. i) = i
    BY MaxOfInterval
  <2>2. /\ (1 .. i) \ {i} = 1 .. (i - 1) /\ 1 .. i # {}
        /\ i - 1 \in 0 .. n /\ i \in 0 .. n /\ 1 .. i \in SUBSET (1 .. n)
    <3> HIDE DEF g, h, P
    <3>1. i \in Nat /\ 1 <= i /\ i <= n
      OBVIOUS
    <3>2. (1 .. i) \ {i} = 1 .. (i - 1)
      BY <3>1
    <3>3. 1 .. i \in SUBSET (1 .. n)
      BY <3>1
    <3> QED BY <3>1, <3>2, <3>3
  <2>3. h[1 .. i] = Def(h, 1 .. i)
    <3> HIDE DEF Def
    <3> QED BY <1>5, <2>2
  <2> HIDE DEF h
  <2>4. h[1 .. i] = Toggle(h[1 .. (i - 1)], KeyOrder[i])
    BY <2>1, <2>2, <2>3
  <2> QED BY <2>2, <2>4
<1>8. Toggled = g[n]
  BY <1>1
<1> HIDE DEF g
<1> QED BY <1>6, <1>7, <1>8

AtMostOne(on) == \A l \in LeftKeys, r \in RightKeys : ~ {l, r} \subseteq on

\* One key never leaves both directions on.
LEMMA ToggleKeepsOne ==
  ASSUME NEW on, AtMostOne(on), NEW k
  PROVE  AtMostOne(Toggle(on, k))
<1>1. LeftKeys \cap RightKeys = {}
  BY DEF LeftKeys
<1>2. CASE Toggle(on, k) = on
  BY <1>2
<1>3. CASE Toggle(on, k) = on \ {k}
  BY <1>3 DEF AtMostOne
<1>4. CASE Toggle(on, k) = (on \ Opposite(k)) \cup {k}
  BY <1>1, <1>4 DEF AtMostOne, Opposite
<1> QED BY <1>2, <1>3, <1>4 DEF Toggle

LEMMA TogglesKeepOne ==
  ASSUME AtMostOne(toggled)
  PROVE  AtMostOne(Toggled)
<1> DEFINE n == Len(KeyOrder)
<1>1. n \in Nat /\ DOMAIN KeyOrder = 1 .. n
  BY SettingsConstants
<1> HIDE DEF n
<1>2. PICK g : /\ g[0] = toggled
               /\ \A i \in 1 .. n : g[i] = Toggle(g[i - 1], KeyOrder[i])
               /\ Toggled = g[n]
  BY <1>1, ToggleByToggle
<1> DEFINE P == {i \in Nat : i <= n => AtMostOne(g[i])}
<1>3. 0 \in P
  BY <1>2
<1>4. ASSUME NEW i \in P PROVE i + 1 \in P
  <2> SUFFICES ASSUME i + 1 <= n PROVE AtMostOne(g[i + 1])
    OBVIOUS
  <2>1. i + 1 \in 1 .. n /\ (i + 1) - 1 = i /\ AtMostOne(g[i])
    BY <1>1
  <2>2. g[i + 1] = Toggle(g[i], KeyOrder[i + 1])
    BY <1>2, <2>1
  <2> QED BY <2>1, <2>2, ToggleKeepsOne
<1>5. P = Nat
  <2>1. P \in SUBSET Nat
    OBVIOUS
  <2> HIDE DEF P
  <2> QED BY <1>3, <1>4, <2>1, NatSetInduction
<1> QED BY <1>1, <1>2, <1>5

\* Steps that leave the toggles and the bindings alone.
LEMMA KeepsDirection ==
  ASSUME OneDirection, UNCHANGED <<bound, toggled, stale>>
  PROVE  OneDirection'
BY DEF OneDirection, LeftKeys, RightKeys

LEMMA DirectionStep == SettingsInv /\ OneDirection /\ [Next]_vars => OneDirection'
<1> SUFFICES ASSUME SettingsInv, OneDirection, [Next]_vars
             PROVE  OneDirection'
  OBVIOUS
<1>1. CASE UNCHANGED <<bound, toggled, stale>>
  BY <1>1, KeepsDirection
<1>2. CASE toggled' = {}
  BY <1>2 DEF OneDirection
<1>3. CASE GameFrame
  <2>1. CASE toggleMode
    <3>1. toggled' = Toggled /\ UNCHANGED <<bound, stale>>
      BY <1>3, <2>1 DEF GameFrame, GetActionAxis, Toggled, FoldLeft, MapThenFoldSet
    <3>2. CASE stale
      BY <3>1, <3>2 DEF OneDirection
    <3>3. CASE ~ stale
      <4>1. AtMostOne(Toggled)
        BY <3>3, TogglesKeepOne DEF OneDirection, AtMostOne
      <4>2. LeftKeys' = LeftKeys /\ RightKeys' = RightKeys
        BY <3>1 DEF LeftKeys, RightKeys
      <4> QED BY <3>1, <4>1, <4>2 DEF OneDirection, AtMostOne
    <3> QED BY <3>2, <3>3
  <2>2. CASE ~ toggleMode
    BY <1>1, <1>3, <2>2 DEF GameFrame, GetActionAxis
  <2> QED BY <2>1, <2>2
<1>4. CASE HandleKeyRebind
  <2>1. /\ waiting \in Places /\ event \in Keys /\ bound \in [Places -> Keys \cup {None}]
        /\ bound' = [bound EXCEPT ![waiting] = event] /\ toggled' = toggled
        /\ stale' = (stale \/ bound[waiting] \in toggled \/ event \in toggled)
    BY <1>4 DEF HandleKeyRebind, SettingsInv, SettingsTypeOK
  <2> SUFFICES ASSUME ~ stale', NEW l \in LeftKeys', NEW r \in RightKeys', l \in toggled, r \in toggled
               PROVE  FALSE
    BY <2>1 DEF OneDirection
  <2>2. ~ stale /\ bound[waiting] \notin toggled /\ event \notin toggled
    BY <2>1
  <2>3. \A k \in toggled, p \in Places : bound'[p] = k <=> bound[p] = k
    BY <2>1, <2>2
  <2>4. \A k \in toggled, a \in Actions, s \in Slots : bound'[<<a, s>>] = k <=> bound[<<a, s>>] = k
    BY <2>3 DEF Places
  <2>5. ASSUME NEW k \in toggled PROVE k \in RightKeys' <=> k \in RightKeys
    <3>1. \A s \in Slots : bound'[<<"right", s>>] = k <=> bound[<<"right", s>>] = k
      BY <2>4 DEF Actions
    <3> QED BY <3>1 DEF RightKeys
  <2>6. ASSUME NEW k \in toggled PROVE k \in LeftKeys' <=> k \in LeftKeys
    <3>1. \A s \in Slots : bound'[<<"left", s>>] = k <=> bound[<<"left", s>>] = k
      BY <2>4 DEF Actions
    <3> QED BY <2>5, <3>1 DEF LeftKeys
  <2> QED BY <2>2, <2>5, <2>6 DEF OneDirection
<1>5. CASE UpdateToggleValue \/ Start
  BY <1>2, <1>5 DEF UpdateToggleValue, Start, SetToggleMode
<1>6. ASSUME NEW k \in Keys, Press(k) \/ Release(k)
      PROVE  OneDirection'
  BY <1>1, <1>6 DEF Press, Release, input
<1>7. CASE OpenSettings \/ LeaveSettings \/ SettingsFrame \/ CancelRebind
  BY <1>1, <1>7 DEF OpenSettings, LeaveSettings, SettingsFrame, CancelRebind, input
<1>8. ASSUME NEW p \in Places, StartKeyRebind(p)
      PROVE  OneDirection'
  BY <1>1, <1>8 DEF StartKeyRebind, input
<1>9. CASE CycleColorBlindnessFilter \/ ToggleHighContrastFilter \/ UpdateSettings
  BY <1>1, <1>9 DEF CycleColorBlindnessFilter, ToggleHighContrastFilter, UpdateSettings, input
<1>10. CASE UpdateBrightnessFilter
  BY <1>1, <1>10 DEF UpdateBrightnessFilter, input
<1>11. CASE FinishSave \/ Stop \/ FailToStart
  BY <1>1, <1>11 DEF FinishSave, Stop, FailToStart, input
<1>12. CASE UNCHANGED vars
  BY <1>1, <1>12 DEF vars, input
<1> QED BY <1>3, <1>4, <1>5, <1>6, <1>7, <1>8, <1>9, <1>10, <1>11, <1>12 DEF Next

\* In toggle mode the ship is never sent both ways, however many keys go down within one frame and
\* in whichever order they are on the keyboard, as long as no key was bound anew while on.
THEOREM OneDirectionAtATime == Spec => []OneDirection
<1>1. Init => OneDirection
  BY DEF Init, OneDirection
<1> QED BY <1>1, DirectionStep, SettingsAlways, PTL DEF Spec

-----------------------------------------------------------------------------
(* The level editor's list of levels.                                       *)

Entry == [index : Nat \cup {None}, work : Nat]
Unlike(fs) == \A m, n \in Selector!Readable(fs) : fs[m].index = fs[n].index => m = n

DirectoryOK ==
  /\ DOMAIN levels \subseteq Names /\ IsFiniteSet(DOMAIN levels)
  /\ levels \in [DOMAIN levels -> Entry]
  /\ works \in Nat /\ Len(shown) \in Nat

\* The second half of a swap is the index the first file had.
SwapOK ==
  swapping # None => swapping \in [path : Names, index : Nat] /\ swapping.path \in DOMAIN levels

\* The directory as it is once a swap under way is through: it is that one whose levels have
\* different indices.
Settled == IF swapping = None THEN levels ELSE [levels EXCEPT ![swapping.path].index = swapping.index]

IndicesDiffer == torn \/ Unlike(Settled)

\* As long as no level was overwritten, what the buttons do not show yet is either announced or a
\* level more than they show.
ListIsKnown ==
  lost = {} => \/ shown = Selector!AvailableLevels(levels)
               \/ outdated \/ swapping # None
               \/ Cardinality(Selector!Readable(levels)) > Len(shown)

SelectorInv == DirectoryOK /\ SwapOK /\ IndicesDiffer /\ ListIsKnown

\* The list's module has its own names for the operators of the library.
LEMMA SameOperators ==
  /\ \A S : Selector!IsFiniteSet(S) = IsFiniteSet(S)
  /\ \A S : Selector!Cardinality(S) = Cardinality(S)
  /\ \A S : Selector!Max(S) = Max(S)
BY DEF Selector!IsFiniteSet, IsFiniteSet, Selector!Cardinality, Cardinality, Selector!Max, Max

LEMMA ReadableIsFinite ==
  ASSUME NEW fs, IsFiniteSet(DOMAIN fs)
  PROVE  /\ IsFiniteSet(Selector!Readable(fs)) /\ Cardinality(Selector!Readable(fs)) \in Nat
         /\ Len(Selector!AvailableLevels(fs)) = Cardinality(Selector!Readable(fs))
<1>1. IsFiniteSet(Selector!Readable(fs))
  <2>1. Selector!Readable(fs) \in SUBSET DOMAIN fs
    BY DEF Selector!Readable
  <2> QED BY <2>1, FS_Subset
<1>2. Cardinality(Selector!Readable(fs)) \in Nat
  BY <1>1, FS_CardinalityType
<1>3. Len(Selector!AvailableLevels(fs)) = Cardinality(Selector!Readable(fs))
  BY <1>2, SameOperators DEF Selector!AvailableLevels
<1> QED BY <1>1, <1>2, <1>3

\* A new level's index is above every other.
LEMMA NextIndexIsNew ==
  ASSUME Selector!SelectorConstants, DirectoryOK
  PROVE  /\ Selector!NextIndex(levels) \in Nat
         /\ \A n \in Selector!Readable(levels) : levels[n].index \in Nat
                                                 /\ levels[n].index < Selector!NextIndex(levels)
<1> DEFINE R == Selector!Readable(levels)
           f == [n \in R |-> levels[n].index + 1]
           above == {levels[n].index + 1 : n \in R}
<1>1. \A n \in R : levels[n].index \in Nat
  BY DEF DirectoryOK, Entry, Selector!Readable
<1>2. IsFiniteSet(R)
  BY ReadableIsFinite DEF DirectoryOK
<1>3. f \in Surjection(R, above)
  BY DEF Surjection
<1>4. IsFiniteSet(above)
  <2> HIDE DEF R, f, above
  <2> QED BY <1>2, <1>3, FS_Surjection
<1>5. IsFiniteSet(above \cup {0})
  <2> HIDE DEF above
  <2> QED BY <1>4, FS_AddElement
<1>6. above \cup {0} \in SUBSET Nat
  BY <1>1
<1>7. Max(above \cup {0}) \in Nat /\ \A x \in above \cup {0} : x <= Max(above \cup {0})
  <2> HIDE DEF above
  <2> QED BY <1>5, <1>6, FiniteHasMax
<1>8. Selector!NextIndex(levels) = Max(above \cup {0})
  BY SameOperators DEF Selector!NextIndex
<1>9. ASSUME NEW n \in R PROVE levels[n].index < Selector!NextIndex(levels)
  <2>1. levels[n].index + 1 \in above \cup {0}
    OBVIOUS
  <2>2. levels[n].index + 1 <= Selector!NextIndex(levels)
    BY <2>1, <1>7, <1>8
  <2> QED BY <2>2, <1>1, <1>7, <1>8
<1> QED BY <1>1, <1>7, <1>8, <1>9

LEMMA SelectorInit == Selector!SelectorConstants /\ Selector!Init => SelectorInv
<1> SUFFICES ASSUME Selector!SelectorConstants, Selector!Init PROVE SelectorInv
  OBVIOUS
<1>1. DirectoryOK
  <2>1. Len(shown) \in Nat
    BY SameOperators, ReadableIsFinite DEF Selector!Init, Selector!SelectorConstants
  <2>2. works \in Nat
    BY SameOperators, FS_CardinalityType DEF Selector!Init, Selector!SelectorConstants
  <2> QED BY <2>1, <2>2, SameOperators
          DEF DirectoryOK, Entry, Selector!Init, Selector!SelectorConstants
<1>2. SwapOK
  BY DEF SwapOK, Selector!Init
<1>3. IndicesDiffer
  BY DEF IndicesDiffer, Unlike, Settled, Selector!Readable, Selector!Init, Selector!SelectorConstants
<1>4. ListIsKnown
  BY DEF ListIsKnown, Selector!Init
<1> QED BY <1>1, <1>2, <1>3, <1>4 DEF SelectorInv

\* Writing a level under the next index.
LEMMA WriteKeeps ==
  ASSUME Selector!SelectorConstants, SelectorInv, swapping = None, ~ outdated,
         Selector!Write(Selector!NextIndex(levels), works),
         UNCHANGED <<shown, swapping, torn>>
  PROVE  DirectoryOK' /\ SwapOK' /\ IndicesDiffer' /\ ListIsKnown'
<1> DEFINE i == Selector!NextIndex(levels)
<1>1. i \in Nat /\ i # None
      /\ \A n \in Selector!Readable(levels) : levels[n].index \in Nat /\ levels[n].index < i
  BY NextIndexIsNew DEF SelectorInv, Selector!SelectorConstants
<1> HIDE DEF i
<1>2. /\ i \in Names /\ works' = works + 1
      /\ lost' = lost \cup (IF i \in DOMAIN levels THEN {levels[i].work} ELSE {})
      /\ levels' = [n \in DOMAIN levels \cup {i} |->
                 IF n = i THEN [index |-> i, work |-> works] ELSE levels[n]]
  BY DEF i, Selector!Write
<1>3. DirectoryOK'
  <2>1. IsFiniteSet(DOMAIN levels \cup {i})
    BY FS_AddElement DEF SelectorInv, DirectoryOK
  <2> QED BY <1>1, <1>2, <2>1 DEF SelectorInv, DirectoryOK, Entry
<1>4. SwapOK'
  BY DEF SwapOK
<1>5. Selector!Readable(levels') = Selector!Readable(levels) \cup {i}
  BY <1>1, <1>2 DEF Selector!Readable
<1>6. IndicesDiffer'
  BY <1>1, <1>2, <1>5 DEF SelectorInv, IndicesDiffer, Unlike, Settled, Selector!Readable
<1>7. ListIsKnown'
  <2>1. SUFFICES ASSUME lost' = {} PROVE Cardinality(Selector!Readable(levels')) > Len(shown)
    BY DEF ListIsKnown
  <2>2. lost = {} /\ i \notin DOMAIN levels
    BY <1>2, <2>1
  <2>3. /\ IsFiniteSet(Selector!Readable(levels))
        /\ Cardinality(Selector!Readable(levels)) \in Nat
        /\ Len(Selector!AvailableLevels(levels)) = Cardinality(Selector!Readable(levels))
    BY ReadableIsFinite DEF SelectorInv, DirectoryOK
  <2>4. Cardinality(Selector!Readable(levels) \cup {i}) = Cardinality(Selector!Readable(levels)) + 1
    BY <2>2, <2>3, FS_AddElement DEF Selector!Readable
  <2>5. Cardinality(Selector!Readable(levels)) >= Len(shown) /\ Len(shown) \in Nat
    BY <2>2, <2>3 DEF SelectorInv, ListIsKnown, DirectoryOK
  <2> QED BY <1>5, <2>3, <2>4, <2>5
<1> QED BY <1>3, <1>4, <1>6, <1>7

\* The directory and the list as they were.
LEMMA KeepsSelector ==
  ASSUME SelectorInv, UNCHANGED <<levels, shown, outdated, swapping, works, lost, torn>>
  PROVE  SelectorInv'
BY DEF SelectorInv, DirectoryOK, SwapOK, IndicesDiffer, Settled, ListIsKnown

LEMMA SelectorStep ==
  Selector!SelectorConstants /\ SelectorInv /\ [Selector!Next]_(Selector!vars) => SelectorInv'
<1> SUFFICES ASSUME Selector!SelectorConstants, SelectorInv, [Selector!Next]_(Selector!vars)
             PROVE  SelectorInv'
  OBVIOUS
<1>1. CASE UNCHANGED Selector!vars
  BY <1>1, KeepsSelector DEF Selector!vars
<1>2. ASSUME NEW i \in DOMAIN shown, Selector!OpenLevel(i) PROVE SelectorInv'
  BY <1>2, KeepsSelector DEF Selector!OpenLevel
<1>3. ASSUME NEW i \in DOMAIN shown, NEW j, Selector!SwapLevels(i, j) PROVE SelectorInv'
  <2>1. /\ swapping = None /\ ~ outdated
        /\ {shown[i], shown[j]} \subseteq Selector!Readable(levels)
        /\ levels' = [levels EXCEPT ![shown[i]].index = levels[shown[j]].index]
        /\ swapping' = [path |-> shown[j], index |-> levels[shown[i]].index]
        /\ UNCHANGED <<shown, works, lost, torn>>
    BY <1>3 DEF Selector!SwapLevels, Selector!ClickMain, Selector!Idle
  <2>2. PICK a \in DOMAIN levels : a = shown[i] /\ levels[a].index \in Nat
    BY <2>1 DEF SelectorInv, DirectoryOK, Entry, Selector!Readable
  <2>3. PICK b \in DOMAIN levels : b = shown[j] /\ levels[b].index \in Nat
    BY <2>1 DEF SelectorInv, DirectoryOK, Entry, Selector!Readable
  <2>4. /\ levels' = [levels EXCEPT ![a].index = levels[b].index]
        /\ swapping' = [path |-> b, index |-> levels[a].index]
        /\ DOMAIN levels' = DOMAIN levels
        /\ swapping' # None
    BY <2>1, <2>2, <2>3 DEF SelectorInv, DirectoryOK, Selector!SelectorConstants
  <2>5. DirectoryOK' /\ SwapOK'
    BY <2>1, <2>2, <2>3, <2>4 DEF SelectorInv, DirectoryOK, SwapOK, Entry
  <2>6. IndicesDiffer'
    <3>1. Settled' = [levels' EXCEPT ![b].index = levels[a].index]
      BY <2>4 DEF Settled
    <3>2. /\ DOMAIN Settled' = DOMAIN levels
          /\ \A n \in DOMAIN levels : Settled'[n].index = IF n = b THEN levels[a].index
                                                           ELSE IF n = a THEN levels[b].index
                                                           ELSE levels[n].index
      BY <2>4, <3>1, <2>2, <2>3 DEF SelectorInv, DirectoryOK, Entry
    <3>3. torn \/ Unlike(levels)
      BY <2>1 DEF SelectorInv, IndicesDiffer, Settled
    <3>4. None \notin Nat
      BY DEF Selector!SelectorConstants
    <3>5. ASSUME Unlike(levels) PROVE Unlike(Settled')
      BY <3>2, <3>4, <3>5, <2>2, <2>3 DEF Unlike, Selector!Readable
    <3> QED BY <2>1, <3>3, <3>5 DEF IndicesDiffer, Unlike
  <2>7. ListIsKnown'
    BY <2>4 DEF ListIsKnown
  <2> QED BY <2>5, <2>6, <2>7 DEF SelectorInv
<1>4. ASSUME NEW i \in DOMAIN shown, NEW w \in {"delete", "duplicate"},
             Selector!ShowConfirmation(w, i)
      PROVE  SelectorInv'
  BY <1>4, KeepsSelector DEF Selector!ShowConfirmation
<1>5. CASE Selector!CreateNewLevel
  BY <1>5, WriteKeeps DEF Selector!CreateNewLevel, Selector!ClickMain, Selector!Idle, SelectorInv
<1>6. CASE Selector!FinishSwap
  <2>1. /\ swapping # None /\ swapping' = None /\ outdated'
        /\ levels' = [levels EXCEPT ![swapping.path].index = swapping.index]
        /\ UNCHANGED <<shown, works, lost, torn>>
    BY <1>6 DEF Selector!FinishSwap
  <2>2. swapping.path \in DOMAIN levels /\ swapping.index \in Nat
    BY <2>1 DEF SelectorInv, SwapOK
  <2>3. DirectoryOK' /\ SwapOK'
    BY <2>1, <2>2 DEF SelectorInv, DirectoryOK, SwapOK, Entry
  <2>4. Settled' = Settled
    BY <2>1 DEF Settled
  <2>5. IndicesDiffer' /\ ListIsKnown'
    BY <2>1, <2>4 DEF SelectorInv, IndicesDiffer, ListIsKnown
  <2> QED BY <2>3, <2>5 DEF SelectorInv
<1>7. ASSUME NEW by \in {-1, 1}, Selector!Turn(by) PROVE SelectorInv'
  BY <1>7 DEF Selector!Turn, SelectorInv, DirectoryOK, SwapOK, IndicesDiffer, Settled, ListIsKnown
<1>8. CASE Selector!Cancel
  BY <1>8, KeepsSelector DEF Selector!Cancel
<1>9. CASE Selector!ConfirmDelete
  <2>1. /\ swapping = None /\ outdated'
        /\ levels' = [n \in DOMAIN levels \ {popup.path} |-> levels[n]]
        /\ UNCHANGED <<shown, swapping, works, lost, torn>>
    BY <1>9 DEF Selector!ConfirmDelete, Selector!Asked, Selector!Idle
  <2>2. DirectoryOK'
    <3>1. IsFiniteSet(DOMAIN levels \ {popup.path})
      BY FS_RemoveElement DEF SelectorInv, DirectoryOK
    <3> QED BY <2>1, <3>1 DEF SelectorInv, DirectoryOK, Entry
  <2>3. SwapOK' /\ ListIsKnown'
    BY <2>1 DEF SwapOK, ListIsKnown
  <2>4. IndicesDiffer'
    BY <2>1 DEF SelectorInv, IndicesDiffer, Settled, Unlike, Selector!Readable
  <2> QED BY <2>2, <2>3, <2>4 DEF SelectorInv
<1>10. CASE Selector!ConfirmDuplicate
  BY <1>10, WriteKeeps
     DEF Selector!ConfirmDuplicate, Selector!Asked, Selector!Idle, SelectorInv
<1>11. CASE Selector!Update
  <2>1. /\ swapping = None /\ ~ outdated'
        /\ shown' = IF outdated \/ Len(shown) # Cardinality(Selector!Readable(levels))
                    THEN Selector!AvailableLevels(levels) ELSE shown
        /\ UNCHANGED <<levels, swapping, works, lost, torn>>
    BY <1>11, SameOperators DEF Selector!Update
  <2>2. /\ Cardinality(Selector!Readable(levels)) \in Nat
        /\ Len(Selector!AvailableLevels(levels)) = Cardinality(Selector!Readable(levels))
    BY ReadableIsFinite DEF SelectorInv, DirectoryOK
  <2>3. DirectoryOK' /\ SwapOK' /\ IndicesDiffer'
    BY <2>1, <2>2 DEF SelectorInv, DirectoryOK, SwapOK, IndicesDiffer, Settled
  <2>4. ListIsKnown'
    BY <2>1, <2>2 DEF SelectorInv, ListIsKnown, DirectoryOK
  <2> QED BY <2>3, <2>4 DEF SelectorInv
<1>12. CASE Selector!LeaveEditor
  BY <1>12, KeepsSelector DEF Selector!LeaveEditor
<1>13. CASE Selector!Restart
  <2>1. /\ torn' = (torn \/ swapping # None) /\ swapping' = None
        /\ shown' = Selector!AvailableLevels(levels')
        /\ UNCHANGED <<works, lost>>
    BY <1>13 DEF Selector!Restart
  <2>2. /\ DOMAIN levels' \subseteq Names /\ IsFiniteSet(DOMAIN levels')
        /\ levels' \in [DOMAIN levels' -> Entry]
    <3>1. CASE levels' = levels
      BY <3>1 DEF SelectorInv, DirectoryOK
    <3>2. CASE swapping # None /\ levels' = [levels EXCEPT ![swapping.path].index = None]
      BY <3>2 DEF SelectorInv, DirectoryOK, SwapOK, Entry
    <3> QED BY <1>13, <3>1, <3>2 DEF Selector!Restart
  <2>3. Len(shown') \in Nat
    BY <2>1, <2>2, ReadableIsFinite
  <2>4. DirectoryOK'
    BY <2>1, <2>2, <2>3 DEF SelectorInv, DirectoryOK
  <2>5. SwapOK' /\ ListIsKnown'
    BY <2>1 DEF SwapOK, ListIsKnown
  <2>6. IndicesDiffer'
    <3>1. CASE swapping = None
      BY <1>13, <3>1 DEF Selector!Restart, SelectorInv, IndicesDiffer, Settled
    <3>2. CASE swapping # None
      BY <2>1, <3>2 DEF IndicesDiffer
    <3> QED BY <3>1, <3>2
  <2> QED BY <2>4, <2>5, <2>6 DEF SelectorInv
<1> QED BY <1>1, <1>2, <1>3, <1>4, <1>5, <1>6, <1>7, <1>8, <1>9, <1>10, <1>11, <1>12, <1>13
        DEF Selector!Next, Selector!MoveUp, Selector!MoveDown

LEMMA ListAlways ==
  ASSUME Selector!SelectorConstants
  PROVE  Selector!Spec => []Selector!ListIsTheDirectory
<1>1. ASSUME SelectorInv PROVE Selector!ListIsTheDirectory
  BY <1>1, ReadableIsFinite, SameOperators
     DEF SelectorInv, DirectoryOK, IndicesDiffer, Unlike, Settled, ListIsKnown,
         Selector!ListIsTheDirectory, Selector!ClickMain, Selector!Idle
<1>2. SelectorInv => Selector!ListIsTheDirectory
  BY <1>1
<1> QED BY <1>2, SelectorInit, SelectorStep, PTL DEF Selector!Spec

-----------------------------------------------------------------------------
(* The screens together.                                                    *)

\* Whichever screen is followed, the settings and the list of the levels behave as each does alone.
THEOREM ScreensKeepApart == FilesSpec => Spec /\ Selector!Spec
<1>1. FilesInit => Init /\ Selector!Init
  BY DEF FilesInit
<1>2. [FilesNext]_<<followed, vars, selection, level>> => [Next]_vars
  BY DEF FilesNext
<1>3. [FilesNext]_<<followed, vars, selection, level>> => [Selector!Next]_(Selector!vars)
  BY DEF FilesNext, selection, Selector!vars
<1> QED BY <1>1, <1>2, <1>3, PTL DEF FilesSpec, Spec, Selector!Spec

\* The buttons of the level editor's list act on the levels they show, for every directory and
\* every page size: levels are made, copied, deleted and swapped, the second half of a swap may be
\* lost, and only an overwritten level escapes the list's count.
THEOREM ButtonsActOnWhatTheyShow == FilesSpec => []ListIsTheDirectory
<1>1. Selector!SelectorConstants
  BY LevelsFit
<1>2. Selector!ListIsTheDirectory => ListIsTheDirectory
  BY DEF ListIsTheDirectory
<1> QED BY <1>1, <1>2, ListAlways, ScreensKeepApart, PTL
=============================================================================
