---------------------------- MODULE ClientSettings ----------------------------
(***************************************************************************)
(* The client's settings: the screen that changes them, the dialogue that   *)
(* binds a key, the window's filters, the input provider with its toggle    *)
(* mode, and the three files the settings are kept in.  The two directions  *)
(* of one axis stand for all remappable actions.                            *)
(***************************************************************************)
EXTENDS Integers, FiniteSets, SequencesExt

CONSTANTS
  KeyOrder,   \* the keyboard's keys, in the order of EventType
  NamedKeys,  \* the keys stringToEventMap has a name for
  Escape,     \* the key that leaves a menu
  Slots,      \* of a binding: primary, secondary
  Defaults,   \* the bindings of loadDefault
  Values,     \* what a setting without a filter of its own may be
  MaxClicks,  \* bound: clicks on the settings screen
  MaxHeld,    \* bound: keys held at a time
  None        \* no key

Keys == ToSet(KeyOrder)
Actions == {"left", "right"}
Places  == Actions \X Slots
Files   == {"keybinds", "accessibility", "settings"}

ASSUME SettingsConstants ==
  /\ KeyOrder \in Seq(Keys) /\ NamedKeys \cup {Escape} \subseteq Keys
  /\ None \notin Keys \cup Places \cup Files /\ Values # {}
  /\ Defaults \in [Places -> Keys \cup {None}]
  /\ {MaxClicks, MaxHeld} \subseteq Nat

VARIABLES
  running,    \* the client is up, down, or failed to start
  open,       \* the settings screen is shown, over the game
  bound,      \* _mapping.remappableKeys
  toggleMode, \* _toggleMode
  waiting,    \* _actionToRebind and _rebindingPrimary, while _isWaitingForKey
  label,      \* what the buttons of the bindings say
  config,     \* SettingsConfig
  filters,    \* _activeFilters of the window
  brightness, \* the uniform of its brightness filter
  held,       \* the keys that are down
  event,      \* what pollEvents will return
  backWas,    \* _lastKeyState of MENU_BACK
  keyWas,     \* _keyPressedState of the axis
  toggled,    \* _toggledKeyStates of the axis
  files,      \* what is on the disk; None is an empty file
  saving,     \* the file a save has emptied and not yet written
  stale,      \* history: a key was bound anew while toggled on
  clicks      \* at most MaxClicks

keyboard == <<held, event>>
input    == <<toggleMode, keyWas, toggled, stale>>
look     == <<filters, brightness>>
vars == <<running, open, bound, waiting, label, config, look, keyboard, input, backWas, files,
          saving, clicks>>

-----------------------------------------------------------------------------
(* Bindings, filters and files.                                             *)

\* getAllMappings: the direction of each key of the axis; right is entered after left.
RightKeys == {bound[<<"right", s>>] : s \in Slots} \ {None}
LeftKeys  == ({bound[<<"left", s>>] : s \in Slots} \ {None}) \ RightKeys
Mapped    == LeftKeys \cup RightKeys
Opposite(k) == IF k \in LeftKeys THEN RightKeys ELSE LeftKeys

\* applyAccessibilityToWindow, and what applyColorBlindnessFilter and applyHighContrastFilter make.
FiltersOf(c) ==
  {"brightness"} \cup (IF c.contrast THEN {"contrast"} ELSE {})
    \cup (CASE c.colour = 0 -> {} [] c.colour = 1 -> {"protanopia"}
            [] c.colour = 2 -> {"deuteranopia"} [] c.colour = 3 -> {"tritanopia"})

\* A key is written by its name, and "Unknown" is read as no key.
ReadBack(b) == [p \in Places |-> IF b[p] \in NamedKeys THEN b[p] ELSE None]

Content(f, b, t, c) ==
  CASE f = "keybinds"      -> [bound |-> ReadBack(b), toggle |-> t]
    [] f = "accessibility" -> [colour |-> c.colour, contrast |-> c.contrast, bright |-> c.bright]
    [] f = "settings"      -> [general |-> c.general]

DefaultConfig == [colour |-> 0, contrast |-> FALSE, bright |-> CHOOSE v \in Values : TRUE,
                  general |-> CHOOSE v \in Values : TRUE]

\* The first start writes the defaults.
Init ==
  /\ running = "up" /\ open = FALSE
  /\ bound = Defaults /\ toggleMode = FALSE
  /\ waiting = None /\ label = Defaults
  /\ config = DefaultConfig
  /\ filters = FiltersOf(DefaultConfig) /\ brightness = DefaultConfig.bright
  /\ held = {} /\ event = None /\ backWas = FALSE
  /\ keyWas = {} /\ toggled = {} /\ stale = FALSE
  /\ files = [f \in Files |-> Content(f, Defaults, FALSE, DefaultConfig)]
  /\ saving = None /\ clicks = 0

-----------------------------------------------------------------------------
(* The keyboard.                                                            *)

Idle == running = "up" /\ saving = None

Press(k) ==
  /\ Idle /\ event = None /\ k \notin held
  /\ Cardinality(held) < MaxHeld
  /\ held' = held \cup {k} /\ event' = k
  /\ UNCHANGED <<running, open, bound, waiting, label, config, look, input, backWas, files, saving,
                 clicks>>

Release(k) ==
  /\ Idle /\ k \in held
  /\ held' = held \ {k}
  /\ UNCHANGED <<running, open, bound, waiting, label, config, look, event, input, backWas, files,
                 saving, clicks>>

\* A frame of the game asks for MENU_BACK ...
BackPressed == Escape \in held /\ ~ backWas

\* A mutant: the other direction stays on.
ToggleAlone(on, k) ==
  IF k \in Mapped /\ k \in held \ keyWas
  THEN IF k \in on THEN on \ {k} ELSE on \cup {k}
  ELSE on

\* ... and for the axis: a key that goes down turns its toggle over, and a toggle turned on turns
\* those of the other direction off.  Keys are seen in their order.
Toggle(on, k) ==
  IF k \in Mapped /\ k \in held \ keyWas
  THEN IF k \in on THEN on \ {k} ELSE (on \ Opposite(k)) \cup {k}
  ELSE on

GetActionAxis ==
  IF toggleMode
  THEN /\ toggled' = FoldLeft(Toggle, toggled, KeyOrder)
       /\ keyWas' = (keyWas \ Mapped) \cup (held \cap Mapped)
  ELSE UNCHANGED <<toggled, keyWas>>

GameFrame ==
  /\ Idle /\ ~ open
  /\ event' = None /\ backWas' = (Escape \in held)
  /\ GetActionAxis
  /\ UNCHANGED <<running, open, bound, waiting, label, config, look, held, toggleMode, stale, files,
                 saving, clicks>>

\* setToggleMode forgets every toggle.
SetToggleMode(on) ==
  /\ toggleMode' = on
  /\ toggled' = {} /\ keyWas' = {} /\ stale' = FALSE

-----------------------------------------------------------------------------
(* The settings screen.                                                     *)

\* From the pause screen; the buttons are made anew.
OpenSettings ==
  /\ Idle /\ ~ open
  /\ open' = TRUE /\ waiting' = None /\ label' = bound
  /\ UNCHANGED <<running, bound, config, look, keyboard, input, backWas, files, saving, clicks>>

\* Escape at the first frame that sees it down, or the Back button.
LeaveSettings ==
  /\ Idle /\ open /\ waiting = None
  /\ open' = FALSE /\ event' = None
  /\ backWas' \in {backWas, (Escape \in held)}
  /\ UNCHANGED <<running, bound, waiting, label, config, look, held, input, files, saving, clicks>>

\* A frame in which nothing is clicked.
SettingsFrame ==
  /\ Idle /\ open /\ waiting = None /\ ~ BackPressed
  /\ event' = None /\ backWas' = (Escape \in held)
  /\ UNCHANGED <<running, open, bound, waiting, label, config, look, held, input, files, saving,
                 clicks>>

Click ==
  /\ Idle /\ open /\ waiting = None /\ ~ BackPressed
  /\ clicks < MaxClicks /\ clicks' = clicks + 1
  /\ event' = None /\ backWas' = (Escape \in held)
  /\ UNCHANGED <<running, open, held>>

Save(f) == saving' = f /\ files' = [files EXCEPT ![f] = None]

StartKeyRebind(p) ==
  /\ Click
  /\ waiting' = p /\ label' = [label EXCEPT ![p] = "press"]
  /\ UNCHANGED <<bound, config, look, input, files, saving>>

\* While a key is waited for, the screen looks at nothing but the keyboard.
CancelRebind ==
  /\ Idle /\ open /\ waiting # None
  /\ event = Escape /\ event' = None
  /\ waiting' = None /\ label' = [label EXCEPT ![waiting] = bound[waiting]]
  /\ UNCHANGED <<running, open, bound, config, look, held, input, backWas, files, saving, clicks>>

\* A mutant: the label keeps asking for a key.
HandleKeyRebindSilently ==
  /\ Idle /\ open /\ waiting # None
  /\ event \in Keys \ {Escape} /\ event' = None
  /\ bound' = [bound EXCEPT ![waiting] = event]
  /\ waiting' = None
  /\ stale' = (stale \/ bound[waiting] \in toggled \/ event \in toggled)
  /\ Save("keybinds")
  /\ UNCHANGED <<running, open, label, config, look, held, toggleMode, keyWas, toggled, backWas, clicks>>

HandleKeyRebind ==
  /\ Idle /\ open /\ waiting # None
  /\ event \in Keys \ {Escape} /\ event' = None
  /\ bound' = [bound EXCEPT ![waiting] = event]
  /\ label' = [label EXCEPT ![waiting] = event]
  /\ waiting' = None
  /\ stale' = (stale \/ bound[waiting] \in toggled \/ event \in toggled)
  /\ Save("keybinds")
  /\ UNCHANGED <<running, open, config, look, held, toggleMode, keyWas, toggled, backWas, clicks>>

\* A mutant: the mode is not saved.
UpdateToggleValueOnly ==
  /\ Click
  /\ SetToggleMode(~ toggleMode)
  /\ UNCHANGED <<bound, waiting, label, config, look, files, saving>>

UpdateToggleValue ==
  /\ Click
  /\ SetToggleMode(~ toggleMode)
  /\ Save("keybinds")
  /\ UNCHANGED <<bound, waiting, label, config, look>>

\* Each of the accessibility settings changes the window too ...
CycleColorBlindnessFilter ==
  /\ Click
  /\ config' = [config EXCEPT !.colour = (@ + 1) % 4]
  /\ filters' = FiltersOf([config' EXCEPT !.contrast = "contrast" \in filters])
  /\ Save("accessibility")
  /\ UNCHANGED <<bound, waiting, label, brightness, input>>

ToggleHighContrastFilter ==
  /\ Click
  /\ config' = [config EXCEPT !.contrast = ~ @]
  /\ filters' = IF config'.contrast THEN filters \cup {"contrast"} ELSE filters \ {"contrast"}
  /\ Save("accessibility")
  /\ UNCHANGED <<bound, waiting, label, brightness, input>>

\* The slider calls back only for a new value.
UpdateBrightnessFilter ==
  /\ Click
  /\ \E v \in Values \ {config.bright} : config' = [config EXCEPT !.bright = v]
  /\ filters' = filters \cup {"brightness"} /\ brightness' = config'.bright
  /\ Save("accessibility")
  /\ UNCHANGED <<bound, waiting, label, input>>

\* ... and of the others: scale, volumes, resolution, frame rate, quality, metrics.
UpdateSettings ==
  /\ Click
  /\ \E v \in Values : config' = [config EXCEPT !.general = v]
  /\ Save("settings")
  /\ UNCHANGED <<bound, waiting, label, look, input>>

\* The file is open and empty until the text is written.
FinishSave ==
  /\ running = "up" /\ saving # None
  /\ files' = [files EXCEPT ![saving] = Content(saving, bound, toggleMode, config)]
  /\ saving' = None
  /\ UNCHANGED <<running, open, bound, waiting, label, config, look, keyboard, input, backWas, clicks>>

-----------------------------------------------------------------------------
(* The client ends, also in the middle of a save, and starts again.         *)

Stop ==
  /\ running = "up" /\ running' = "down"
  /\ saving' = None
  /\ UNCHANGED <<open, bound, waiting, label, config, look, keyboard, input, backWas, files, clicks>>

\* loadAll does not catch the parser's error.
FailToStart ==
  /\ running = "down" /\ \E f \in Files : files[f] = None
  /\ running' = "failed"
  /\ UNCHANGED <<open, bound, waiting, label, config, look, keyboard, input, backWas, files, saving,
                 clicks>>

Start ==
  /\ running = "down" /\ running' = "up"
  /\ \A f \in Files : files[f] # None
  /\ open' = FALSE /\ waiting' = None
  /\ bound' = files["keybinds"].bound /\ label' = files["keybinds"].bound
  /\ config' = [colour |-> files["accessibility"].colour, contrast |-> files["accessibility"].contrast,
                bright |-> files["accessibility"].bright, general |-> files["settings"].general]
  /\ filters' = FiltersOf(config') /\ brightness' = config'.bright
  /\ held' = {} /\ event' = None /\ backWas' = FALSE
  /\ SetToggleMode(files["keybinds"].toggle)
  /\ UNCHANGED <<files, saving, clicks>>

Next ==
  \/ \E k \in Keys : Press(k) \/ Release(k)
  \/ GameFrame \/ OpenSettings \/ LeaveSettings \/ SettingsFrame
  \/ \E p \in Places : StartKeyRebind(p)
  \/ CancelRebind \/ HandleKeyRebind \/ UpdateToggleValue
  \/ CycleColorBlindnessFilter \/ ToggleHighContrastFilter \/ UpdateBrightnessFilter \/ UpdateSettings
  \/ FinishSave \/ Stop \/ Start \/ FailToStart

Spec == Init /\ [][Next]_vars

-----------------------------------------------------------------------------
(* Properties.                                                              *)

\* What a restart would read is what is in effect, whenever no save is under way: every change is
\* written to its file; keys without a name are read back as none.
SavedIsLoaded ==
  Idle => \A f \in Files : files[f] = Content(f, bound, toggleMode, config)

\* The buttons and the window tell the truth: a button names its key unless it asks for one, and
\* the filters are those of the configuration, also after a restart.
ShownIsConfigured ==
  running = "up" =>
    /\ open => \A p \in Places : label[p] = (IF waiting = p THEN "press" ELSE bound[p])
    /\ filters = FiltersOf(config) /\ brightness = config.bright

\* In toggle mode the ship is never sent in both directions at once, as long as no key was bound
\* anew while its toggle was on.
OneDirection ==
  ~ stale => \A l \in LeftKeys, r \in RightKeys : ~ {l, r} \subseteq toggled

=============================================================================
