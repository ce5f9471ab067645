---------------------------- MODULE ReplayViewer ----------------------------
(***************************************************************************)
(* Replays: the games that are recorded, the five files they rotate         *)
(* through, the list of them and the player with its keys, its buttons and  *)
(* its slider, one frame of the client at a time.                           *)
(***************************************************************************)
EXTENDS UserInterface

CONSTANTS
  MaxReplayFiles,  \* MAX_REPLAY_FILES
  MaxGames,        \* bound: games ever played
  LongGames,       \* bound: the games that last until frames are written
  MaxFrames,       \* bound: frames of a replay
  MaxGap,          \* bound: game time between two frames, at least 1
  Slow, Normal, Fast,  \* _playbackSpeed, as replay time a frame at that speed takes: 0.1, 1, 2
  SeekStep,        \* replay time an arrow moves by in a frame
  Cooldown,        \* frames the key cooldown lasts
  SliderParts,     \* bound: places on the slider
  Keys             \* bound: keys the user holds, one at a time

VARIABLES
  replays,   \* the directory: number -> the game recorded there and the times of its frames
  games,     \* how many games were played, at most MaxGames
  screen,    \* "profile", "game" or "replays"
  recording, \* the file of the running game and the time it has run
  v,         \* the replay screen
  fired,     \* the elements whose callback the last frame's mouse called
  mouse      \* what the user did in the last frame: where the mouse was, its button

vars == <<replays, games, screen, recording, v, fired, mouse>>

-----------------------------------------------------------------------------
(* The replay screen's state.                                               *)

\* A place is an element and a number: of the replay, or of the part of the slider.
Button(name) == <<name, 0>>
PlaybackControls == <<Button("leave"), Button("pause"), Button("slower"), Button("faster")>>
Buttons == Range(PlaybackControls)
Sliders == {<<"slider", x>> : x \in 0 .. SliderParts}
\* The slider is as wide as the buttons below it.
PlaceOnTrack(at) == IF at \in Sliders THEN at[2] ELSE IF at \in Buttons THEN 0 ELSE SliderParts

\* The latest first: the i-th is the one with i - 1 later ones.
AvailableReplays ==
  LET Later(n) == {m \in DOMAIN replays : replays[m].game > replays[n].game}
  IN [i \in 1 .. Cardinality(DOMAIN replays) |->
        <<"replay", CHOOSE n \in DOMAIN replays : Cardinality(Later(n)) = i - 1>>]

\* The list of at most five replays and the way back.
SelectionManager == NewManager(Append(AvailableReplays, Button("back")))

Places == Buttons \cup Sliders \cup {Button("back"), Button("off")}
            \cup {<<"replay", n>> : n \in 1 .. MaxReplayFiles}

ASSUME ReplayConstants ==
  /\ {MaxReplayFiles, MaxGap, Slow, Normal, Fast, SeekStep, SliderParts} \subseteq Nat \ {0}
  /\ {MaxGames, MaxFrames, Cooldown} \subseteq Nat
  /\ Slow <= Normal /\ Normal <= Fast
  /\ Nobody \notin Places

\* _playbackUIManager before it is made.
NoControls == NewManager(<<>>)

NewViewer ==
  [ui |-> SelectionManager, controls |-> NoControls, slider |-> NewSlider(0), frames |-> <<>>,
   time |-> 0, total |-> 0, index |-> 1, speed |-> Normal, playing |-> FALSE, paused |-> FALSE,
   switch |-> FALSE, cooldown |-> 0, seen |-> {}, popped |-> FALSE]

\* A reference: the last frame that is not after t, the first where there is none.
LastFrame(frames, t) == Max({i \in DOMAIN frames : frames[i] <= t} \cup {1})

Idle == [at |-> Button("off"), pressed |-> FALSE]

Init ==
  /\ replays = [n \in {} |-> 0] /\ games = 0 /\ screen = "profile" /\ recording = Nobody
  /\ v = Nobody /\ fired = {} /\ mouse = Idle

-----------------------------------------------------------------------------
(* Recording.                                                               *)

\* A mutant: the latest first, as in the list.
LastReplayFile ==
  IF Cardinality(DOMAIN replays) < MaxReplayFiles THEN Cardinality(DOMAIN replays) + 1
  ELSE CHOOSE n \in DOMAIN replays : \A m \in DOMAIN replays : replays[n].game >= replays[m].game

\* A file of its own while there are few, then the one written longest ago.
GetNextReplayFile ==
  IF Cardinality(DOMAIN replays) < MaxReplayFiles THEN Cardinality(DOMAIN replays) + 1
  ELSE CHOOSE n \in DOMAIN replays : \A m \in DOMAIN replays : replays[n].game <= replays[m].game

\* A game, or a level of one, makes its file and empties it.
StartGame ==
  /\ screen = "profile" /\ games < MaxGames
  /\ games' = games + 1
  /\ replays' = [n \in DOMAIN replays \cup {GetNextReplayFile} |->
                   IF n = GetNextReplayFile THEN [game |-> games', frames |-> <<>>] ELSE replays[n]]
  /\ recording' = [file |-> GetNextReplayFile, time |-> 0]
  /\ screen' = "game"
  /\ UNCHANGED <<v, fired, mouse>>

\* Time passes with every frame; one is written only once the game zone is there.
RecordFrame(gap, zone) ==
  /\ screen = "game" /\ games \in LongGames
  /\ Len(replays[recording.file].frames) < MaxFrames
  /\ recording.time + gap <= MaxFrames * MaxGap
  /\ recording' = [recording EXCEPT !.time = @ + gap]
  /\ replays' = IF zone THEN [replays EXCEPT ![recording.file].frames = Append(@, recording'.time)]
                ELSE replays
  /\ UNCHANGED <<games, screen, v, fired, mouse>>

EndGame ==
  /\ screen = "game"
  /\ screen' = "profile" /\ recording' = Nobody
  /\ UNCHANGED <<replays, games, v, fired, mouse>>

-----------------------------------------------------------------------------
(* The parts of a frame of the replay screen, in the code's order.          *)

\* loadReplay keeps what was played last when the file has no frame, and makes no controls.
LoadReplay(w, n) ==
  LET frames == replays[n].frames
      total  == IF frames = <<>> THEN 0 ELSE frames[Len(frames)]
      read   == [w EXCEPT !.switch = TRUE, !.frames = frames, !.total = total]
  IN IF frames = <<>> THEN read
     ELSE [read EXCEPT !.time = 0, !.index = 1, !.paused = FALSE,
                       !.controls = NewManager(PlaybackControls),
                       !.slider = NewSlider(total)]

\* A click or a selection in the list.
Chosen(w, names) ==
  IF names = {} THEN w
  ELSE LET n == CHOOSE m \in names : TRUE IN
         IF n = Button("back") THEN [w EXCEPT !.popped = TRUE] ELSE LoadReplay(w, n[2])

Mouse(w, at, pressed) ==
  Chosen([w EXCEPT !.ui = HandleMouseInput(w.ui, at, pressed)], Releases(w.ui, at, pressed))

ActionOf(key) ==
  CASE key \in {"escape", "B"} -> {"escape"}
    [] key \in {"enter", "A"}  -> {"select"}
    [] key \in {"up", "down", "left", "right"} -> {key}
    [] OTHER -> {}

\* handleNavigationInputs: an action counts in the frame its key goes down. Back leaves only the list.
Navigate(w, key) ==
  LET action == ActionOf(key) \ w.seen IN
    IF action = {"escape"}
    THEN [w EXCEPT !.seen = @ \cup action, !.popped = @ \/ ~ w.playing]
    ELSE LET pressed == [w EXCEPT !.seen = ActionOf(key)]
             a       == CHOOSE x \in action : TRUE
         IN IF action = {} THEN pressed
            ELSE Chosen([pressed EXCEPT !.ui = HandleNavigationInput(w.ui, a)], Activates(w.ui, a))

\* From the list to the player or back.
Switch(w) ==
  IF ~ w.switch THEN w
  ELSE IF ~ w.playing
  THEN [w EXCEPT !.switch = FALSE, !.playing = TRUE, !.ui = ClearElements(w.ui)]
  ELSE [w EXCEPT !.switch = FALSE, !.playing = FALSE, !.controls = NoControls, !.slider = NewSlider(0),
                 !.ui = [SelectionManager EXCEPT !.at = w.ui.at,
                                                 !.focusDisabled = w.ui.focusDisabled]]

Keyboard(w, key) ==
  LET cool == [w EXCEPT !.cooldown = IF @ > 0 THEN @ - 1 ELSE 0]
      ready == cool.cooldown = 0
  IN CASE key \in {"space", "A"} /\ ready ->
            [cool EXCEPT !.paused = ~ @, !.cooldown = Cooldown]
       [] key = "B" /\ ready ->
            [cool EXCEPT !.switch = TRUE, !.paused = FALSE, !.cooldown = Cooldown]
       [] key = "left"  -> [cool EXCEPT !.time = IF @ < SeekStep THEN 0 ELSE @ - SeekStep]
       [] key = "right" -> [cool EXCEPT !.time = Min({cool.total, @ + SeekStep})]
       [] key = "up" /\ ready   -> [cool EXCEPT !.speed = Min({Fast, @ + 1}), !.cooldown = Cooldown]
       [] key = "down" /\ ready -> [cool EXCEPT !.speed = Max({Slow, @ - 1}), !.cooldown = Cooldown]
       [] OTHER -> cool

\* playReplay: at the end the list comes back.
PlayReplay(w) ==
  IF w.frames = <<>> THEN w
  ELSE LET t   == w.time + w.speed
           end == t >= w.total
       IN [w EXCEPT !.time = t,
                    !.index = IF end THEN Len(w.frames) ELSE LastFrame(w.frames, t),
                    !.switch = @ \/ end,
                    !.paused = @ /\ ~ end]

\* A mutant: the slider moves the time alone.
SeekTime(w, slider) ==
  IF slider.value = w.slider.value THEN [w EXCEPT !.slider = slider]
  ELSE [w EXCEPT !.slider = slider, !.time = slider.value]

\* The slider's callback, called when its value changes, by the user or by the time that passed.
Seek(w, slider) ==
  IF slider.value = w.slider.value THEN [w EXCEPT !.slider = slider]
  ELSE [w EXCEPT !.slider = slider, !.time = slider.value,
                 !.index = LastFrame(w.frames, slider.value)]

ControlClicked(w, names) ==
  CASE Button("leave") \in names  -> [w EXCEPT !.switch = TRUE, !.paused = FALSE]
    [] Button("pause") \in names  -> [w EXCEPT !.paused = ~ @]
    [] Button("slower") \in names -> [w EXCEPT !.speed = Max({Slow, @ - 1})]
    [] Button("faster") \in names -> [w EXCEPT !.speed = Min({Fast, @ + 1})]
    [] OTHER -> w

\* updatePlaybackControls: the slider follows the time, then the mouse may move it.
Controls(w, at, pressed) ==
  IF w.controls = NoControls THEN w
  ELSE LET shown   == Seek(w, SetValue(w.slider, w.time))
           dragged == Seek(shown, Drag(shown.slider, at \in Sliders, PlaceOnTrack(at),
                                       SliderParts, pressed))
       IN ControlClicked([dragged EXCEPT !.controls = HandleMouseInput(w.controls, at, pressed)],
                         Releases(w.controls, at, pressed))

Player(w, at, pressed, key) ==
  IF ~ w.playing THEN w
  ELSE LET pressedKeys == Keyboard(w, key) IN
         Controls(IF pressedKeys.paused THEN pressedKeys ELSE PlayReplay(pressedKeys), at, pressed)

\* The callbacks of the controls run after a switch, which takes them away or makes them.
ControlsFired(w, at, pressed) ==
  IF w.playing /\ w.controls # NoControls THEN Releases(w.controls, at, pressed) ELSE {}

-----------------------------------------------------------------------------
(* The screens.                                                             *)

OpenReplays ==
  /\ screen = "profile"
  /\ screen' = "replays" /\ v' = NewViewer /\ mouse' = Idle
  /\ UNCHANGED <<replays, games, recording, fired>>

Frame(at, pressed, key) ==
  /\ screen = "replays"
  /\ \E clicked \in {Mouse(v, at, pressed)} :
     \E chosen \in {Navigate(clicked, key)} :
     \E switched \in {Switch(chosen)} :
     \E w \in {Player(switched, at, pressed, key)} :
       /\ fired' = Releases(v.ui, at, pressed) \cup ControlsFired(switched, at, pressed)
       /\ IF w.popped THEN v' = Nobody /\ screen' = "profile" ELSE v' = w /\ UNCHANGED screen
  /\ mouse' = [at |-> at, pressed |-> pressed]
  /\ UNCHANGED <<replays, games, recording>>

\* The client ends at any time; the files stay.
Restart ==
  /\ screen # "profile"
  /\ screen' = "profile" /\ recording' = Nobody /\ v' = Nobody /\ fired' = {} /\ mouse' = Idle
  /\ UNCHANGED <<replays, games>>

Next ==
  \/ StartGame \/ EndGame \/ OpenReplays \/ Restart
  \/ \E gap \in 1 .. MaxGap, zone \in BOOLEAN : RecordFrame(gap, zone)
  \/ \E at \in Places, pressed \in BOOLEAN, key \in Keys : Frame(at, pressed, key)

Spec == Init /\ [][Next]_vars

-----------------------------------------------------------------------------
(* Properties.                                                              *)

Playing == screen = "replays" /\ v.playing

\* Of the games played, the latest are kept: the rotation overwrites the oldest replay.
LatestGamesKept ==
  {replays[n].game : n \in DOMAIN replays} =
    {g \in 1 .. games : g > games - MaxReplayFiles}

\* Whatever moved the time last - playing, an arrow, the slider or a new replay - the frame on
\* show is the one of that time, the last one once the end is reached.
FrameFollowsTime ==
  Playing /\ v.frames # <<>> /\ ~ v.switch => v.index = LastFrame(v.frames, v.time)

\* A click calls its callback once: in the frame the button is let go, on the element the mouse
\* was on when it was still pressed, however the keys moved the focus meanwhile.
OneCallbackPerClick ==
  [][fired' # {} /\ screen = "replays" => mouse.pressed /\ fired' = {mouse.at}]_vars

=============================================================================
