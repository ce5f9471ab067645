---------------------------- MODULE UserInterface ----------------------------
(***************************************************************************)
(* The client's user interface as functions of a manager's state: buttons   *)
(* in a layout, the mouse over them, the focus the keys move, and a slider.  *)
(* A manager is a record                                                    *)
(*   els            the elements that can have the focus, by name           *)
(*   order          _focusableElements                                      *)
(*   focus          _currentFocused, a name or Nobody                       *)
(*   focusDisabled  _focusDisabled                                          *)
(*   at             _lastMousePos, the element under it, or Nobody          *)
(* Two places are further apart than the 20 pixels of a movement.           *)
(***************************************************************************)
EXTENDS Integers, Sequences, FiniteSets, FiniteSetsExt, SequencesExt

CONSTANT Nobody

NewElement == [state |-> "Normal", focused |-> FALSE, inside |-> FALSE, was |-> FALSE]

\* The layout's elements are collected as they are added: none is disabled then.
NewManager(order) ==
  [els |-> [n \in Range(order) |-> NewElement], order |-> order, focus |-> Nobody,
   focusDisabled |-> FALSE, at |-> Nobody]

ClearElements(u) ==
  [u EXCEPT !.els = [n \in {} |-> NewElement], !.order = <<>>, !.focus = Nobody]

SetFocused(e, f) ==
  IF e.focused = f THEN e
  ELSE [e EXCEPT !.focused = f, !.state = IF f THEN "Focused" ELSE "Normal"]

CanBeFocused(e) == e.state # "Disabled"

-----------------------------------------------------------------------------
(* The mouse.                                                               *)

\* A mutant: a pressed element the mouse leaves stays pressed.
StayPressed(e, in, pressed) ==
  [e EXCEPT !.was    = pressed,
            !.inside = IF pressed /\ ~ e.was THEN in ELSE e.inside,
            !.state  = IF in /\ pressed THEN "Pressed"
                       ELSE IF e.focused THEN e.state ELSE IF in THEN "Hovered" ELSE e.state]

\* What an element becomes when the mouse is in it or not, pressed or not.
HandleInput(e, in, pressed) ==
  [e EXCEPT !.was    = pressed,
            !.inside = IF pressed /\ ~ e.was THEN in ELSE e.inside,
            !.state  = IF in /\ pressed THEN "Pressed"
                       ELSE IF e.focused THEN e.state
                       ELSE IF in THEN "Hovered" ELSE "Normal"]

\* _onRelease is called.
Released(e, in, pressed) == in /\ ~ pressed /\ e.state = "Pressed" /\ e.inside

ClearFocus(u) ==
  IF u.focus = Nobody THEN u
  ELSE [u EXCEPT !.els[u.focus] = SetFocused(u.els[u.focus], FALSE), !.focus = Nobody]

\* A press looks for an element that can have the focus among those added to the manager itself,
\* not in their layouts: it always takes the focus away.
PressTakesFocus(u) == ClearFocus(u)

OnMouseMovement(u, at) ==
  IF u.at \in {Nobody, at} THEN u ELSE [ClearFocus(u) EXCEPT !.focusDisabled = TRUE]

HandleMouseInput(u, at, pressed) ==
  LET moved == OnMouseMovement(u, at)
      all   == [moved EXCEPT !.at = at,
                             !.els = [n \in DOMAIN moved.els |->
                                        HandleInput(moved.els[n], n = at, pressed)]]
  IN IF pressed THEN PressTakesFocus(all) ELSE all

\* The elements whose _onRelease this calls.
Releases(u, at, pressed) ==
  LET moved == OnMouseMovement(u, at) IN
    {n \in DOMAIN moved.els : Released(moved.els[n], n = at, pressed)}

-----------------------------------------------------------------------------
(* The keys.                                                                *)

SetFocus(u, n) ==
  LET clear == ClearFocus(u) IN
    [clear EXCEPT !.els[n] = SetFocused(clear.els[n], TRUE), !.focus = n]

FocusIndex(u) == IF u.focus = Nobody THEN 0 ELSE CHOOSE i \in DOMAIN u.order : u.order[i] = u.focus

Focusable(u) == {i \in DOMAIN u.order : CanBeFocused(u.els[u.order[i]])}

\* Forward from the focus, then from the first element up to the focus, which stays if it is alone.
FocusNextElement(u) ==
  LET here == FocusIndex(u)
      next == {i \in Focusable(u) : i > here}
      first == {i \in Focusable(u) : i < here}
  IN IF next # {} THEN SetFocus(u, u.order[Min(next)])
     ELSE IF first # {} THEN SetFocus(u, u.order[Min(first)]) ELSE u

\* Backward from the focus, or from the last element.
FocusPreviousElement(u) ==
  LET here == FocusIndex(u)
      from == IF here > 1 THEN here - 1 ELSE Len(u.order)
      before == {i \in Focusable(u) : i <= from}
      last == {i \in Focusable(u) : i > here}
  IN IF before # {} THEN SetFocus(u, u.order[Max(before)])
     ELSE IF last # {} THEN SetFocus(u, u.order[Max(last)]) ELSE u

\* A button has no use for left and right.
HandleNavigationInput(u, action) ==
  LET enabled == [u EXCEPT !.focusDisabled = FALSE] IN
    IF action \in {"up", "left"} THEN FocusPreviousElement(enabled)
    ELSE IF action \in {"down", "right"} THEN FocusNextElement(enabled) ELSE enabled

\* The element whose _onActivated this calls.
Activates(u, action) == IF action = "select" /\ u.focus # Nobody THEN {u.focus} ELSE {}

-----------------------------------------------------------------------------
(* A slider: its value, the greatest, and the drag.                         *)

NewSlider(max) == [value |-> 0, max |-> max, dragging |-> FALSE, was |-> FALSE]

Clamp(v, max) == IF v < 0 THEN 0 ELSE IF v > max THEN max ELSE v

SetValue(s, v) == [s EXCEPT !.value = Clamp(v, s.max)]

\* A drag starts with a press on the slider and ends with the press, wherever the mouse is by then;
\* x is the share of the track left of the mouse, in parts.
Drag(s, over, x, parts, pressed) ==
  LET dragging == IF ~ pressed THEN FALSE ELSE IF ~ s.was /\ over THEN TRUE ELSE s.dragging
      held     == [s EXCEPT !.dragging = dragging, !.was = pressed]
  IN IF dragging THEN SetValue(held, (s.max * Clamp(x, parts)) \div parts) ELSE held

=============================================================================
