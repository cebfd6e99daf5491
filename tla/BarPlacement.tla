----------------------------- MODULE BarPlacement ----------------------------
(***************************************************************************)
(* placeActionBar() of ActionBarPlacement.cpp: where the toolbar goes for  *)
(* a selection, given the rectangle of the selection and the part of the   *)
(* screen that may be used.  The code computes in 64 bits with values of   *)
(* 32, so that integers are exact.                                         *)
(***************************************************************************)
EXTENDS Integers

Rects == [x : Int, y : Int, width : Int, height : Int]
Sizes == [width : Int, height : Int]

Valid(area) == area.width > 0 /\ area.height > 0

Gap == 8

\* Division as in C++: towards zero.
Half(n) == IF n >= 0 THEN n \div 2 ELSE -((-n) \div 2)

Clamp(value, low, high) ==
    IF value < low THEN low ELSE IF high < value THEN high ELSE value

Placeable(anchor, size, available) ==
    /\ Valid(anchor) /\ Valid(size) /\ Valid(available)
    /\ size.width <= available.width
    /\ size.height <= available.height

Above(anchor, size) == anchor.y - Gap - size.height

Below(anchor) == anchor.y + anchor.height + Gap

WantedX(anchor, size) == anchor.x + Half(anchor.width - size.width)

WantedY(anchor, size, available) ==
    IF Above(anchor, size) < available.y THEN Below(anchor) ELSE Above(anchor, size)

\* Where the toolbar goes if it is placed at all.
Placed(anchor, size, available) ==
    [x |-> Clamp(WantedX(anchor, size), available.x,
                 available.x + available.width - size.width),
     y |-> Clamp(WantedY(anchor, size, available), available.y,
                 available.y + available.height - size.height),
     width  |-> size.width,
     height |-> size.height]

-----------------------------------------------------------------------------
Within(bar, area) ==
    /\ area.x <= bar.x /\ bar.x + bar.width <= area.x + area.width
    /\ area.y <= bar.y /\ bar.y + bar.height <= area.y + area.height

\* No line of the selection is covered.
Clear(bar, anchor) ==
    \/ bar.y + bar.height <= anchor.y
    \/ anchor.y + anchor.height <= bar.y

\* There is room above the selection, or below it.
Room(anchor, size, available) ==
    \/ available.y <= Above(anchor, size)
    \/ Below(anchor) + size.height <= available.y + available.height
=============================================================================
