---------------------------- MODULE WindowsMonitor ---------------------------
(***************************************************************************)
(* WindowsSelectionMonitor.cpp: mouse and foreground hooks post what they  *)
(* see to the GUI thread's queue, tagged with hookEpoch_.  A drag or a     *)
(* double click in a window of another program starts a short timer, then  *)
(* a helper process is asked for the window's selection.  The user goes on *)
(* meanwhile: windows change, gestures follow each other, the monitor is   *)
(* stopped and started.                                                    *)
(*                                                                         *)
(* Positions are abstracted to whether a click is near the last one and    *)
(* whether the mouse was dragged.  Left out: status texts, failing hooks   *)
(* (start() then changes nothing else) and windows that are destroyed.     *)
(* A queued event, the button's press and the selection carry the epoch    *)
(* they come from, and the selection its gesture, as bookkeeping.          *)
(***************************************************************************)
EXTENDS Naturals, Sequences, UIAQuery

CONSTANTS
    Others,     \* windows of other programs
    MaxStarts,  \* bound: calls of start() with an effect
    MaxInputs   \* bound: mouse events and changes of the foreground

VARIABLES
    running,        \* status_.running, and the hooks are installed
    generation,     \* generation_
    hookEpoch,      \* hookEpoch_
    target,         \* target_
    lastForeground, \* lastForeground_
    mouse,          \* what processMouse remembers
    events,         \* status_.events: gestures accepted
    debounce,       \* the 80 ms timer is active
    expiry,         \* the 45 s timer is active
    latest,         \* latest_
    completion,     \* the connected completion_ and what it captured
    foreground,     \* GetForegroundWindow()
    clicks,         \* posted mouse events
    switches,       \* posted foreground events
    starts, inputs  \* how often the bounds were used

monitor == <<running, generation, hookEpoch, target, lastForeground, mouse,
             events, debounce, expiry, latest, completion>>
world   == <<foreground, clicks, switches, starts, inputs>>
vars    == <<monitor, query, world>>

None == "none"
Own  == "own"
Windows == Others \cup {Own}

ASSUME WindowsAssumption ==
    /\ RetiringLimit \in Nat
    /\ MaxStarts \in Nat /\ MaxInputs \in Nat
    /\ None \notin Others /\ Own \notin Others

External(window) == window \in Others

NoLatest      == NoQuestion
NotConnected  == [generation |-> 0, target |-> None]
ButtonUp      == [pressed |-> FALSE, window |-> None, double |-> FALSE,
                  lastClick |-> None, epoch |-> 0]

Init ==
    /\ QueryInit
    /\ running = FALSE
    /\ generation = 0
    /\ hookEpoch = 0
    /\ target = None
    /\ lastForeground = None
    /\ mouse = ButtonUp
    /\ events = 0
    /\ debounce = FALSE
    /\ expiry = FALSE
    /\ latest = NoLatest
    /\ completion = NotConnected
    /\ foreground \in Windows
    /\ clicks = <<>>
    /\ switches = <<>>
    /\ starts = 0
    /\ inputs = 0

-----------------------------------------------------------------------------
(***************************************************************************)
(* Starting, stopping and invalidating                                     *)
(***************************************************************************)
\* Mutant: the selection stays until the next one replaces it.
InvalidateKeepsLatest ==
    /\ generation' = generation + 1
    /\ debounce' = FALSE
    /\ expiry' = FALSE
    /\ completion' = NotConnected
    /\ target' = None
    /\ UNCHANGED latest

\* invalidate() but for its call of cancel(), which the callers add.
Invalidate ==
    /\ generation' = generation + 1
    /\ debounce' = FALSE
    /\ expiry' = FALSE
    /\ completion' = NotConnected
    /\ target' = None
    /\ latest' = NoLatest

Start ==
    /\ ~running
    /\ starts < MaxStarts
    /\ starts' = starts + 1
    /\ running' = TRUE
    /\ generation' = generation + 1
    /\ hookEpoch' = hookEpoch + 1
    /\ lastForeground' = foreground
    /\ UNCHANGED <<target, mouse, events, debounce, expiry, latest, completion,
                   query, foreground, clicks, switches, inputs>>

Stop ==
    /\ running
    /\ running' = FALSE
    /\ hookEpoch' = hookEpoch + 1
    /\ mouse' = [ButtonUp EXCEPT !.double = mouse.double]
    /\ Invalidate
    /\ QueryCancel
    /\ UNCHANGED <<lastForeground, events, world>>

Expire ==
    /\ expiry
    /\ Invalidate
    /\ QueryCancel
    /\ UNCHANGED <<running, hookEpoch, lastForeground, mouse, events, world>>

-----------------------------------------------------------------------------
(***************************************************************************)
(* The hooks, and what the user does                                       *)
(***************************************************************************)
Posted(queue, event) == IF running THEN Append(queue, event) ELSE queue

Click ==
    /\ inputs < MaxInputs
    /\ inputs' = inputs + 1
    /\ \E down \in BOOLEAN, window \in Windows :
          clicks' = Posted(clicks, [down |-> down, window |-> window,
                                    epoch |-> hookEpoch])
    /\ UNCHANGED <<monitor, query, foreground, switches, starts>>

SwitchWindow ==
    /\ inputs < MaxInputs
    /\ inputs' = inputs + 1
    /\ \E window \in Windows \ {foreground} :
          /\ foreground' = window
          /\ switches' = Posted(switches, [window |-> window, epoch |-> hookEpoch])
    /\ UNCHANGED <<monitor, query, clicks, starts>>

\* Mutant: events of an earlier run are processed.
HandlesLate(event) == running

Handles(event) == running /\ event.epoch = hookEpoch

\* Mutant: this program's own windows are no news.
IgnoresOwn(window) == window # lastForeground /\ External(window)

Changed(window) == window # lastForeground

ProcessForeground(window) ==
    /\ Changed(window)
    /\ lastForeground' = window
    /\ mouse' = [mouse EXCEPT !.pressed = @ /\ mouse.window = window,
                              !.lastClick = None]
    /\ Invalidate
    /\ QueryCancel
    /\ UNCHANGED <<running, hookEpoch, events>>

DeliverSwitch ==
    /\ switches # <<>>
    /\ switches' = Tail(switches)
    /\ LET event == Head(switches) IN
          IF Handles(event) /\ Changed(event.window)
          THEN ProcessForeground(event.window)
          ELSE UNCHANGED <<monitor, query>>
    /\ UNCHANGED <<foreground, clicks, starts, inputs>>

\* A second click in the same window, if near enough in time and place.
ButtonDown(event) ==
    /\ \E near \in BOOLEAN :
          mouse' = [mouse EXCEPT !.pressed = TRUE, !.window = event.window,
                                 !.double = near /\ mouse.lastClick = event.window,
                                 !.epoch = event.epoch]
    /\ Invalidate
    /\ QueryCancel
    /\ UNCHANGED <<running, hookEpoch, lastForeground, events>>

\* A drag or a double click is a gesture that may have selected text.
ButtonReleased(event) ==
    /\ mouse.pressed /\ mouse.window = event.window
    /\ \E dragged \in BOOLEAN :
          /\ mouse' = [mouse EXCEPT !.pressed = FALSE,
                          !.lastClick = IF dragged THEN None ELSE event.window]
          /\ IF dragged \/ mouse.double
             THEN target' = event.window /\ events' = events + 1 /\ debounce' = TRUE
             ELSE UNCHANGED <<target, events, debounce>>
    /\ UNCHANGED <<running, generation, hookEpoch, lastForeground, expiry, latest,
                   completion, query>>

\* A click on this program's windows must not clear what they act on.
OwnClick ==
    /\ mouse' = [mouse EXCEPT !.pressed = FALSE]
    /\ UNCHANGED <<running, generation, hookEpoch, target, lastForeground, events,
                   debounce, expiry, latest, completion, query>>

ProcessMouse(event) ==
    \/ ~External(event.window) /\ OwnClick
    \/ External(event.window) /\ event.down /\ ButtonDown(event)
    \/ External(event.window) /\ ~event.down /\ ButtonReleased(event)

Ignored(event) ==
    \/ ~Handles(event)
    \/ /\ External(event.window) /\ ~event.down
       /\ ~(mouse.pressed /\ mouse.window = event.window)

DeliverClick ==
    /\ clicks # <<>>
    /\ clicks' = Tail(clicks)
    /\ LET event == Head(clicks) IN
          \/ Handles(event) /\ ProcessMouse(event)
          \/ Ignored(event) /\ UNCHANGED <<monitor, query>>
    /\ UNCHANGED <<foreground, switches, starts, inputs>>

-----------------------------------------------------------------------------
(***************************************************************************)
(* Asking for the selection                                                *)
(***************************************************************************)
CanAsk == running /\ External(target) /\ foreground = target

\* Mutant: a question that is not taken is forgotten.
RefusedSilently == debounce' = FALSE /\ UNCHANGED <<generation, expiry, completion,
                                                    target, latest>>

\* The timer is single-shot; a refused question ends the gesture.
Refused == Invalidate

RequestSelection ==
    /\ debounce
    /\ IF CanAsk /\ Accepts
       THEN /\ debounce' = FALSE
            /\ completion' = [generation |-> generation, target |-> target]
            /\ Request([window |-> target, event |-> events, epoch |-> mouse.epoch])
            /\ UNCHANGED <<generation, target, expiry, latest>>
       ELSE /\ IF CanAsk THEN Refused ELSE Invalidate
            /\ QueryCancel
    /\ UNCHANGED <<running, hookEpoch, lastForeground, mouse, events, world>>

Hears ==
    /\ running
    /\ completion.generation = generation
    /\ completion.target = target
    /\ foreground = target

Keep(question) ==
    /\ latest' = question
    /\ expiry' = TRUE
    /\ completion' = NotConnected
    /\ UNCHANGED <<generation, target, debounce>>

\* An answer the slot does not hear leaves it connected.
Completed ==
    /\ \E found \in BOOLEAN :
          /\ QueryEnds(found)
          /\ \/ Hears /\ found /\ Keep(asked)
             \/ Hears /\ ~found /\ Invalidate
             \/ ~Hears /\ UNCHANGED <<generation, target, debounce, expiry, latest,
                                      completion>>
    /\ UNCHANGED <<running, hookEpoch, lastForeground, mouse, events, world>>

HelperGone == Reap /\ UNCHANGED <<monitor, world>>

-----------------------------------------------------------------------------
Next ==
    \/ Start \/ Stop \/ Expire
    \/ Click \/ SwitchWindow
    \/ DeliverSwitch \/ DeliverClick
    \/ RequestSelection \/ Completed \/ HelperGone

Spec == Init /\ [][Next]_vars

\* The event loop and the timers run; users, helpers and the system need not.
FairSpec ==
    /\ Spec
    /\ WF_vars(DeliverSwitch) /\ WF_vars(DeliverClick)
    /\ WF_vars(RequestSelection) /\ WF_vars(Completed)

-----------------------------------------------------------------------------
(***************************************************************************)
(* The selection kept was read for the last gesture, which began and ended *)
(* in this run of the monitor, from the window of that gesture, and the    *)
(* timer that lets it expire is active.                                    *)
(***************************************************************************)
LatestOfGesture ==
    latest # NoLatest =>
        /\ running /\ expiry
        /\ latest.window = target
        /\ latest.event = events
        /\ latest.epoch = hookEpoch

(***************************************************************************)
(* Once the foreground events are processed, a selection kept is of the    *)
(* window in the foreground: nothing is offered for a window the user has  *)
(* left, be it for another program or for one of this program's windows.   *)
(***************************************************************************)
SourceInForeground ==
    switches = <<>> /\ latest # NoLatest => latest.window = foreground

(***************************************************************************)
(* However fast gestures and cancellations follow each other, and however  *)
(* long the system takes to end what was killed, no more helpers exist     *)
(* than retiring_ may hold.                                                *)
(***************************************************************************)
Helpers == retiring + (IF QueryBusy THEN 1 ELSE 0)

HelpersBounded == Helpers <= RetiringLimit

(***************************************************************************)
(* A gesture is answered or cleared, even if the helper hangs: a window    *)
(* left before its answer comes does not leave the gesture open for good.  *)
(***************************************************************************)
GestureAnswered == debounce ~> (target = None \/ latest # NoLatest)
=============================================================================
