---------------------------- MODULE ManualTrigger ----------------------------
(***************************************************************************)
(* Application's toolbar and palette (ApplicationManual.cpp,               *)
(* ApplicationOverlay.cpp, ActionBar.cpp, ManualActionPalette.cpp) with    *)
(* the resolvers of both platforms.  A selection that is detected may show *)
(* the toolbar.  The shortcut, the tray or a second process triggers the   *)
(* palette: Linux resolves the selection at once, Windows asks a helper    *)
(* process and opens the palette when it answers, while the user and the   *)
(* AI request go on.                                                       *)
(*                                                                         *)
(* A selection is the number of its detection; a resolved one is named by  *)
(* its source.  Left out: texts, geometry (a selection can be placed or    *)
(* not), Diagnostics, and resolve(), which nobody calls on Windows.        *)
(* turns, and the turn kept with a functor and with the palette's content, *)
(* are bookkeeping: a turn begins with a trigger or with an AI request.    *)
(***************************************************************************)
EXTENDS Naturals, Sequences, UIAQuery

CONSTANTS
    Others,        \* windows of other programs
    MaxTurns,      \* bound: triggers and AI requests
    MaxDetections  \* bound: selections the monitor detects

VARIABLES
    platform,    \* which resolver main() made
    running,     \* the monitor's status().running
    latest,      \* the monitor's latestSelection(), or 0
    automatic,   \* ui/automaticPopup
    bar,         \* ActionBar::selection_, or 0: the bar is hidden
    palette,     \* what the ManualActionPalette shows
    busy,        \* controller_.busy()
    generation,  \* manualGeneration_
    resolver,    \* WindowsSelectionResolver::generation_
    completion,  \* the functor completion_ connects
    timers,      \* functors posted by zero delay timers
    foreground,  \* GetForegroundWindow()
    turns,       \* how many turns began
    open,        \* the turn of a trigger whose outcome is outstanding, or 0
    detections   \* how many selections were detected

overlay   == <<running, latest, automatic, bar, detections>>
resolving == <<resolver, completion, timers, query, open>>
vars == <<platform, overlay, palette, busy, generation, resolving, foreground, turns>>

Own     == "own"
Windows == Others \cup {Own}

Sources == <<"native", "primary", "clipboard">>   \* in the order they are read

Hidden     == [shows |-> "nothing", turn |-> 0]
NoFunctor  == [resolver |-> 0, manual |-> 0, target |-> Own, turn |-> 0]

ASSUME ManualAssumption ==
    /\ RetiringLimit \in Nat
    /\ MaxTurns \in Nat /\ MaxDetections \in Nat
    /\ Own \notin Others

Init ==
    /\ QueryInit
    /\ platform \in {"linux", "windows"}
    /\ running = FALSE
    /\ latest = 0
    /\ automatic \in BOOLEAN
    /\ bar = 0
    /\ palette = Hidden
    /\ busy = FALSE
    /\ generation = 0
    /\ resolver = 0
    /\ completion = NoFunctor
    /\ timers = <<>>
    /\ foreground \in Windows
    /\ turns = 0
    /\ open = 0
    /\ detections = 0

-----------------------------------------------------------------------------
(***************************************************************************)
(* The toolbar                                                             *)
(***************************************************************************)
HideBar == bar' = 0

\* Mutant: a busy controller is not asked.
ShowableBusy == automatic /\ running

Showable == automatic /\ running /\ ~busy

\* usable: the text, its anchor, the placement and the preferences allow it.
ShowSelectionToolbar(selection, usable) ==
    bar' = IF Showable /\ usable THEN selection ELSE 0

MonitorStarts ==
    /\ ~running
    /\ running' = TRUE
    /\ UNCHANGED <<latest, automatic, bar, detections, platform, palette, busy,
                   generation, resolving, foreground, turns>>

\* Mutant: the bar is left to the user.
MonitorStopsOnly ==
    /\ running
    /\ running' = FALSE
    /\ latest' = 0
    /\ UNCHANGED <<bar, automatic, detections, platform, palette, busy, generation,
                   resolving, foreground, turns>>

\* The selection goes first, then the status changes.
MonitorStops ==
    /\ running
    /\ running' = FALSE
    /\ latest' = 0
    /\ HideBar
    /\ UNCHANGED <<automatic, detections, platform, palette, busy, generation,
                   resolving, foreground, turns>>

Detected ==
    /\ running
    /\ detections < MaxDetections
    /\ detections' = detections + 1
    /\ latest' = detections + 1
    /\ \E usable \in BOOLEAN : ShowSelectionToolbar(detections + 1, usable)
    /\ UNCHANGED <<running, automatic, platform, palette, busy, generation,
                   resolving, foreground, turns>>

Cleared ==
    /\ latest # 0
    /\ latest' = 0
    /\ HideBar
    /\ UNCHANGED <<running, automatic, detections, platform, palette, busy,
                   generation, resolving, foreground, turns>>

SetAutomaticPopup ==
    /\ automatic' = ~automatic
    /\ IF automatic THEN HideBar ELSE UNCHANGED bar
    /\ UNCHANGED <<running, latest, detections, platform, palette, busy,
                   generation, resolving, foreground, turns>>

\* Dismissed by the user, or preferences were saved.
BarCloses ==
    /\ bar # 0
    /\ HideBar
    /\ UNCHANGED <<running, latest, automatic, detections, platform, palette, busy,
                   generation, resolving, foreground, turns>>

-----------------------------------------------------------------------------
(***************************************************************************)
(* The palette.  A window that is shown may get the foreground, one that   *)
(* is hidden gives it to another.                                          *)
(***************************************************************************)
Show(content, turn) ==
    /\ palette' = [shows |-> content, turn |-> turn]
    /\ foreground' \in {foreground, Own}

Showing == palette # Hidden

AfterHiding ==
    IF Showing /\ foreground = Own THEN Windows ELSE {foreground}

HidePalette == palette' = Hidden /\ foreground' \in AfterHiding

\* SelectionResolver: the first source that yields a text, or a message.
Resolved(readable) ==
    LET found == {i \in DOMAIN Sources : Sources[i] \in readable}
        first(i) == i \in found /\ \A j \in found : i <= j
    IN  IF found = {} THEN "message" ELSE Sources[CHOOSE i \in found : first(i)]

-----------------------------------------------------------------------------
(***************************************************************************)
(* WindowsSelectionResolver                                                *)
(***************************************************************************)
\* Linux has nothing to cancel.
ResolverCancel ==
    IF platform = "linux" THEN UNCHANGED <<resolver, completion, query>>
    ELSE /\ resolver' = resolver + 1
         /\ completion' = NoFunctor
         /\ QueryCancel

\* Mutant: a refused question is left at that.
RefusedSilently(functor) == UNCHANGED timers

Refused(functor) == timers' = Append(timers, functor)

\* resolveAsync(), with the two cancels before the question as one.
ResolveAsync(functor) ==
    /\ resolver' = resolver + 1
    /\ open' = turns + 1
    /\ retiring' = Retired
    /\ \/ /\ Retired < RetiringLimit
          /\ asked' = [window |-> functor.target, event |-> turns + 1, epoch |-> 0]
          /\ completion' = functor
          /\ UNCHANGED timers
       \/ /\ Retired >= RetiringLimit
          /\ asked' = NoQuestion
          /\ completion' = NoFunctor
          /\ Refused(functor)

\* The functor of triggerManualActions.
Completed(functor, readable) ==
    IF functor.manual = generation /\ ~busy
    THEN Show(Resolved(readable), functor.turn)
    ELSE UNCHANGED <<palette, foreground>>

\* The functor of resolveAsync; a trigger whose focus moved ends silently.
Finish(functor, readable) ==
    IF functor.resolver # resolver
    THEN UNCHANGED <<completion, open, palette, foreground>>
    ELSE /\ completion' = NoFunctor
         /\ open' = 0
         /\ IF foreground = functor.target
            THEN Completed(functor, readable)
            ELSE UNCHANGED <<palette, foreground>>

QueryAnswers ==
    /\ \E found \in BOOLEAN, others \in SUBSET {"clipboard"} :
          /\ QueryEnds(found)
          /\ Finish(completion, (IF found THEN {"native"} ELSE {}) \cup others)
    /\ UNCHANGED <<platform, overlay, busy, generation, resolver, timers, turns>>

TimerFires ==
    /\ timers # <<>>
    /\ timers' = Tail(timers)
    /\ \E readable \in SUBSET {"clipboard"} : Finish(Head(timers), readable)
    /\ UNCHANGED <<platform, overlay, busy, generation, resolver, query, turns>>

HelperGone ==
    /\ Reap
    /\ UNCHANGED <<platform, overlay, palette, busy, generation, resolver,
                   completion, timers, open, foreground, turns>>

-----------------------------------------------------------------------------
(***************************************************************************)
(* Triggers and choices                                                    *)
(***************************************************************************)
Turn == turns < MaxTurns /\ turns' = turns + 1

TriggerBusy ==
    /\ busy
    /\ ResolverCancel
    /\ open' = 0
    /\ UNCHANGED timers
    /\ Show("message", turns + 1)

\* The default resolveAsync() calls the functor before it returns.
TriggerLinux ==
    /\ ~busy
    /\ platform = "linux"
    /\ \E others \in SUBSET {"primary", "clipboard"} :
          Show(Resolved((IF running /\ latest # 0 THEN {"native"} ELSE {})
                        \cup others), turns + 1)
    /\ UNCHANGED resolving

\* The window in front is looked up when the old palette is hidden.
TriggerWindows ==
    /\ ~busy
    /\ platform = "windows"
    /\ HidePalette
    /\ ResolveAsync([resolver |-> resolver + 1, manual |-> generation + 1,
                     target |-> foreground', turn |-> turns + 1])

Trigger ==
    /\ Turn
    /\ HideBar
    /\ generation' = generation + 1
    /\ TriggerBusy \/ TriggerLinux \/ TriggerWindows
    /\ UNCHANGED <<platform, running, latest, automatic, detections, busy>>

\* Mutant: a request leaves the resolution under way alone.
LoadingHides ==
    /\ Turn
    /\ ~busy /\ busy' = TRUE
    /\ HideBar
    /\ HidePalette
    /\ UNCHANGED <<generation, timers, open, resolver, completion, query>>

\* loading() reaches Application: everything offered goes.
Loading ==
    /\ Turn
    /\ ~busy /\ busy' = TRUE
    /\ HideBar
    /\ HidePalette
    /\ generation' = generation + 1
    /\ ResolverCancel
    /\ open' = 0
    /\ UNCHANGED timers

RequestStarts ==
    /\ Loading
    /\ UNCHANGED <<platform, running, latest, automatic, detections>>

RequestEnds ==
    /\ busy
    /\ busy' = FALSE
    /\ UNCHANGED <<platform, overlay, palette, generation, resolving, foreground,
                   turns>>

\* runSelection() opens the composer for Reply and may refuse: no loading.
ChooseOnBar ==
    /\ bar # 0
    /\ \/ RequestStarts
       \/ /\ HideBar
          /\ UNCHANGED <<platform, running, latest, automatic, detections, palette,
                         busy, generation, resolving, foreground, turns>>

ChooseOnPalette ==
    /\ palette.shows \in {"native", "primary", "clipboard"}
    /\ \/ RequestStarts
       \/ /\ HidePalette
          /\ UNCHANGED <<platform, overlay, busy, generation, resolving, turns>>

ClosePalette ==
    /\ Showing
    /\ HidePalette
    /\ UNCHANGED <<platform, overlay, busy, generation, resolving, turns>>

\* More...: neither manualGeneration_ nor the resolver learns of it.
More ==
    /\ bar # 0
    /\ HideBar
    /\ IF busy THEN UNCHANGED <<palette, foreground>> ELSE Show("native", turns)
    /\ UNCHANGED <<platform, running, latest, automatic, detections, busy,
                   generation, resolving, turns>>

SwitchWindow ==
    /\ foreground' \in Windows \ {foreground}
    /\ UNCHANGED <<platform, overlay, palette, busy, generation, resolving, turns>>

-----------------------------------------------------------------------------
Next ==
    \/ MonitorStarts \/ MonitorStops \/ Detected \/ Cleared
    \/ SetAutomaticPopup \/ BarCloses
    \/ QueryAnswers \/ TimerFires \/ HelperGone
    \/ Trigger \/ RequestStarts \/ RequestEnds
    \/ ChooseOnBar \/ ChooseOnPalette \/ ClosePalette \/ More \/ SwitchWindow

Spec == Init /\ [][Next]_vars

\* The helper's two second timer and the event loop of the program.
FairSpec == Spec /\ WF_vars(QueryAnswers) /\ WF_vars(TimerFires)

-----------------------------------------------------------------------------
(***************************************************************************)
(* While an AI request is under way no selection is offered, on the bar or *)
(* in the palette, whatever is detected, resolved or triggered meanwhile.  *)
(***************************************************************************)
NothingOfferedWhileBusy ==
    busy => bar = 0 /\ palette.shows \in {"nothing", "message"}

(***************************************************************************)
(* The toolbar shows the monitor's latest selection, never one that has    *)
(* been cleared or replaced, while the monitor runs and is allowed to.     *)
(***************************************************************************)
BarIsLive == bar # 0 => bar = latest /\ running /\ automatic

(***************************************************************************)
(* The palette shows what its last trigger found: an answer that is late   *)
(* never opens it after a newer trigger or after an AI request began.      *)
(***************************************************************************)
PaletteOfLastTurn == Showing => palette.turn = turns

(***************************************************************************)
(* A trigger that asked the helper comes to an end: the palette opens, or  *)
(* something newer or a change of window took its place.                   *)
(***************************************************************************)
TriggerEnds == open # 0 ~> open = 0
=============================================================================
