---------------------------- MODULE OverlayProofs ----------------------------
(***************************************************************************)
(* Proofs about the toolbar and the palette of ManualTrigger, for any      *)
(* number of triggers, requests and selections, and about the placement of *)
(* the toolbar, for any rectangles.                                        *)
(***************************************************************************)
EXTENDS ManualTrigger, BarPlacement, SequenceTheorems, TLAPS

(***************************************************************************)
(* A functor carries the turn it was made in under two names: the number   *)
(* manualGeneration_ had then, and the turn itself.                        *)
(***************************************************************************)
Functors ==
    {f \in [resolver : Nat, manual : Nat, target : Windows, turn : Nat] :
        f.turn = f.manual}

ManualTypes ==
    /\ running \in BOOLEAN /\ automatic \in BOOLEAN /\ busy \in BOOLEAN
    /\ generation \in Nat /\ resolver \in Nat
    /\ foreground \in Windows
    /\ completion \in Functors
    /\ timers \in Seq(Functors)

\* manualGeneration_ advances exactly when a turn begins.
GenerationIsTurn == generation = turns

(***************************************************************************)
(* The inductive invariant.                                                *)
(***************************************************************************)
OverlayInv ==
    /\ ManualTypes
    /\ GenerationIsTurn
    /\ NothingOfferedWhileBusy
    /\ BarIsLive
    /\ PaletteOfLastTurn

(***************************************************************************)
(* The first functor is none, and every variable starts empty.             *)
(***************************************************************************)
LEMMA OverlayInitially == Init => OverlayInv
  <1> USE DEF Init
  <1>1. ASSUME Init PROVE ManualTypes
    <2>1. NoFunctor \in Functors
      BY <1>1 DEF NoFunctor, Functors, Windows
    <2>2. << >> \in Seq(Functors)
      OBVIOUS
    <2> QED
      BY <1>1, <2>1, <2>2 DEF ManualTypes
  <1>2. ASSUME Init PROVE GenerationIsTurn /\ NothingOfferedWhileBusy
                          /\ BarIsLive /\ PaletteOfLastTurn
    BY <1>2 DEF GenerationIsTurn, NothingOfferedWhileBusy, BarIsLive,
                PaletteOfLastTurn, Showing, Hidden
  <1> QED
    BY <1>1, <1>2 DEF OverlayInv

-----------------------------------------------------------------------------
(***************************************************************************)
(* What the parts of the actions do to the invariant's variables.          *)
(***************************************************************************)
\* Showing a window of this program may take the foreground, no other.
LEMMA ShowForeground ==
    ASSUME NEW content, NEW turn, foreground \in Windows, Show(content, turn)
    PROVE  /\ foreground' \in Windows
           /\ palette' = [shows |-> content, turn |-> turn]
  BY DEF Show, Windows

\* Hiding the palette gives the foreground to some window.
LEMMA HideForeground ==
    ASSUME foreground \in Windows, HidePalette
    PROVE  foreground' \in Windows /\ palette' = Hidden
  BY DEF HidePalette, AfterHiding

\* Cancelling the resolver drops its functor.
LEMMA CancelTypes ==
    ASSUME resolver \in Nat, completion \in Functors, ResolverCancel
    PROVE  resolver' \in Nat /\ completion' \in Functors
  <1>1. NoFunctor \in Functors
    BY DEF NoFunctor, Functors, Windows
  <1> QED
    BY <1>1 DEF ResolverCancel

\* The palette after a functor ran: unchanged, or of the current turn.
LEMMA FinishPalette ==
    ASSUME OverlayInv, NEW functor \in Functors, NEW readable,
           Finish(functor, readable)
    PROVE  /\ foreground' \in Windows
           /\ completion' \in Functors
           /\ \/ palette' = palette
              \/ ~busy /\ palette'.turn = turns
  <1>1. NoFunctor \in Functors
    BY DEF NoFunctor, Functors, Windows
  <1>2. foreground \in Windows /\ completion \in Functors /\ generation = turns
    BY DEF OverlayInv, ManualTypes, GenerationIsTurn
  <1>3. functor.turn = functor.manual
    BY DEF Functors
  <1>4. CASE functor.resolver # resolver
    BY <1>2, <1>4 DEF Finish
  <1>5. CASE functor.resolver = resolver /\ foreground = functor.target
    <2>1. completion' = NoFunctor /\ Completed(functor, readable)
      BY <1>5 DEF Finish
    <2>2. CASE functor.manual = generation /\ ~busy
      <3>1. Show(Resolved(readable), functor.turn)
        BY <2>1, <2>2 DEF Completed
      <3>2. foreground' \in Windows /\ palette'.turn = functor.turn
        BY <1>2, <3>1, ShowForeground
      <3> QED
        BY <1>1, <1>2, <1>3, <2>1, <2>2, <3>2
    <2>3. CASE ~(functor.manual = generation /\ ~busy)
      BY <1>1, <1>2, <2>1, <2>3 DEF Completed
    <2> QED
      BY <2>2, <2>3
  <1>6. CASE functor.resolver = resolver /\ foreground # functor.target
    BY <1>1, <1>2, <1>6 DEF Finish
  <1> QED
    BY <1>4, <1>5, <1>6
-----------------------------------------------------------------------------
(***************************************************************************)
(* One lemma per group of actions.                                         *)
(***************************************************************************)
\* The monitor and the toolbar's own buttons.
LEMMA ToolbarStep ==
    ASSUME OverlayInv,
           MonitorStarts \/ MonitorStops \/ Detected \/ Cleared
              \/ SetAutomaticPopup \/ BarCloses
    PROVE  OverlayInv'
  <1>1. ManualTypes /\ GenerationIsTurn /\ NothingOfferedWhileBusy /\ BarIsLive
        /\ PaletteOfLastTurn
    BY DEF OverlayInv
  <1>2. UNCHANGED <<palette, busy, generation, resolver, completion, timers,
                    foreground, turns>>
    BY DEF MonitorStarts, MonitorStops, Detected, Cleared, SetAutomaticPopup,
           BarCloses, resolving
  <1>3. running' \in BOOLEAN /\ automatic' \in BOOLEAN
    BY <1>1 DEF ManualTypes, MonitorStarts, MonitorStops, Detected, Cleared,
                SetAutomaticPopup, BarCloses
  <1>4. BarIsLive' /\ (busy => bar' = 0)
    <2>1. CASE MonitorStarts
      BY <1>1, <2>1 DEF MonitorStarts, BarIsLive, NothingOfferedWhileBusy
    <2>2. CASE MonitorStops
      BY <2>2 DEF MonitorStops, HideBar, BarIsLive
    <2>3. CASE Detected
      BY <2>3 DEF Detected, ShowSelectionToolbar, Showable, BarIsLive
    <2>4. CASE Cleared
      BY <2>4 DEF Cleared, HideBar, BarIsLive
    <2>5. CASE SetAutomaticPopup
      BY <1>1, <2>5 DEF SetAutomaticPopup, HideBar, BarIsLive,
                        NothingOfferedWhileBusy
    <2>6. CASE BarCloses
      BY <2>6 DEF BarCloses, HideBar, BarIsLive
    <2> QED
      BY <2>1, <2>2, <2>3, <2>4, <2>5, <2>6
  <1>5. ManualTypes'
    BY <1>1, <1>2, <1>3 DEF ManualTypes
  <1>6. GenerationIsTurn' /\ NothingOfferedWhileBusy' /\ PaletteOfLastTurn'
    BY <1>1, <1>2, <1>4 DEF GenerationIsTurn, NothingOfferedWhileBusy,
                            PaletteOfLastTurn, Showing
  <1> QED
    BY <1>4, <1>5, <1>6 DEF OverlayInv

\* A functor runs: from the helper's answer or from its timer.
LEMMA AnswerStep ==
    ASSUME OverlayInv, QueryAnswers \/ TimerFires
    PROVE  OverlayInv'
  <1>1. ManualTypes /\ GenerationIsTurn /\ NothingOfferedWhileBusy /\ BarIsLive
        /\ PaletteOfLastTurn
    BY DEF OverlayInv
  <1>2. UNCHANGED <<running, latest, automatic, bar, busy, generation, resolver,
                    turns>>
    BY DEF QueryAnswers, TimerFires, overlay
  <1>3. /\ foreground' \in Windows
        /\ completion' \in Functors
        /\ timers' \in Seq(Functors)
        /\ palette' = palette \/ (~busy /\ palette'.turn = turns)
    <2>1. CASE QueryAnswers
      <3>1. PICK readable : Finish(completion, readable)
        BY <2>1 DEF QueryAnswers
      <3>2. completion \in Functors /\ timers' \in Seq(Functors)
        BY <1>1, <2>1 DEF QueryAnswers, ManualTypes
      <3> QED
        BY <3>1, <3>2, FinishPalette
    <2>2. CASE TimerFires
      <3>1. PICK readable : Finish(Head(timers), readable)
        BY <2>2 DEF TimerFires
      <3>2. timers \in Seq(Functors) /\ timers # << >>
        BY <1>1, <2>2 DEF TimerFires, ManualTypes
      <3>3. Head(timers) \in Functors
        BY <3>2, HeadTailProperties
      <3>4. timers' \in Seq(Functors)
        BY <2>2, <3>2, HeadTailProperties DEF TimerFires
      <3> QED
        BY <3>1, <3>3, <3>4, FinishPalette
    <2> QED
      BY <2>1, <2>2
  <1>4. ManualTypes'
    BY <1>1, <1>2, <1>3 DEF ManualTypes
  <1>5. GenerationIsTurn' /\ BarIsLive'
    BY <1>1, <1>2 DEF GenerationIsTurn, BarIsLive
  <1>6. NothingOfferedWhileBusy'
    BY <1>1, <1>2, <1>3 DEF NothingOfferedWhileBusy
  <1>7. PaletteOfLastTurn'
    BY <1>1, <1>2, <1>3 DEF PaletteOfLastTurn, Showing
  <1> QED
    BY <1>4, <1>5, <1>6, <1>7 DEF OverlayInv

\* A trigger: the toolbar goes, and what the palette shows is of this turn.
LEMMA TriggerStep ==
    ASSUME OverlayInv, Trigger
    PROVE  OverlayInv'
  <1>1. ManualTypes /\ GenerationIsTurn /\ BarIsLive /\ NothingOfferedWhileBusy
    BY DEF OverlayInv
  <1>2. /\ UNCHANGED <<running, latest, automatic, busy>>
        /\ bar' = 0
        /\ generation' = generation + 1
        /\ turns' = turns + 1
    BY DEF Trigger, Turn, HideBar
  <1>3. /\ foreground' \in Windows
        /\ resolver' \in Nat
        /\ completion' \in Functors
        /\ timers' \in Seq(Functors)
        /\ palette' = Hidden \/ palette'.turn = turns + 1
        /\ busy => palette'.shows = "message"
    <2>1. CASE TriggerBusy
      <3>1. ResolverCancel /\ Show("message", turns + 1) /\ timers' = timers
        BY <2>1 DEF TriggerBusy
      <3>2. resolver' \in Nat /\ completion' \in Functors
        BY <1>1, <3>1, CancelTypes DEF ManualTypes
      <3>3. foreground' \in Windows
            /\ palette' = [shows |-> "message", turn |-> turns + 1]
        BY <1>1, <3>1, ShowForeground DEF ManualTypes
      <3> QED
        BY <1>1, <3>1, <3>2, <3>3 DEF ManualTypes
    <2>2. CASE TriggerLinux
      <3>1. PICK content : Show(content, turns + 1)
        BY <2>2 DEF TriggerLinux
      <3>2. UNCHANGED <<resolver, completion, timers>> /\ ~busy
        BY <2>2 DEF TriggerLinux, resolving
      <3>3. foreground' \in Windows
            /\ palette' = [shows |-> content, turn |-> turns + 1]
        BY <1>1, <3>1, ShowForeground DEF ManualTypes
      <3> QED
        BY <1>1, <3>2, <3>3 DEF ManualTypes
    <2>3. CASE TriggerWindows
      <3>1. foreground' \in Windows /\ palette' = Hidden /\ ~busy
        BY <1>1, <2>3, HideForeground DEF TriggerWindows, ManualTypes
      <3>2. PICK f \in Functors : ResolveAsync(f)
        <4>1. [resolver |-> resolver + 1, manual |-> generation + 1,
               target |-> foreground', turn |-> turns + 1] \in Functors
          BY <1>1, <3>1 DEF ManualTypes, GenerationIsTurn, Functors
        <4> QED
          BY <2>3, <4>1 DEF TriggerWindows
      <3>3. NoFunctor \in Functors
        BY DEF NoFunctor, Functors, Windows
      <3>4. resolver' \in Nat /\ completion' \in Functors
        BY <1>1, <3>2, <3>3 DEF ResolveAsync, ManualTypes
      <3>5. timers' = timers \/ timers' = Append(timers, f)
        BY <3>2 DEF ResolveAsync, Refused
      <3>6. timers' \in Seq(Functors)
        BY <1>1, <3>5, AppendProperties DEF ManualTypes
      <3> QED
        BY <3>1, <3>4, <3>6
    <2> QED
      BY <2>1, <2>2, <2>3 DEF Trigger
  <1>4. ManualTypes'
    BY <1>1, <1>2, <1>3 DEF ManualTypes
  <1>5. GenerationIsTurn'
    BY <1>1, <1>2 DEF GenerationIsTurn
  <1>6. BarIsLive' /\ NothingOfferedWhileBusy'
    BY <1>2, <1>3 DEF BarIsLive, NothingOfferedWhileBusy
  <1>7. PaletteOfLastTurn'
    BY <1>2, <1>3 DEF PaletteOfLastTurn, Showing
  <1> QED
    BY <1>4, <1>5, <1>6, <1>7 DEF OverlayInv

\* An AI request begins, from wherever: nothing is offered any more.
LEMMA RequestStep ==
    ASSUME OverlayInv, RequestStarts
    PROVE  OverlayInv'
  <1>1. ManualTypes /\ GenerationIsTurn
    BY DEF OverlayInv
  <1>2. /\ UNCHANGED <<running, latest, automatic, timers>>
        /\ busy' = TRUE
        /\ bar' = 0
        /\ generation' = generation + 1
        /\ turns' = turns + 1
        /\ HidePalette /\ ResolverCancel
    BY DEF RequestStarts, Loading, Turn, HideBar
  <1>3. foreground' \in Windows /\ palette' = Hidden
    BY <1>1, <1>2, HideForeground DEF ManualTypes
  <1>4. resolver' \in Nat /\ completion' \in Functors
    BY <1>1, <1>2, CancelTypes DEF ManualTypes
  <1>5. generation' \in Nat /\ timers' \in Seq(Functors)
    BY <1>1, <1>2 DEF ManualTypes
  <1>6. running' \in BOOLEAN /\ automatic' \in BOOLEAN /\ busy' \in BOOLEAN
    BY <1>1, <1>2, Zenon DEF ManualTypes
  <1>7. GenerationIsTurn'
    BY <1>1, <1>2 DEF GenerationIsTurn
  <1>8. BarIsLive' /\ NothingOfferedWhileBusy' /\ PaletteOfLastTurn'
    BY <1>2, <1>3 DEF BarIsLive, NothingOfferedWhileBusy, PaletteOfLastTurn,
                      Showing, Hidden
  <1> QED
    BY <1>3, <1>4, <1>5, <1>6, <1>7, <1>8 DEF OverlayInv, ManualTypes

\* The toolbar and the palette close, the request ends, windows change.
LEMMA ClosingStep ==
    ASSUME OverlayInv,
           \/ RequestEnds \/ HelperGone \/ ClosePalette \/ SwitchWindow
           \/ ChooseOnBar /\ ~RequestStarts
           \/ ChooseOnPalette /\ ~RequestStarts
    PROVE  OverlayInv'
  <1>1. ManualTypes /\ GenerationIsTurn /\ NothingOfferedWhileBusy /\ BarIsLive
        /\ PaletteOfLastTurn
    BY DEF OverlayInv
  <1>2. UNCHANGED <<running, latest, automatic, generation, resolver, completion,
                    timers, turns>>
    BY DEF RequestEnds, HelperGone, ClosePalette, SwitchWindow, ChooseOnBar,
           ChooseOnPalette, overlay, resolving
  <1>3. (bar' = bar \/ bar' = 0) /\ (busy' => busy) /\ busy' \in BOOLEAN
    <2>1. bar' = bar \/ bar' = 0
      BY DEF RequestEnds, HelperGone, ClosePalette, SwitchWindow, ChooseOnBar,
             ChooseOnPalette, overlay, HideBar
    <2>2. CASE RequestEnds
      BY <2>1, <2>2 DEF RequestEnds
    <2>3. CASE ~RequestEnds
      <3>1. UNCHANGED busy
        BY <2>3 DEF HelperGone, ClosePalette, SwitchWindow, ChooseOnBar,
                    ChooseOnPalette
      <3> QED
        BY <1>1, <2>1, <3>1 DEF ManualTypes
    <2> QED
      BY <2>2, <2>3
  <1>4. foreground' \in Windows /\ (palette' = palette \/ palette' = Hidden)
    <2>1. CASE ClosePalette \/ (ChooseOnPalette /\ ~RequestStarts)
      <3>1. HidePalette
        BY <2>1 DEF ClosePalette, ChooseOnPalette
      <3> QED
        BY <1>1, <3>1, HideForeground DEF ManualTypes
    <2>2. CASE RequestEnds \/ HelperGone \/ (ChooseOnBar /\ ~RequestStarts)
      BY <1>1, <2>2 DEF RequestEnds, HelperGone, ChooseOnBar, ManualTypes
    <2>3. CASE SwitchWindow
      BY <2>3 DEF SwitchWindow
    <2> QED
      BY <2>1, <2>2, <2>3
  <1>5. ManualTypes'
    BY <1>1, <1>2, <1>3, <1>4 DEF ManualTypes
  <1>6. GenerationIsTurn' /\ BarIsLive'
    BY <1>1, <1>2, <1>3 DEF GenerationIsTurn, BarIsLive
  <1>7. NothingOfferedWhileBusy'
    BY <1>1, <1>3, <1>4 DEF NothingOfferedWhileBusy, Hidden
  <1>8. PaletteOfLastTurn'
    BY <1>1, <1>2, <1>4 DEF PaletteOfLastTurn, Showing
  <1> QED
    BY <1>5, <1>6, <1>7, <1>8 DEF OverlayInv

\* More... shows the bar's selection in the palette, in the same turn.
LEMMA MoreStep ==
    ASSUME OverlayInv, More
    PROVE  OverlayInv'
  <1>1. ManualTypes /\ GenerationIsTurn /\ NothingOfferedWhileBusy /\ BarIsLive
        /\ PaletteOfLastTurn
    BY DEF OverlayInv
  <1>2. /\ UNCHANGED <<running, latest, automatic, busy, generation, resolver,
                       completion, timers, turns>>
        /\ bar' = 0
    BY DEF More, HideBar, resolving
  <1>3. /\ foreground' \in Windows
        /\ palette' = palette \/ (~busy /\ palette'.turn = turns)
    <2>1. CASE busy
      BY <1>1, <2>1 DEF More, ManualTypes
    <2>2. CASE ~busy
      <3>1. Show("native", turns)
        BY <2>2 DEF More
      <3> QED
        BY <1>1, <2>2, <3>1, ShowForeground DEF ManualTypes
    <2> QED
      BY <2>1, <2>2
  <1>4. ManualTypes'
    BY <1>1, <1>2, <1>3 DEF ManualTypes
  <1>5. GenerationIsTurn' /\ BarIsLive' /\ NothingOfferedWhileBusy'
    BY <1>1, <1>2, <1>3 DEF GenerationIsTurn, BarIsLive, NothingOfferedWhileBusy
  <1>6. PaletteOfLastTurn'
    BY <1>1, <1>2, <1>3 DEF PaletteOfLastTurn, Showing
  <1> QED
    BY <1>4, <1>5, <1>6 DEF OverlayInv

-----------------------------------------------------------------------------
(***************************************************************************)
(* Every step keeps the inductive invariant.                               *)
(***************************************************************************)
THEOREM OverlayInvariant == Spec => []OverlayInv
  <1>1. Init => OverlayInv
    BY OverlayInitially
  <1>2. OverlayInv /\ [Next]_vars => OverlayInv'
    <2> SUFFICES ASSUME OverlayInv, [Next]_vars PROVE OverlayInv'
      OBVIOUS
    <2>1. CASE MonitorStarts \/ MonitorStops \/ Detected \/ Cleared
                 \/ SetAutomaticPopup \/ BarCloses
      BY <2>1, ToolbarStep
    <2>2. CASE QueryAnswers \/ TimerFires
      BY <2>2, AnswerStep
    <2>3. CASE Trigger
      BY <2>3, TriggerStep
    <2>4. CASE RequestStarts
      BY <2>4, RequestStep
    <2>5. CASE \/ RequestEnds \/ HelperGone \/ ClosePalette \/ SwitchWindow
               \/ ChooseOnBar /\ ~RequestStarts
               \/ ChooseOnPalette /\ ~RequestStarts
      BY <2>5, ClosingStep
    <2>6. CASE More
      BY <2>6, MoreStep
    <2>7. CASE UNCHANGED vars
      BY <2>7 DEF vars, overlay, resolving, OverlayInv, ManualTypes,
                  GenerationIsTurn, NothingOfferedWhileBusy, BarIsLive,
                  PaletteOfLastTurn, Showing
    <2> QED
      BY <2>1, <2>2, <2>3, <2>4, <2>5, <2>6, <2>7 DEF Next
  <1> QED
    BY <1>1, <1>2, PTL DEF Spec

(***************************************************************************)
(* While an AI request is under way, toolbar and palette offer nothing:    *)
(* showSelectionToolbar(), the resolver's functor and More... all ask      *)
(* controller_.busy(), and loading() hides what is there.                  *)
(***************************************************************************)
THEOREM OverlayQuietWhileBusy == Spec => []NothingOfferedWhileBusy
  <1>1. OverlayInv => NothingOfferedWhileBusy
    BY DEF OverlayInv
  <1> QED
    BY <1>1, OverlayInvariant, PTL

(***************************************************************************)
(* The toolbar offers the monitor's latest selection or none.              *)
(***************************************************************************)
THEOREM ToolbarIsLive == Spec => []BarIsLive
  <1>1. OverlayInv => BarIsLive
    BY DEF OverlayInv
  <1> QED
    BY <1>1, OverlayInvariant, PTL

(***************************************************************************)
(* The palette shows what the last trigger found, however late earlier     *)
(* functors run.                                                           *)
(***************************************************************************)
THEOREM PaletteIsOfLastTurn == Spec => []PaletteOfLastTurn
  <1>1. OverlayInv => PaletteOfLastTurn
    BY DEF OverlayInv
  <1> QED
    BY <1>1, OverlayInvariant, PTL

-----------------------------------------------------------------------------
(***************************************************************************)
(* placeActionBar(): for any selection on or off the screen, a toolbar     *)
(* that fits into the usable area lies within it, and covers no line of    *)
(* the selection if there is room above or below it.                       *)
(***************************************************************************)
THEOREM PlacedWithinScreen ==
    ASSUME NEW anchor \in Rects, NEW size \in Sizes, NEW available \in Rects,
           Placeable(anchor, size, available)
    PROVE  LET place == Placed(anchor, size, available)
           IN  /\ Within(place, available)
               /\ Room(anchor, size, available) => Clear(place, anchor)
  <1> DEFINE place == Placed(anchor, size, available)
  <1>1. WantedX(anchor, size) \in Int /\ WantedY(anchor, size, available) \in Int
    BY DEF WantedX, WantedY, Above, Below, Half, Gap, Rects, Sizes
  <1>2. /\ available.x <= place.x
        /\ place.x + place.width <= available.x + available.width
    BY <1>1 DEF Placed, Placeable, Clamp, Rects, Sizes
  <1>3. /\ available.y <= place.y
        /\ place.y + place.height <= available.y + available.height
    BY <1>1 DEF Placed, Placeable, Clamp, Rects, Sizes
  <1>4. ASSUME Room(anchor, size, available) PROVE Clear(place, anchor)
    BY <1>4 DEF Room, Clear, Placed, Placeable, Valid, Clamp, WantedY, Above,
                Below, Gap, Rects, Sizes
  <1> QED
    BY <1>2, <1>3, <1>4 DEF Within
=============================================================================
