------------------------- MODULE WindowsMonitorProofs ------------------------
(***************************************************************************)
(* Proofs about WindowsMonitor, for any number of windows, runs, gestures  *)
(* and helper processes.  The invariant has three parts: how many helpers  *)
(* there are; that at most one of button, timer, question and selection    *)
(* carries the last gesture; and what the queued foreground events still   *)
(* have to tell the monitor.                                               *)
(***************************************************************************)
EXTENDS WindowsMonitor, SequenceTheorems, TLAPS

SwitchEvents == [window : Windows, epoch : Nat]
ClickEvents  == [down : BOOLEAN, window : Windows, epoch : Nat]

Mouses == [pressed : BOOLEAN, window : Windows \cup {None}, double : BOOLEAN,
           lastClick : Windows \cup {None}, epoch : Nat]

MonitorTypes ==
    /\ running \in BOOLEAN /\ debounce \in BOOLEAN
    /\ generation \in Nat /\ hookEpoch \in Nat /\ events \in Nat
    /\ mouse \in Mouses
    /\ foreground \in Windows
    /\ switches \in Seq(SwitchEvents)
    /\ clicks \in Seq(ClickEvents)

HelperInv == retiring \in Nat /\ HelpersBounded

(***************************************************************************)
(* Button, timer, question and selection follow each other and all belong  *)
(* to the last gesture of this run.                                        *)
(***************************************************************************)
NothingAsked == asked = NoQuestion /\ latest = NoLatest

StoppedInv == ~running => ~mouse.pressed /\ ~debounce /\ NothingAsked

ButtonInv == mouse.pressed => mouse.epoch = hookEpoch /\ ~debounce /\ NothingAsked

DebounceInv == debounce => mouse.epoch = hookEpoch /\ NothingAsked

AskedInv ==
    asked # NoQuestion =>
        /\ latest = NoLatest
        /\ asked.window = target
        /\ asked.event = events
        /\ asked.epoch = hookEpoch

GestureInv ==
    StoppedInv /\ ButtonInv /\ DebounceInv /\ AskedInv /\ LatestOfGesture

(***************************************************************************)
(* The queued foreground events: those of this run come last, and the last *)
(* of them, or lastForeground_ if there is none, is the window in front.   *)
(***************************************************************************)
EpochsOrdered ==
    /\ \A i \in 1..Len(switches) : switches[i].epoch <= hookEpoch
    /\ \A i, j \in 1..Len(switches) : i <= j => switches[i].epoch <= switches[j].epoch

LastIsCurrent == switches # << >> /\ switches[Len(switches)].epoch = hookEpoch

ForegroundKnown ==
    running => IF LastIsCurrent THEN switches[Len(switches)].window = foreground
               ELSE lastForeground = foreground

\* A selection whose window is not lastForeground_ is about to be dropped.
ChangeComes ==
    \E i \in 1..Len(switches) :
        switches[i].epoch = hookEpoch /\ switches[i].window # lastForeground

KeptOrDropped == latest # NoLatest => lastForeground = latest.window \/ ChangeComes

ForegroundInv == EpochsOrdered /\ ForegroundKnown /\ KeptOrDropped

(***************************************************************************)
(* The inductive invariant.                                                *)
(***************************************************************************)
WindowsInv == MonitorTypes /\ HelperInv /\ GestureInv /\ ForegroundInv

-----------------------------------------------------------------------------(***************************************************************************)
(* Shared steps.                                                           *)
(***************************************************************************)
\* Killing the helper moves it to those that are still ending.
LEMMA CancelHelpers ==
    ASSUME HelperInv, QueryCancel
    PROVE  HelperInv'
  <1>1. retiring \in Nat /\ retiring' = Retired /\ asked' = NoQuestion
    BY DEF HelperInv, QueryCancel
  <1>2. Helpers' = Helpers
    BY <1>1 DEF Helpers, Retired, QueryBusy
  <1>3. HelpersBounded'
    BY <1>2 DEF HelperInv, HelpersBounded
  <1>4. retiring' \in Nat
    BY <1>1 DEF Retired
  <1> QED
    BY <1>3, <1>4 DEF HelperInv

\* After invalidate() only the button may carry a gesture.
LEMMA InvalidateGesture ==
    ASSUME Invalidate, QueryCancel,
           mouse'.pressed => mouse'.epoch = hookEpoch' /\ running'
    PROVE  GestureInv' /\ latest' = NoLatest /\ debounce' = FALSE
                       /\ generation' = generation + 1
  <1>1. /\ latest' = NoLatest /\ asked' = NoQuestion /\ debounce' = FALSE
        /\ generation' = generation + 1
    BY DEF Invalidate, QueryCancel
  <1>2. NothingAsked' /\ LatestOfGesture'
    BY <1>1 DEF NothingAsked, LatestOfGesture
  <1> QED
    BY <1>1, <1>2 DEF GestureInv, StoppedInv, ButtonInv, DebounceInv, AskedInv

\* What the gesture invariant depends on.
LEMMA SameGesture ==
    ASSUME GestureInv,
           UNCHANGED <<running, mouse, debounce, asked, latest, hookEpoch, target,
                       events, expiry>>
    PROVE  GestureInv'
  BY DEF GestureInv, StoppedInv, ButtonInv, DebounceInv, AskedInv, NothingAsked,
         LatestOfGesture

\* What the foreground invariant depends on.
LEMMA SameForeground ==
    ASSUME ForegroundInv,
           UNCHANGED <<running, hookEpoch, switches, foreground, lastForeground>>,
           latest' = latest \/ latest' = NoLatest
    PROVE  ForegroundInv'
  <1>1. EpochsOrdered'
    BY DEF ForegroundInv, EpochsOrdered
  <1>2. ForegroundKnown'
    BY DEF ForegroundInv, ForegroundKnown, LastIsCurrent
  <1>3. KeptOrDropped'
    BY DEF ForegroundInv, KeptOrDropped, ChangeComes
  <1> QED
    BY <1>1, <1>2, <1>3 DEF ForegroundInv

\* If nothing was posted in this run, nothing current is queued.
LEMMA OldEpochs ==
    ASSUME MonitorTypes, EpochsOrdered, hookEpoch' = hookEpoch + 1,
           UNCHANGED switches
    PROVE  EpochsOrdered' /\ ~LastIsCurrent'
  <1>1. Len(switches) \in Nat /\ \A i \in 1..Len(switches) : switches[i].epoch \in Nat
    <2>1. switches \in Seq(SwitchEvents)
      BY DEF MonitorTypes
    <2>2. Len(switches) \in Nat
      BY <2>1, LenProperties
    <2>3. \A i \in 1..Len(switches) : switches[i] \in SwitchEvents
      BY <2>1, ElementOfSeq
    <2> QED
      BY <2>2, <2>3 DEF SwitchEvents
  <1>2. hookEpoch \in Nat
    BY DEF MonitorTypes
  <1>3. EpochsOrdered'
    BY <1>1, <1>2 DEF EpochsOrdered
  <1>4. switches # << >> => Len(switches) \in 1..Len(switches)
    BY EmptySeq DEF MonitorTypes
  <1>5. ~LastIsCurrent'
    BY <1>1, <1>2, <1>4 DEF EpochsOrdered, LastIsCurrent
  <1> QED
    BY <1>3, <1>5

-----------------------------------------------------------------------------
(***************************************************************************)
(* Initially nothing was asked, posted or kept.                            *)
(***************************************************************************)
LEMMA WindowsInitially == Init => WindowsInv
  <1> SUFFICES ASSUME Init PROVE WindowsInv
    OBVIOUS
  <1>1. MonitorTypes
    <2>1. ButtonUp \in Mouses
      BY DEF ButtonUp, Mouses
    <2>2. running \in BOOLEAN /\ debounce \in BOOLEAN
      BY DEF Init
    <2>3. switches \in Seq(SwitchEvents) /\ clicks \in Seq(ClickEvents)
      BY DEF Init
    <2>4. generation \in Nat /\ hookEpoch \in Nat /\ events \in Nat
      BY DEF Init
    <2> QED
      BY <2>1, <2>2, <2>3, <2>4 DEF Init, MonitorTypes
  <1>2. HelperInv
    BY WindowsAssumption DEF Init, QueryInit, HelperInv, HelpersBounded, Helpers,
                             QueryBusy
  <1>3. GestureInv
    BY DEF Init, QueryInit, ButtonUp, GestureInv, StoppedInv, ButtonInv, DebounceInv,
           AskedInv, NothingAsked, LatestOfGesture
  <1>4. ForegroundInv
    BY DEF Init, ForegroundInv, EpochsOrdered, ForegroundKnown, KeptOrDropped
  <1> QED
    BY <1>1, <1>2, <1>3, <1>4 DEF WindowsInv
-----------------------------------------------------------------------------
(***************************************************************************)
(* The queue of foreground events.                                         *)
(***************************************************************************)
LEMMA EventFacts ==
    ASSUME MonitorTypes
    PROVE  /\ Len(switches) \in Nat
           /\ \A i \in 1..Len(switches) :
                 switches[i].epoch \in Nat /\ switches[i].window \in Windows
           /\ switches # << >> => Len(switches) > 0 /\ Head(switches) = switches[1]
  <1>1. switches \in Seq(SwitchEvents)
    BY DEF MonitorTypes
  <1>2. Len(switches) \in Nat
    BY <1>1, LenProperties
  <1>3. \A i \in 1..Len(switches) : switches[i] \in SwitchEvents
    BY <1>1, ElementOfSeq
  <1>4. switches # << >> => Len(switches) > 0 /\ Head(switches) = switches[1]
    BY <1>1, EmptySeq
  <1> QED
    BY <1>2, <1>3, <1>4 DEF SwitchEvents

LEMMA TailFacts ==
    ASSUME MonitorTypes, switches # << >>, switches' = Tail(switches)
    PROVE  /\ switches' \in Seq(SwitchEvents)
           /\ Len(switches') = Len(switches) - 1
           /\ \A i \in 1..Len(switches') : switches'[i] = switches[i + 1]
           /\ switches' # << >> => Len(switches) > 1
                  /\ switches'[Len(switches')] = switches[Len(switches)]
  <1>1. switches \in Seq(SwitchEvents)
    BY DEF MonitorTypes
  <1>2. /\ switches' \in Seq(SwitchEvents)
        /\ Len(switches') = Len(switches) - 1
        /\ \A i \in 1..Len(switches') : switches'[i] = switches[i + 1]
    BY <1>1, HeadTailProperties
  <1>3. Len(switches) \in Nat
    BY <1>1, LenProperties
  <1>4. ASSUME switches' # << >>
        PROVE  Len(switches) > 1 /\ switches'[Len(switches')] = switches[Len(switches)]
    <2>1. Len(switches') \in Nat \ {0}
      BY <1>2, <1>4, EmptySeq
    <2>2. Len(switches') \in 1..Len(switches') /\ Len(switches') + 1 = Len(switches)
      BY <1>2, <1>3, <2>1
    <2> QED
      BY <1>2, <1>3, <2>1, <2>2
  <1> QED
    BY <1>2, <1>4

\* The head of the queue is taken, and heeded if it is of this run.
LEMMA TailKnown ==
    ASSUME MonitorTypes, EpochsOrdered, ForegroundKnown,
           switches # << >>, switches' = Tail(switches),
           UNCHANGED <<running, hookEpoch, foreground>>,
           lastForeground' = IF Handles(Head(switches)) THEN Head(switches).window
                             ELSE lastForeground
    PROVE  EpochsOrdered' /\ ForegroundKnown'
  <1>1. /\ Len(switches) \in Nat /\ Len(switches) > 0
        /\ Head(switches) = switches[1]
        /\ \A i \in 1..Len(switches) : switches[i].epoch \in Nat
    BY EventFacts
  <1>2. /\ Len(switches') = Len(switches) - 1
        /\ \A i \in 1..Len(switches') : switches'[i] = switches[i + 1]
        /\ switches' # << >> => Len(switches) > 1
               /\ switches'[Len(switches')] = switches[Len(switches)]
        /\ switches' \in Seq(SwitchEvents)
    BY TailFacts
  <1>3. hookEpoch \in Nat
    BY DEF MonitorTypes
  <1>4. EpochsOrdered'
    <2>1. \A i \in 1..Len(switches') : i + 1 \in 1..Len(switches)
      BY <1>1, <1>2
    <2>2. \A i \in 1..Len(switches') : switches'[i].epoch <= hookEpoch'
      BY <1>2, <2>1 DEF EpochsOrdered
    <2>3. ASSUME NEW i \in 1..Len(switches'), NEW j \in 1..Len(switches'), i <= j
          PROVE  switches'[i].epoch <= switches'[j].epoch
      <3>1. i + 1 \in 1..Len(switches) /\ j + 1 \in 1..Len(switches) /\ i + 1 <= j + 1
        BY <2>1, <2>3
      <3>2. switches[i + 1].epoch <= switches[j + 1].epoch
        BY <3>1 DEF EpochsOrdered
      <3> QED
        BY <1>2, <3>2
    <2> QED
      BY <2>2, <2>3 DEF EpochsOrdered
  <1>5. ForegroundKnown'
    <2> SUFFICES ASSUME running PROVE ForegroundKnown'
      BY DEF ForegroundKnown
    <2>1. CASE switches' # << >>
      <3>1. LastIsCurrent' <=> LastIsCurrent
        BY <1>2, <2>1 DEF LastIsCurrent
      <3>2. CASE LastIsCurrent
        BY <1>2, <2>1, <3>1, <3>2 DEF ForegroundKnown
      <3>3. CASE ~LastIsCurrent
        <4>1. 1 \in 1..Len(switches) /\ Len(switches) \in 1..Len(switches)
              /\ 1 <= Len(switches)
          BY <1>1
        <4>2. switches[1].epoch <= switches[Len(switches)].epoch
              /\ switches[Len(switches)].epoch <= hookEpoch
              /\ switches[Len(switches)].epoch # hookEpoch
          BY <3>3, <4>1 DEF EpochsOrdered, LastIsCurrent
        <4>3. ~Handles(Head(switches))
          BY <1>1, <1>3, <4>1, <4>2 DEF Handles
        <4> QED
          BY <3>1, <3>3, <4>3 DEF ForegroundKnown
      <3> QED
        BY <3>2, <3>3
    <2>2. CASE switches' = << >>
      <3>1. Len(switches') = 0
        BY <2>2, EmptySeq
      <3>2. Len(switches) = 1
        BY <1>1, <1>2, <3>1
      <3>3. ~LastIsCurrent'
        BY <2>2 DEF LastIsCurrent
      <3>4. LastIsCurrent <=> Handles(Head(switches))
        BY <1>1, <3>2 DEF LastIsCurrent, Handles
      <3>5. lastForeground' = foreground
        BY <1>1, <3>2, <3>4 DEF ForegroundKnown
      <3> QED
        BY <3>3, <3>5 DEF ForegroundKnown
    <2> QED
      BY <2>1, <2>2
  <1> QED
    BY <1>4, <1>5

\* An event that changes nothing leaves the change to come in the queue.
LEMMA TailKept ==
    ASSUME MonitorTypes, KeptOrDropped, LatestOfGesture,
           switches # << >>, switches' = Tail(switches),
           UNCHANGED <<hookEpoch, lastForeground, latest>>,
           ~(Handles(Head(switches)) /\ Changed(Head(switches).window))
    PROVE  KeptOrDropped'
  <1> SUFFICES ASSUME latest # NoLatest, lastForeground # latest.window
               PROVE  ChangeComes'
    BY DEF KeptOrDropped
  <1>1. /\ Len(switches) \in Nat
        /\ Head(switches) = switches[1]
    BY EventFacts
  <1>2. /\ Len(switches') = Len(switches) - 1
        /\ \A i \in 1..Len(switches') : switches'[i] = switches[i + 1]
    BY TailFacts
  <1>3. PICK k \in 1..Len(switches) : switches[k].epoch = hookEpoch
                                      /\ switches[k].window # lastForeground
    BY DEF KeptOrDropped, ChangeComes
  <1>4. k # 1
    BY <1>1, <1>3 DEF Handles, Changed, LatestOfGesture
  <1>5. k - 1 \in 1..Len(switches') /\ (k - 1) + 1 = k
    BY <1>1, <1>2, <1>3, <1>4
  <1>6. switches'[k - 1] = switches[k]
    BY <1>2, <1>5
  <1> QED
    BY <1>3, <1>5, <1>6 DEF ChangeComes

\* The hook posts the new window behind all that is queued.
LEMMA PostKeeps ==
    ASSUME MonitorTypes, ForegroundInv, running, NEW window \in Windows,
           foreground' = window,
           switches' = Append(switches, [window |-> window, epoch |-> hookEpoch]),
           UNCHANGED <<running, hookEpoch, lastForeground, latest>>
    PROVE  ForegroundInv' /\ switches' \in Seq(SwitchEvents)
  <1> DEFINE event == [window |-> window, epoch |-> hookEpoch]
  <1>1. switches \in Seq(SwitchEvents) /\ event \in SwitchEvents
        /\ hookEpoch \in Nat
    BY DEF MonitorTypes, SwitchEvents
  <1>2. /\ switches' \in Seq(SwitchEvents) /\ switches' # << >>
        /\ Len(switches') = Len(switches) + 1
        /\ \A i \in 1..Len(switches) : switches'[i] = switches[i]
        /\ switches'[Len(switches) + 1] = event
    BY <1>1, AppendProperties
  <1>3. Len(switches) \in Nat
        /\ \A i \in 1..Len(switches) : switches[i].epoch \in Nat
    BY EventFacts
  <1>4. \A i \in 1..Len(switches') :
            i \in 1..Len(switches) \/ i = Len(switches) + 1
    BY <1>2, <1>3
  <1>5. EpochsOrdered'
    <2>1. \A i \in 1..Len(switches') : switches'[i].epoch <= hookEpoch
      BY <1>1, <1>2, <1>4 DEF ForegroundInv, EpochsOrdered
    <2>2. ASSUME NEW i \in 1..Len(switches'), NEW j \in 1..Len(switches'), i <= j
          PROVE  switches'[i].epoch <= switches'[j].epoch
      <3>1. CASE j = Len(switches) + 1
        BY <1>2, <2>1, <3>1
      <3>2. CASE j \in 1..Len(switches)
        <4>1. i \in 1..Len(switches)
          BY <1>3, <1>4, <2>2, <3>2
        <4> QED
          BY <1>2, <2>2, <3>2, <4>1 DEF ForegroundInv, EpochsOrdered
      <3> QED
        BY <1>4, <3>1, <3>2
    <2> QED
      BY <2>1, <2>2 DEF EpochsOrdered
  <1>6. ForegroundKnown'
    BY <1>2 DEF ForegroundKnown, LastIsCurrent
  <1>7. KeptOrDropped'
    <2>1. ChangeComes => ChangeComes'
      BY <1>2, <1>3 DEF ChangeComes
    <2> QED
      BY <2>1 DEF ForegroundInv, KeptOrDropped
  <1> QED
    BY <1>2, <1>5, <1>6, <1>7 DEF ForegroundInv
-----------------------------------------------------------------------------
(***************************************************************************)
(* The actions.                                                            *)
(***************************************************************************)
LEMMA StartStep ==
    ASSUME WindowsInv, Start
    PROVE  WindowsInv'
  <1>1. MonitorTypes /\ HelperInv /\ GestureInv /\ ForegroundInv
    BY DEF WindowsInv
  <1>2. /\ ~running /\ running' = TRUE
        /\ hookEpoch' = hookEpoch + 1 /\ generation' = generation + 1
        /\ lastForeground' = foreground
        /\ UNCHANGED <<target, mouse, events, debounce, latest, asked, retiring,
                       foreground, clicks, switches>>
    BY DEF Start, query
  <1>3. MonitorTypes'
    <2>1. generation' \in Nat /\ hookEpoch' \in Nat /\ events' \in Nat
      BY <1>1, <1>2 DEF MonitorTypes
    <2>2. running' \in BOOLEAN /\ debounce' \in BOOLEAN
      BY <1>1, <1>2 DEF MonitorTypes
    <2> QED
      BY <1>1, <1>2, <2>1, <2>2 DEF MonitorTypes
  <1>4. HelperInv'
    BY <1>1, <1>2 DEF HelperInv, HelpersBounded, Helpers, QueryBusy
  <1>5. ~mouse.pressed /\ ~debounce /\ asked = NoQuestion /\ latest = NoLatest
    BY <1>1, <1>2 DEF GestureInv, StoppedInv, NothingAsked
  <1>6. GestureInv'
    BY <1>2, <1>5 DEF GestureInv, StoppedInv, ButtonInv, DebounceInv, AskedInv,
                      LatestOfGesture
  <1>7. EpochsOrdered' /\ ~LastIsCurrent'
    BY <1>1, <1>2, OldEpochs DEF ForegroundInv
  <1>8. ForegroundKnown' /\ KeptOrDropped'
    BY <1>2, <1>5, <1>7 DEF ForegroundKnown, KeptOrDropped
  <1> QED
    BY <1>3, <1>4, <1>6, <1>7, <1>8 DEF WindowsInv, ForegroundInv

LEMMA StopStep ==
    ASSUME WindowsInv, Stop
    PROVE  WindowsInv'
  <1>1. MonitorTypes /\ HelperInv /\ GestureInv /\ ForegroundInv
    BY DEF WindowsInv
  <1>2. /\ running' = FALSE
        /\ hookEpoch' = hookEpoch + 1
        /\ mouse' = [ButtonUp EXCEPT !.double = mouse.double]
        /\ Invalidate /\ QueryCancel
        /\ UNCHANGED <<events, foreground, clicks, switches>>
    BY DEF Stop, world
  <1>3. mouse' \in Mouses /\ mouse'.pressed = FALSE
    <2>1. ButtonUp \in Mouses /\ ButtonUp.pressed = FALSE /\ mouse.double \in BOOLEAN
      BY <1>1 DEF ButtonUp, Mouses, MonitorTypes
    <2> QED
      BY <1>2, <2>1 DEF Mouses
  <1>4. GestureInv' /\ latest' = NoLatest /\ debounce' = FALSE
                   /\ generation' = generation + 1
    BY <1>2, <1>3, InvalidateGesture
  <1>5. MonitorTypes'
    <2>1. generation' \in Nat /\ hookEpoch' \in Nat
      BY <1>1, <1>2, <1>4 DEF MonitorTypes
    <2>2. running' \in BOOLEAN /\ debounce' \in BOOLEAN
      BY <1>2, <1>4
    <2> QED
      BY <1>1, <1>2, <1>3, <2>1, <2>2 DEF MonitorTypes
  <1>6. HelperInv'
    BY <1>1, <1>2, CancelHelpers
  <1>7. EpochsOrdered'
    BY <1>1, <1>2, OldEpochs DEF ForegroundInv
  <1>8. ForegroundKnown' /\ KeptOrDropped'
    BY <1>2, <1>4 DEF ForegroundKnown, KeptOrDropped
  <1> QED
    BY <1>4, <1>5, <1>6, <1>7, <1>8 DEF WindowsInv, ForegroundInv

LEMMA ExpireStep ==
    ASSUME WindowsInv, Expire
    PROVE  WindowsInv'
  <1>1. MonitorTypes /\ HelperInv /\ GestureInv /\ ForegroundInv
    BY DEF WindowsInv
  <1>2. /\ Invalidate /\ QueryCancel
        /\ UNCHANGED <<running, hookEpoch, lastForeground, mouse, events,
                       foreground, clicks, switches>>
    BY DEF Expire, world
  <1>3. mouse'.pressed => mouse'.epoch = hookEpoch' /\ running'
    BY <1>1, <1>2 DEF GestureInv, StoppedInv, ButtonInv
  <1>4. GestureInv' /\ latest' = NoLatest /\ debounce' = FALSE
                   /\ generation' = generation + 1
    BY <1>2, <1>3, InvalidateGesture
  <1>5. MonitorTypes'
    <2>1. generation' \in Nat
      BY <1>1, <1>4 DEF MonitorTypes
    <2>2. debounce' \in BOOLEAN
      BY <1>4
    <2> QED
      BY <1>1, <1>2, <2>1, <2>2 DEF MonitorTypes
  <1>6. HelperInv'
    BY <1>1, <1>2, CancelHelpers
  <1>7. ForegroundInv'
    BY <1>1, <1>2, <1>4, SameForeground
  <1> QED
    BY <1>4, <1>5, <1>6, <1>7 DEF WindowsInv

LEMMA HookStep ==
    ASSUME WindowsInv, Click \/ SwitchWindow \/ HelperGone
    PROVE  WindowsInv'
  <1>1. MonitorTypes /\ HelperInv /\ GestureInv /\ ForegroundInv
    BY DEF WindowsInv
  <1>2. UNCHANGED <<monitor, asked>>
    BY DEF Click, SwitchWindow, HelperGone, Reap, query
  <1>3. HelperInv'
    <2>1. CASE Click \/ SwitchWindow
      BY <1>1, <2>1 DEF Click, SwitchWindow, query, HelperInv, HelpersBounded,
                        Helpers, QueryBusy
    <2>2. CASE HelperGone
      <3>1. retiring \in Nat /\ retiring > 0 /\ retiring' = retiring - 1
            /\ asked' = asked
        BY <1>1, <2>2 DEF HelperGone, Reap, HelperInv
      <3>2. RetiringLimit \in Nat
        BY WindowsAssumption
      <3>3. HelpersBounded'
        BY <1>1, <3>1, <3>2 DEF HelperInv, HelpersBounded, Helpers, QueryBusy
      <3> QED
        BY <3>1, <3>3 DEF HelperInv
    <2> QED
      BY <2>1, <2>2
  <1>4. GestureInv'
    BY <1>1, <1>2, SameGesture DEF monitor
  <1>5. /\ ForegroundInv'
        /\ foreground' \in Windows
        /\ switches' \in Seq(SwitchEvents)
    <2>1. CASE SwitchWindow
      <3>1. PICK window \in Windows :
                /\ foreground' = window
                /\ switches' = Posted(switches, [window |-> window, epoch |-> hookEpoch])
        BY <2>1 DEF SwitchWindow
      <3>2. CASE running
        <4>1. switches' = Append(switches, [window |-> window, epoch |-> hookEpoch])
          BY <3>1, <3>2 DEF Posted
        <4> QED
          BY <1>1, <1>2, <3>1, <3>2, <4>1, PostKeeps DEF monitor
      <3>3. CASE ~running
        <4>1. switches' = switches
          BY <3>1, <3>3 DEF Posted
        <4>2. latest' = NoLatest
          BY <1>1, <1>2, <3>3 DEF GestureInv, StoppedInv, NothingAsked, monitor
        <4>3. EpochsOrdered' /\ ForegroundKnown' /\ KeptOrDropped'
          BY <1>1, <1>2, <3>3, <4>1, <4>2
             DEF monitor, ForegroundInv, EpochsOrdered, ForegroundKnown, KeptOrDropped
        <4> QED
          BY <1>1, <3>1, <4>1, <4>3 DEF ForegroundInv, MonitorTypes
      <3> QED
        BY <3>2, <3>3
    <2>2. CASE Click \/ HelperGone
      <3>1. UNCHANGED <<switches, foreground>>
        BY <2>2 DEF Click, HelperGone, world
      <3> QED
        BY <1>1, <1>2, <3>1, SameForeground DEF monitor, MonitorTypes
    <2> QED
      BY <2>1, <2>2
  <1>6. clicks' \in Seq(ClickEvents)
    <2>1. CASE Click
      <3>1. PICK event \in ClickEvents : clicks' = Posted(clicks, event)
        <4>1. PICK down \in BOOLEAN, window \in Windows :
                clicks' = Posted(clicks, [down |-> down, window |-> window,
                                          epoch |-> hookEpoch])
          BY <2>1 DEF Click
        <4>2. [down |-> down, window |-> window, epoch |-> hookEpoch] \in ClickEvents
          BY <1>1 DEF MonitorTypes, ClickEvents
        <4> QED
          BY <4>1, <4>2
      <3>2. clicks \in Seq(ClickEvents)
        BY <1>1 DEF MonitorTypes
      <3> QED
        BY <3>1, <3>2, AppendProperties DEF Posted
    <2>2. CASE SwitchWindow \/ HelperGone
      BY <1>1, <2>2 DEF SwitchWindow, HelperGone, world, MonitorTypes
    <2> QED
      BY <2>1, <2>2
  <1>7. MonitorTypes'
    BY <1>1, <1>2, <1>5, <1>6 DEF MonitorTypes, monitor
  <1> QED
    BY <1>3, <1>4, <1>5, <1>7 DEF WindowsInv
LEMMA DeliverSwitchStep ==
    ASSUME WindowsInv, DeliverSwitch
    PROVE  WindowsInv'
  <1>1. MonitorTypes /\ HelperInv /\ GestureInv /\ ForegroundInv
    BY DEF WindowsInv
  <1>2. /\ switches # << >> /\ switches' = Tail(switches)
        /\ UNCHANGED <<foreground, clicks>>
    BY DEF DeliverSwitch
  <1>3. switches' \in Seq(SwitchEvents)
    BY <1>1, <1>2, TailFacts
  <1>4. Head(switches).window \in Windows
    BY <1>1, <1>2, EventFacts
  <1> DEFINE heeded == Handles(Head(switches)) /\ Changed(Head(switches).window)
  <1>5. CASE heeded
    <2>1. ProcessForeground(Head(switches).window)
      BY <1>5 DEF DeliverSwitch
    <2>2. /\ lastForeground' = Head(switches).window
          /\ mouse' = [mouse EXCEPT !.pressed = @ /\ mouse.window = Head(switches).window,
                                    !.lastClick = None]
          /\ Invalidate /\ QueryCancel
          /\ UNCHANGED <<running, hookEpoch, events>>
      BY <2>1 DEF ProcessForeground
    <2>3. /\ mouse' \in Mouses
          /\ mouse'.pressed => mouse.pressed
          /\ mouse'.epoch = mouse.epoch
      <3>1. mouse \in Mouses
        BY <1>1 DEF MonitorTypes
      <3>2. (mouse.pressed /\ mouse.window = Head(switches).window) \in BOOLEAN
        OBVIOUS
      <3> QED
        BY <2>2, <3>1, <3>2 DEF Mouses
    <2>4. mouse'.pressed => mouse'.epoch = hookEpoch' /\ running'
      BY <1>1, <2>2, <2>3 DEF GestureInv, StoppedInv, ButtonInv
    <2>5. GestureInv' /\ latest' = NoLatest /\ debounce' = FALSE
                     /\ generation' = generation + 1
      BY <2>2, <2>4, InvalidateGesture
    <2>6. HelperInv'
      BY <1>1, <2>2, CancelHelpers
    <2>7. MonitorTypes'
      <3>1. generation' \in Nat
        BY <1>1, <2>5 DEF MonitorTypes
      <3>2. debounce' \in BOOLEAN
        BY <2>5
      <3> QED
        BY <1>1, <1>2, <1>3, <2>2, <2>3, <3>1, <3>2 DEF MonitorTypes
    <2>8. EpochsOrdered' /\ ForegroundKnown'
      BY <1>1, <1>2, <1>5, <2>2, TailKnown DEF ForegroundInv
    <2>9. KeptOrDropped'
      BY <2>5 DEF KeptOrDropped
    <2> QED
      BY <2>5, <2>6, <2>7, <2>8, <2>9 DEF WindowsInv, ForegroundInv
  <1>6. CASE ~heeded
    <2>1. UNCHANGED <<monitor, query>>
      BY <1>6 DEF DeliverSwitch
    <2>2. MonitorTypes'
      BY <1>1, <1>2, <1>3, <2>1 DEF MonitorTypes, monitor
    <2>3. HelperInv'
      BY <1>1, <2>1 DEF query, HelperInv, HelpersBounded, Helpers, QueryBusy
    <2>4. GestureInv'
      BY <1>1, <2>1, SameGesture DEF monitor, query
    <2>5. lastForeground' = IF Handles(Head(switches)) THEN Head(switches).window
                            ELSE lastForeground
      BY <1>6, <2>1 DEF Changed, monitor
    <2>6. EpochsOrdered' /\ ForegroundKnown'
      BY <1>1, <1>2, <2>1, <2>5, TailKnown DEF ForegroundInv, monitor
    <2>7. KeptOrDropped'
      BY <1>1, <1>2, <1>6, <2>1, TailKept DEF GestureInv, ForegroundInv, monitor
    <2> QED
      BY <2>2, <2>3, <2>4, <2>6, <2>7 DEF WindowsInv, ForegroundInv
  <1> QED
    BY <1>5, <1>6

\* A press: the button takes over, and belongs to this run.
LEMMA ButtonDownStep ==
    ASSUME WindowsInv, NEW event \in ClickEvents, Handles(event), ButtonDown(event),
           clicks' \in Seq(ClickEvents), UNCHANGED <<foreground, switches>>
    PROVE  WindowsInv'
  <1>1. MonitorTypes /\ HelperInv /\ GestureInv /\ ForegroundInv
    BY DEF WindowsInv
  <1>2. /\ Invalidate /\ QueryCancel
        /\ UNCHANGED <<running, hookEpoch, lastForeground, events>>
    BY DEF ButtonDown
  <1>3. mouse' \in Mouses /\ mouse'.epoch = event.epoch
    <2>1. PICK near \in BOOLEAN :
            mouse' = [mouse EXCEPT !.pressed = TRUE, !.window = event.window,
                                   !.double = near /\ mouse.lastClick = event.window,
                                   !.epoch = event.epoch]
      BY DEF ButtonDown
    <2>2. (near /\ mouse.lastClick = event.window) \in BOOLEAN
      OBVIOUS
    <2>3. mouse \in Mouses /\ event.window \in Windows /\ event.epoch \in Nat
      BY <1>1 DEF MonitorTypes, ClickEvents
    <2> QED
      BY <2>1, <2>2, <2>3 DEF Mouses
  <1>4. mouse'.epoch = hookEpoch' /\ running'
    BY <1>2, <1>3 DEF Handles
  <1>5. GestureInv' /\ latest' = NoLatest /\ debounce' = FALSE
                   /\ generation' = generation + 1
    BY <1>2, <1>4, InvalidateGesture
  <1>6. HelperInv'
    BY <1>1, <1>2, CancelHelpers
  <1>7. MonitorTypes'
    <2>1. generation' \in Nat
      BY <1>1, <1>5 DEF MonitorTypes
    <2>2. debounce' \in BOOLEAN
      BY <1>5
    <2> QED
      BY <1>1, <1>2, <1>3, <2>1, <2>2 DEF MonitorTypes
  <1>8. ForegroundInv'
    BY <1>1, <1>2, <1>5, SameForeground
  <1> QED
    BY <1>5, <1>6, <1>7, <1>8 DEF WindowsInv

\* A release: the timer takes over from the button, or nothing does.
LEMMA ReleaseStep ==
    ASSUME WindowsInv, NEW event \in ClickEvents, Handles(event),
           ButtonReleased(event) \/ OwnClick,
           clicks' \in Seq(ClickEvents), UNCHANGED <<foreground, switches>>
    PROVE  WindowsInv'
  <1>1. MonitorTypes /\ HelperInv /\ GestureInv /\ ForegroundInv
    BY DEF WindowsInv
  <1>2. UNCHANGED <<running, generation, hookEpoch, lastForeground, expiry, latest,
                    completion, asked, retiring>>
    BY DEF ButtonReleased, OwnClick, query
  <1>3. HelperInv'
    BY <1>1, <1>2 DEF HelperInv, HelpersBounded, Helpers, QueryBusy
  <1>4. ForegroundInv'
    BY <1>1, <1>2, SameForeground
  <1>5. CASE OwnClick
    <2>1. /\ mouse' = [mouse EXCEPT !.pressed = FALSE]
          /\ UNCHANGED <<target, events, debounce>>
      BY <1>5 DEF OwnClick
    <2>2. mouse' \in Mouses /\ mouse'.pressed = FALSE /\ mouse'.epoch = mouse.epoch
      BY <1>1, <2>1 DEF MonitorTypes, Mouses
    <2>3. MonitorTypes'
      BY <1>1, <1>2, <2>1, <2>2 DEF MonitorTypes
    <2>4. GestureInv'
      BY <1>1, <1>2, <2>1, <2>2
         DEF GestureInv, StoppedInv, ButtonInv, DebounceInv, AskedInv, NothingAsked,
             LatestOfGesture
    <2> QED
      BY <1>3, <1>4, <2>3, <2>4 DEF WindowsInv
  <1>6. CASE ButtonReleased(event)
    <2>1. mouse.pressed
      BY <1>6 DEF ButtonReleased
    <2>2. mouse.epoch = hookEpoch /\ ~debounce /\ running
          /\ asked = NoQuestion /\ latest = NoLatest
      BY <1>1, <2>1 DEF GestureInv, ButtonInv, StoppedInv, NothingAsked
    <2>3. /\ mouse' \in Mouses
          /\ mouse'.pressed = FALSE /\ mouse'.epoch = mouse.epoch
      <3>1. PICK clicked \in Windows \cup {None} :
              mouse' = [mouse EXCEPT !.pressed = FALSE, !.lastClick = clicked]
        BY <1>6 DEF ButtonReleased, ClickEvents
      <3> QED
        BY <1>1, <3>1 DEF MonitorTypes, Mouses
    <2>4. events' \in Nat /\ debounce' \in BOOLEAN
      <3>1. (events' = events + 1 /\ debounce' = TRUE)
            \/ (events' = events /\ debounce' = debounce)
        BY <1>6 DEF ButtonReleased
      <3>2. CASE events' = events + 1 /\ debounce' = TRUE
        BY <1>1, <3>2 DEF MonitorTypes
      <3>3. CASE events' = events /\ debounce' = debounce
        BY <1>1, <3>3 DEF MonitorTypes
      <3> QED
        BY <3>1, <3>2, <3>3
    <2>5. MonitorTypes'
      BY <1>1, <1>2, <2>3, <2>4 DEF MonitorTypes
    <2>6. GestureInv'
      BY <1>2, <2>2, <2>3
         DEF GestureInv, StoppedInv, ButtonInv, DebounceInv, AskedInv, NothingAsked,
             LatestOfGesture
    <2> QED
      BY <1>3, <1>4, <2>5, <2>6 DEF WindowsInv
  <1> QED
    BY <1>5, <1>6

LEMMA DeliverClickStep ==
    ASSUME WindowsInv, DeliverClick
    PROVE  WindowsInv'
  <1>1. MonitorTypes /\ HelperInv /\ GestureInv /\ ForegroundInv
    BY DEF WindowsInv
  <1>2. /\ clicks # << >> /\ clicks' = Tail(clicks)
        /\ UNCHANGED <<foreground, switches>>
    BY DEF DeliverClick
  <1>3. Head(clicks) \in ClickEvents /\ clicks' \in Seq(ClickEvents)
    BY <1>1, <1>2, HeadTailProperties DEF MonitorTypes
  <1>4. CASE Handles(Head(clicks)) /\ ProcessMouse(Head(clicks))
    <2>1. CASE ButtonDown(Head(clicks))
      BY <1>2, <1>3, <1>4, <2>1, ButtonDownStep
    <2>2. CASE ButtonReleased(Head(clicks)) \/ OwnClick
      BY <1>2, <1>3, <1>4, <2>2, ReleaseStep
    <2> QED
      BY <1>4, <2>1, <2>2 DEF ProcessMouse
  <1>5. CASE UNCHANGED <<monitor, query>>
    <2>1. MonitorTypes'
      BY <1>1, <1>2, <1>3, <1>5 DEF MonitorTypes, monitor
    <2>2. HelperInv'
      BY <1>1, <1>5 DEF query, HelperInv, HelpersBounded, Helpers, QueryBusy
    <2>3. GestureInv'
      BY <1>1, <1>5, SameGesture DEF monitor, query
    <2>4. ForegroundInv'
      BY <1>1, <1>2, <1>5, SameForeground DEF monitor
    <2> QED
      BY <2>1, <2>2, <2>3, <2>4 DEF WindowsInv
  <1> QED
    BY <1>4, <1>5 DEF DeliverClick
\* The timer: the question takes over, or the gesture is given up.
LEMMA RequestStep ==
    ASSUME WindowsInv, RequestSelection
    PROVE  WindowsInv'
  <1>1. MonitorTypes /\ HelperInv /\ GestureInv /\ ForegroundInv
    BY DEF WindowsInv
  <1>2. /\ debounce
        /\ UNCHANGED <<running, hookEpoch, lastForeground, mouse, events,
                       foreground, clicks, switches>>
    BY DEF RequestSelection, world
  <1>3. /\ mouse.epoch = hookEpoch /\ ~mouse.pressed
        /\ asked = NoQuestion /\ latest = NoLatest
    BY <1>1, <1>2 DEF GestureInv, ButtonInv, DebounceInv, NothingAsked
  <1>4. CASE CanAsk /\ Accepts
    <2>1. /\ debounce' = FALSE
          /\ Request([window |-> target, event |-> events, epoch |-> mouse.epoch])
          /\ UNCHANGED <<generation, target, expiry, latest>>
      BY <1>4 DEF RequestSelection
    <2>2. /\ asked' = [window |-> target, event |-> events, epoch |-> mouse.epoch]
          /\ retiring' = retiring /\ retiring < RetiringLimit
      BY <2>1 DEF Request, Accepts
    <2>3. running
      BY <1>4 DEF CanAsk
    <2>4. MonitorTypes'
      BY <1>1, <1>2, <2>1 DEF MonitorTypes
    <2>5. HelperInv'
      BY <1>1, <2>2, WindowsAssumption DEF HelperInv, HelpersBounded, Helpers, QueryBusy
    <2>6. GestureInv'
      BY <1>2, <1>3, <2>1, <2>2, <2>3
         DEF GestureInv, StoppedInv, ButtonInv, DebounceInv, AskedInv, NothingAsked,
             LatestOfGesture
    <2>7. ForegroundInv'
      BY <1>1, <1>2, <2>1, SameForeground
    <2> QED
      BY <2>4, <2>5, <2>6, <2>7 DEF WindowsInv
  <1>5. CASE ~(CanAsk /\ Accepts)
    <2>1. Invalidate /\ QueryCancel
      BY <1>5 DEF RequestSelection, Refused
    <2>2. GestureInv' /\ latest' = NoLatest /\ debounce' = FALSE
                     /\ generation' = generation + 1
      BY <1>2, <1>3, <2>1, InvalidateGesture
    <2>3. HelperInv'
      BY <1>1, <2>1, CancelHelpers
    <2>4. MonitorTypes'
      <3>1. generation' \in Nat
        BY <1>1, <2>2 DEF MonitorTypes
      <3>2. debounce' \in BOOLEAN
        BY <2>2
      <3> QED
        BY <1>1, <1>2, <3>1, <3>2 DEF MonitorTypes
    <2>5. ForegroundInv'
      BY <1>1, <1>2, <2>2, SameForeground
    <2> QED
      BY <2>2, <2>3, <2>4, <2>5 DEF WindowsInv
  <1> QED
    BY <1>4, <1>5

\* The helper ends or is stopped, with an answer or without.
LEMMA QueryEndsHelpers ==
    ASSUME HelperInv, NEW found, QueryEnds(found)
    PROVE  HelperInv' /\ asked # NoQuestion /\ asked' = NoQuestion
  <1>1. CASE HelperEnds
    <2>1. asked # NoQuestion /\ asked' = NoQuestion /\ retiring' = retiring
      BY <1>1 DEF HelperEnds, QueryBusy
    <2>2. retiring \in Nat /\ retiring + 1 <= RetiringLimit
      BY <2>1 DEF HelperInv, HelpersBounded, Helpers, QueryBusy
    <2>3. RetiringLimit \in Nat
      BY WindowsAssumption
    <2>4. Helpers' = retiring
      BY <2>1, <2>2 DEF Helpers, QueryBusy
    <2>5. HelpersBounded'
      BY <2>2, <2>3, <2>4 DEF HelpersBounded
    <2> QED
      BY <2>1, <2>2, <2>5 DEF HelperInv
  <1>2. CASE HelperStopped
    BY <1>2, CancelHelpers DEF HelperStopped, QueryBusy, QueryCancel
  <1> QED
    BY <1>1, <1>2 DEF QueryEnds

\* The answer is kept, clears the gesture, or is not heard.
LEMMA CompletedStep ==
    ASSUME WindowsInv, Completed
    PROVE  WindowsInv'
  <1>1. MonitorTypes /\ HelperInv /\ GestureInv /\ ForegroundInv
    BY DEF WindowsInv
  <1>2. UNCHANGED <<running, hookEpoch, lastForeground, mouse, events, foreground,
                    clicks, switches>>
    BY DEF Completed, world
  <1>3. PICK found \in BOOLEAN :
          /\ QueryEnds(found)
          /\ \/ Hears /\ found /\ Keep(asked)
             \/ Hears /\ ~found /\ Invalidate
             \/ UNCHANGED <<generation, target, debounce, expiry, latest, completion>>
    BY DEF Completed
  <1>4. HelperInv' /\ asked # NoQuestion /\ asked' = NoQuestion
    BY <1>1, <1>3, QueryEndsHelpers
  <1>5. /\ latest = NoLatest /\ ~debounce /\ ~mouse.pressed
        /\ asked.window = target /\ asked.event = events /\ asked.epoch = hookEpoch
    BY <1>1, <1>4 DEF GestureInv, ButtonInv, DebounceInv, AskedInv, NothingAsked
  <1>6. CASE Hears /\ Keep(asked)
    <2>1. /\ latest' = asked /\ expiry' = TRUE
          /\ UNCHANGED <<generation, target, debounce>>
          /\ running /\ foreground = target
      BY <1>6 DEF Hears, Keep
    <2>2. MonitorTypes'
      BY <1>1, <1>2, <2>1 DEF MonitorTypes
    <2>3. GestureInv'
      BY <1>2, <1>4, <1>5, <2>1
         DEF GestureInv, StoppedInv, ButtonInv, DebounceInv, AskedInv, NothingAsked,
             LatestOfGesture
    <2>4. EpochsOrdered' /\ ForegroundKnown'
      BY <1>1, <1>2 DEF ForegroundInv, EpochsOrdered, ForegroundKnown, LastIsCurrent
    <2>5. KeptOrDropped'
      <3> SUFFICES ASSUME lastForeground # foreground PROVE ChangeComes'
        BY <1>2, <1>5, <2>1 DEF KeptOrDropped
      <3>1. LastIsCurrent /\ switches[Len(switches)].window = foreground
        BY <1>1, <2>1 DEF ForegroundInv, ForegroundKnown
      <3>2. Len(switches) \in 1..Len(switches)
        BY <1>1, <3>1, EventFacts DEF LastIsCurrent
      <3> QED
        BY <1>2, <3>1, <3>2 DEF ChangeComes, LastIsCurrent
    <2> QED
      BY <1>4, <2>2, <2>3, <2>4, <2>5 DEF WindowsInv, ForegroundInv
  <1>7. CASE Invalidate
    <2>1. /\ latest' = NoLatest /\ debounce' = FALSE
          /\ generation' = generation + 1
      BY <1>7 DEF Invalidate
    <2>2. MonitorTypes'
      <3>1. generation' \in Nat
        BY <1>1, <2>1 DEF MonitorTypes
      <3>2. debounce' \in BOOLEAN
        BY <2>1
      <3> QED
        BY <1>1, <1>2, <3>1, <3>2 DEF MonitorTypes
    <2>3. GestureInv'
      BY <1>2, <1>4, <1>5, <2>1
         DEF GestureInv, StoppedInv, ButtonInv, DebounceInv, AskedInv, NothingAsked,
             LatestOfGesture
    <2>4. ForegroundInv'
      BY <1>1, <1>2, <2>1, SameForeground
    <2> QED
      BY <1>4, <2>2, <2>3, <2>4 DEF WindowsInv
  <1>8. CASE UNCHANGED <<generation, target, debounce, expiry, latest, completion>>
    <2>1. MonitorTypes'
      BY <1>1, <1>2, <1>8 DEF MonitorTypes
    <2>2. GestureInv'
      BY <1>2, <1>4, <1>5, <1>8
         DEF GestureInv, StoppedInv, ButtonInv, DebounceInv, AskedInv, NothingAsked,
             LatestOfGesture
    <2>3. ForegroundInv'
      BY <1>1, <1>2, <1>8, SameForeground
    <2> QED
      BY <1>4, <2>1, <2>2, <2>3 DEF WindowsInv
  <1> QED
    BY <1>3, <1>6, <1>7, <1>8

-----------------------------------------------------------------------------
(***************************************************************************)
(* Every step keeps the inductive invariant.                               *)
(***************************************************************************)
THEOREM WindowsInvariant == Spec => []WindowsInv
  <1>1. Init => WindowsInv
    BY WindowsInitially
  <1>2. WindowsInv /\ [Next]_vars => WindowsInv'
    <2> SUFFICES ASSUME WindowsInv, [Next]_vars PROVE WindowsInv'
      OBVIOUS
    <2>1. CASE Start
      BY <2>1, StartStep
    <2>2. CASE Stop
      BY <2>2, StopStep
    <2>3. CASE Expire
      BY <2>3, ExpireStep
    <2>4. CASE Click \/ SwitchWindow \/ HelperGone
      BY <2>4, HookStep
    <2>5. CASE DeliverSwitch
      BY <2>5, DeliverSwitchStep
    <2>6. CASE DeliverClick
      BY <2>6, DeliverClickStep
    <2>7. CASE RequestSelection
      BY <2>7, RequestStep
    <2>8. CASE Completed
      BY <2>8, CompletedStep
    <2>9. CASE UNCHANGED vars
      <3>1. UNCHANGED <<monitor, query, foreground, clicks, switches>>
        BY <2>9 DEF vars, world
      <3>2. MonitorTypes'
        BY <3>1 DEF WindowsInv, MonitorTypes, monitor
      <3>3. HelperInv'
        BY <3>1 DEF WindowsInv, HelperInv, HelpersBounded, Helpers, QueryBusy, query
      <3>4. GestureInv'
        BY <3>1, SameGesture DEF WindowsInv, monitor, query
      <3>5. ForegroundInv'
        BY <3>1, SameForeground DEF WindowsInv, monitor
      <3> QED
        BY <3>2, <3>3, <3>4, <3>5 DEF WindowsInv
    <2> QED
      BY <2>1, <2>2, <2>3, <2>4, <2>5, <2>6, <2>7, <2>8, <2>9 DEF Next
  <1> QED
    BY <1>1, <1>2, PTL DEF Spec

(***************************************************************************)
(* The selection kept is of the last gesture, of this run, and of the      *)
(* gesture's window: hook epochs keep events of earlier runs out, and      *)
(* invalidate() withdraws question and selection together.                 *)
(***************************************************************************)
THEOREM LatestIsOfGesture == Spec => []LatestOfGesture
  <1>1. WindowsInv => LatestOfGesture
    BY DEF WindowsInv, GestureInv
  <1> QED
    BY <1>1, WindowsInvariant, PTL

(***************************************************************************)
(* A selection kept is of the window in front, once the foreground events  *)
(* are processed, although lastForeground_ lags behind and windows may     *)
(* come back to the front before the events of their leaving arrive.       *)
(***************************************************************************)
THEOREM SourceIsInForeground == Spec => []SourceInForeground
  <1>1. WindowsInv => SourceInForeground
    <2> SUFFICES ASSUME WindowsInv, switches = << >>, latest # NoLatest
                 PROVE  latest.window = foreground
      BY DEF SourceInForeground
    <2>1. running
      BY DEF WindowsInv, GestureInv, LatestOfGesture
    <2>2. lastForeground = foreground
      BY <2>1 DEF WindowsInv, ForegroundInv, ForegroundKnown, LastIsCurrent
    <2>3. Len(switches) = 0
      BY EmptySeq
    <2>4. ~ChangeComes
      BY <2>3 DEF ChangeComes
    <2> QED
      BY <2>2, <2>4 DEF WindowsInv, ForegroundInv, KeptOrDropped
  <1> QED
    BY <1>1, WindowsInvariant, PTL

(***************************************************************************)
(* request() and retire() never let more helpers exist than retiring_ may  *)
(* hold, however often a question is cancelled.                            *)
(***************************************************************************)
THEOREM HelpersAreBounded == Spec => []HelpersBounded
  <1>1. WindowsInv => HelpersBounded
    BY DEF WindowsInv, HelperInv
  <1> QED
    BY <1>1, WindowsInvariant, PTL
=============================================================================
