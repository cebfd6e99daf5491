------------------------- MODULE GlobalShortcutProofs -------------------------
(***************************************************************************)
(* What the status of the global shortcut says is so, and nothing is left  *)
(* behind, for any number of starts, mishaps and key events: the workers   *)
(* of the X11 shortcut first, then the sessions of the portal's.           *)
(***************************************************************************)
EXTENDS GlobalShortcut, SequenceTheorems, TLAPS

-----------------------------------------------------------------------------
(***************************************************************************)
(* Queues.                                                                 *)
(***************************************************************************)
LEMMA Appended ==
  ASSUME NEW S, NEW s \in Seq(S), NEW e \in S
  PROVE  LET t == Append(s, e) IN
         /\ t \in Seq(S) /\ Len(s) \in Nat /\ Len(t) = Len(s) + 1 /\ t[Len(s) + 1] = e
         /\ \A i \in 1..Len(s) : t[i] = s[i]
BY AppendProperties, LenProperties

LEMMA Tailed ==
  ASSUME NEW S, NEW s \in Seq(S), s # <<>>
  PROVE  LET t == Tail(s) IN
         /\ t \in Seq(S) /\ Len(s) \in Nat \ {0} /\ Len(t) = Len(s) - 1
         /\ Head(s) = s[1] /\ Head(s) \in S
         /\ \A i \in 1..Len(t) : t[i] = s[i + 1]
BY HeadTailProperties, LenProperties, EmptySeq

-----------------------------------------------------------------------------
(***************************************************************************)
(* The invariant of the X11 shortcut.                                      *)
(***************************************************************************)
Holding == {"looping", "draining", "polling", "closing"}

Workers ==
    [pc : {"ended", "opening"} \cup Holding, generation : Nat,
     interrupted : BOOLEAN, down : BOOLEAN]

Signals == [kind : {"state", "pressed"}, generation : Nat, on : BOOLEAN]

X11TypeOK ==
    /\ generation \in Nat
    /\ registered \in BOOLEAN /\ grabbed \in BOOLEAN
    /\ blocked \in {"no", "stop", "start"}
    /\ worker \in Workers
    /\ signals \in Seq(Signals)
    /\ xevents \in Seq({"press", "release"})

\* The key is grabbed exactly while the worker runs its loop.
GrabIsWorkers ==
    /\ grabbed <=> worker.pc \in Holding
    /\ ~grabbed => xevents = <<>>

\* Only the worker of the last start() has the current generation.
WorkerIsOfGeneration ==
    /\ blocked = "no" => ~worker.interrupted /\ worker.pc # "closing"
    /\ blocked = "no" /\ worker.pc # "ended" => worker.generation = generation
    /\ worker.generation <= generation
    /\ blocked # "no" => worker.generation < generation

\* While the GUI thread is blocked, all signals are of earlier generations.
SignalsAreOld ==
    \A i \in 1..Len(signals) :
        /\ signals[i].generation <= generation
        /\ blocked # "no" => signals[i].generation < generation

CurrentState(signal) == signal.generation = generation /\ signal.kind = "state"

\* A current state that is queued is the last word about the grab.
StateIsTold ==
    blocked = "no" =>
        /\ \A i \in 1..Len(signals) : CurrentState(signals[i]) =>
              worker.pc # "opening" /\ signals[i].on = grabbed
        /\ worker.pc = "opening" => ~registered
        /\ worker.pc # "opening" =>
              \/ registered = grabbed
              \/ \E i \in 1..Len(signals) : CurrentState(signals[i])

X11Inv ==
    /\ X11TypeOK
    /\ GrabIsWorkers
    /\ WorkerIsOfGeneration
    /\ SignalsAreOld
    /\ StateIsTold

LEMMA QueuedSignals ==
  ASSUME X11TypeOK
  PROVE  /\ signals \in Seq(Signals) /\ Len(signals) \in Nat
         /\ \A i \in 1..Len(signals) : signals[i] \in Signals /\ signals[i].generation \in Nat
<1>1. signals \in Seq(Signals)
  BY DEF X11TypeOK
<1>2. \A i \in 1..Len(signals) : signals[i] \in Signals
  BY <1>1, ElementOfSeq
<1>3. QED
  BY <1>1, <1>2, LenProperties DEF Signals

LEMMA X11InitInv == Init => X11Inv
<1> SUFFICES ASSUME Init PROVE X11Inv
  OBVIOUS
<1> USE DEF Init, X11!Init
<1>1. worker = [pc |-> "ended", generation |-> 0, interrupted |-> FALSE, down |-> FALSE]
  BY DEF X11!NoWorker
<1>2. /\ signals = <<>> /\ xevents = <<>> /\ Len(signals) = 0
      /\ signals \in Seq(Signals) /\ xevents \in Seq({"press", "release"})
  BY EmptySeq
<1>0. ~registered /\ ~grabbed /\ registered \in BOOLEAN /\ grabbed \in BOOLEAN
  OBVIOUS
<1>3. X11TypeOK
  <2>1. worker \in Workers
    BY <1>1 DEF Workers
  <2>2. generation \in Nat /\ blocked \in {"no", "stop", "start"}
    OBVIOUS
  <2> QED
    BY <1>0, <1>2, <2>1, <2>2 DEF X11TypeOK
<1>4. GrabIsWorkers
  BY <1>1, <1>2 DEF GrabIsWorkers, Holding
<1>5. WorkerIsOfGeneration
  BY <1>1 DEF WorkerIsOfGeneration
<1>6. SignalsAreOld /\ StateIsTold
  <2>1. \A i \in 1..Len(signals) : FALSE
    BY <1>2
  <2>2. registered = grabbed
    OBVIOUS
  <2>3. QED
    BY <1>0, <2>1, <2>2 DEF SignalsAreOld, StateIsTold
<1>7. QED
  BY <1>3, <1>4, <1>5, <1>6 DEF X11Inv

\* stop() and start() first: the current generation has no worker and no signal.
LEMMA ShutdownKeeps ==
  ASSUME X11Inv, NEW kind \in {"start", "stop"}, X11!Shutdown(kind)
  PROVE  X11Inv'
<1> USE DEF X11Inv, X11!Shutdown
<1>1. worker' = [worker EXCEPT !.interrupted = TRUE] /\ generation' = generation + 1
      /\ blocked' = kind /\ blocked = "no"
  OBVIOUS
<1>2. /\ worker' \in Workers /\ worker'.pc = worker.pc
      /\ worker'.generation = worker.generation
  BY <1>1 DEF X11TypeOK, Workers
<1>3. X11TypeOK'
  BY <1>1, <1>2 DEF X11TypeOK
<1>4. GrabIsWorkers'
  BY <1>2 DEF GrabIsWorkers
<1>5. WorkerIsOfGeneration'
  <2>1. worker.generation \in Nat /\ worker.generation <= generation /\ generation \in Nat
    BY DEF X11TypeOK, Workers, WorkerIsOfGeneration
  <2>2. worker'.generation < generation' /\ worker'.generation <= generation'
    BY <1>1, <1>2, <2>1
  <2>3. blocked' # "no"
    BY <1>1
  <2>4. QED
    BY <2>2, <2>3 DEF WorkerIsOfGeneration
<1>6. SignalsAreOld'
  <2>1. \A i \in 1..Len(signals) : signals[i].generation \in Nat
    BY QueuedSignals
  <2>2. QED
    BY <1>1, <2>1 DEF SignalsAreOld, X11TypeOK
<1>7. StateIsTold'
  BY <1>1 DEF StateIsTold
<1>8. QED
  BY <1>3, <1>4, <1>5, <1>6, <1>7

LEMMA JoinedKeeps == ASSUME X11Inv, X11!Joined PROVE X11Inv'
<1> USE DEF X11Inv, X11!Joined
<1>1. /\ blocked' = "no" /\ blocked # "no" /\ registered' = FALSE /\ worker.pc = "ended"
      /\ UNCHANGED <<signals, grabbed, xevents>>
  OBVIOUS
<1>2. /\ worker' \in Workers /\ worker'.pc \in {"ended", "opening"} /\ ~worker'.interrupted
      /\ worker'.pc = "opening" => worker'.generation = generation'
      /\ worker'.generation <= generation'
  <2>1. X11!NoWorker \in Workers /\ X11!NoWorker.pc = "ended" /\ ~X11!NoWorker.interrupted
        /\ X11!NoWorker.generation = 0
    BY DEF X11!NoWorker, Workers
  <2>2. CASE blocked = "start"
    <3>1. worker' = [X11!NoWorker EXCEPT !.pc = "opening", !.generation = generation + 1]
          /\ generation' = generation + 1
      BY <2>2
    <3>2. generation + 1 \in Nat
      BY DEF X11TypeOK
    <3>3. X11!NoWorker.interrupted \in BOOLEAN /\ X11!NoWorker.down \in BOOLEAN
      BY <2>1 DEF Workers
    <3>4. /\ worker' \in Workers /\ worker'.pc = "opening"
          /\ worker'.generation = generation + 1
          /\ worker'.interrupted = X11!NoWorker.interrupted
      BY <2>1, <3>1, <3>2 DEF Workers
    <3>5. QED
      BY <2>1, <3>1, <3>2, <3>4
  <2>3. CASE blocked # "start"
    <3>1. worker' = X11!NoWorker /\ generation' = generation
      BY <2>3
    <3>2. QED
      BY <2>1, <3>1 DEF X11TypeOK
  <2>4. QED
    BY <2>2, <2>3
<1>3. generation' \in {generation, generation + 1} /\ generation \in Nat
  BY DEF X11TypeOK
<1>4. X11TypeOK'
  <2>1. generation' \in Nat
    BY <1>3
  <2>2. registered' \in BOOLEAN
    BY <1>1
  <2>3. QED
    BY <1>1, <1>2, <2>1, <2>2 DEF X11TypeOK
<1>5. ~grabbed /\ ~grabbed' /\ xevents' = <<>>
  BY <1>1 DEF GrabIsWorkers, Holding
<1>6. GrabIsWorkers'
  BY <1>2, <1>5 DEF GrabIsWorkers, Holding
<1>7. WorkerIsOfGeneration'
  BY <1>1, <1>2 DEF WorkerIsOfGeneration
<1>8. \A i \in 1..Len(signals) :
         signals[i].generation \in Nat /\ signals[i].generation < generation'
  <2>1. \A i \in 1..Len(signals) : signals[i].generation \in Nat
    BY QueuedSignals
  <2>2. QED
    BY <1>1, <1>3, <2>1 DEF SignalsAreOld
<1>9. SignalsAreOld'
  BY <1>1, <1>3, <1>8 DEF SignalsAreOld
<1>10. StateIsTold'
  <2>1. \A i \in 1..Len(signals') : signals'[i].generation # generation'
    BY <1>1, <1>3, <1>8
  <2>2. ~registered' /\ registered' = grabbed'
    BY <1>1, <1>5 DEF X11TypeOK
  <2>3. \A i \in 1..Len(signals') : ~CurrentState(signals[i])'
    BY <2>1 DEF CurrentState
  <2>4. QED
    BY <2>2, <2>3 DEF StateIsTold
<1>11. QED
  BY <1>4, <1>6, <1>7, <1>9, <1>10

LEMMA X11DeliverKeeps == ASSUME X11Inv, X11!Deliver PROVE X11Inv'
<1> USE DEF X11Inv, X11!Deliver
<1> DEFINE signal == Head(signals)
<1>1. /\ blocked = "no" /\ signals \in Seq(Signals) /\ signals # <<>>
      /\ signals' = Tail(signals)
      /\ UNCHANGED <<generation, blocked, worker, grabbed, xevents>>
      /\ registered' = IF CurrentState(signal) THEN signal.on ELSE registered
  BY DEF X11TypeOK, X11!IsCurrent, CurrentState
<1>2. /\ signals' \in Seq(Signals) /\ Len(signals) \in Nat \ {0}
      /\ Len(signals') = Len(signals) - 1 /\ signal = signals[1] /\ signal \in Signals
      /\ \A i \in 1..Len(signals') : signals'[i] = signals[i + 1]
  BY <1>1, Tailed
<1> HIDE DEF signal
<1>3. X11TypeOK'
  <2>1. registered' \in BOOLEAN
    BY <1>1, <1>2 DEF X11TypeOK, Signals
  <2>2. QED
    BY <1>1, <1>2, <2>1 DEF X11TypeOK
<1>4. GrabIsWorkers' /\ WorkerIsOfGeneration'
  BY <1>1 DEF GrabIsWorkers, WorkerIsOfGeneration
<1>5. \A i \in 1..Len(signals') : i + 1 \in 1..Len(signals)
  BY <1>2
<1>6. SignalsAreOld'
  BY <1>1, <1>2, <1>5 DEF SignalsAreOld
<1>7. /\ \A i \in 1..Len(signals') : CurrentState(signals[i])' =>
            worker.pc # "opening" /\ signals'[i].on = grabbed
  BY <1>1, <1>2, <1>5 DEF StateIsTold, CurrentState
<1>8. CASE CurrentState(signal)
  <2>1. worker.pc # "opening" /\ registered' = grabbed
    BY <1>1, <1>2, <1>8 DEF StateIsTold
  <2>2. QED
    BY <1>1, <1>3, <1>4, <1>6, <1>7, <2>1 DEF StateIsTold
<1>9. CASE ~CurrentState(signal)
  <2>1. UNCHANGED registered
    BY <1>1, <1>9
  <2>2. ASSUME NEW i \in 1..Len(signals), CurrentState(signals[i])
        PROVE  \E k \in 1..Len(signals') : CurrentState(signals[k])'
    <3>1. i # 1
      BY <1>2, <1>9, <2>2
    <3>2. i - 1 \in 1..Len(signals') /\ signals'[i - 1] = signals[i]
      BY <1>2, <3>1
    <3>3. QED
      BY <1>1, <2>2, <3>2 DEF CurrentState
  <2>3. StateIsTold'
    BY <1>1, <1>7, <2>1, <2>2 DEF StateIsTold
  <2>4. QED
    BY <1>3, <1>4, <1>6, <2>3
<1>10. QED
  BY <1>8, <1>9

\* A signal that is no current state is queued, or none.
LEMMA SignalQueued ==
  ASSUME X11Inv, UNCHANGED <<generation, registered, blocked, grabbed>>,
         NEW signal \in Signals, signal.kind = "pressed",
         signal.generation <= generation, blocked # "no" => signal.generation < generation,
         signals' \in {signals, Append(signals, signal)},
         worker'.pc # "opening", worker.pc # "opening"
  PROVE  signals' \in Seq(Signals) /\ SignalsAreOld' /\ StateIsTold'
<1> USE DEF X11Inv
<1>1. signals \in Seq(Signals) /\ Len(signals) \in Nat
  BY LenProperties DEF X11TypeOK
<1>2. /\ signals' \in Seq(Signals) /\ Len(signals') \in {Len(signals), Len(signals) + 1}
      /\ \A i \in 1..Len(signals) : i \in 1..Len(signals') /\ signals'[i] = signals[i]
      /\ \A i \in 1..Len(signals') : i \in 1..Len(signals) \/ signals'[i] = signal
  <2>1. CASE signals' = signals
    BY <1>1, <2>1
  <2>2. CASE signals' = Append(signals, signal)
    BY <1>1, <2>2, Appended
  <2>3. QED
    BY <2>1, <2>2
<1>3. SignalsAreOld'
  BY <1>2 DEF SignalsAreOld
<1>4. StateIsTold'
  BY <1>2 DEF StateIsTold, CurrentState
<1>5. QED
  BY <1>2, <1>3, <1>4

LEMMA OpenKeeps == ASSUME X11Inv, X11!Open PROVE X11Inv'
<1> USE DEF X11Inv
<1>1. PICK ok \in BOOLEAN :
        /\ worker' = [worker EXCEPT !.pc = IF ok THEN "looping" ELSE "ended"]
        /\ grabbed' = ok
        /\ signals' = Append(signals, X11!Signal("state", ok))
  BY DEF X11!Open
<1>2. worker.pc = "opening" /\ UNCHANGED <<generation, registered, blocked, xevents>>
  BY DEF X11!Open, X11!gui
<1> DEFINE signal == X11!Signal("state", ok)
<1>3. /\ signal \in Signals /\ signal.kind = "state" /\ signal.on = ok
      /\ signal.generation = worker.generation
  BY DEF X11!Signal, Signals, X11TypeOK, Workers
<1>4. signals \in Seq(Signals) /\ generation \in Nat
  BY DEF X11TypeOK
<1> HIDE DEF signal
<1>5. /\ signals' \in Seq(Signals) /\ Len(signals) \in Nat /\ Len(signals') = Len(signals) + 1
      /\ signals'[Len(signals) + 1] = signal
      /\ \A i \in 1..Len(signals) : signals'[i] = signals[i]
  BY <1>1, <1>3, <1>4, Appended DEF signal
<1>6. \A i \in 1..Len(signals') : i \in 1..Len(signals) \/ i = Len(signals) + 1
  BY <1>5
<1>7. /\ worker' \in Workers /\ worker'.generation = worker.generation
      /\ worker'.interrupted = worker.interrupted
      /\ worker'.pc = IF ok THEN "looping" ELSE "ended"
  BY <1>1 DEF X11TypeOK, Workers, Holding
<1>8. X11TypeOK'
  BY <1>1, <1>2, <1>5, <1>7 DEF X11TypeOK
<1>9. GrabIsWorkers'
  BY <1>1, <1>2, <1>7 DEF GrabIsWorkers, Holding
<1>10. WorkerIsOfGeneration'
  BY <1>2, <1>7 DEF WorkerIsOfGeneration
<1>11. SignalsAreOld'
  <2>1. /\ signal.generation <= generation
        /\ blocked # "no" => signal.generation < generation
    BY <1>3 DEF WorkerIsOfGeneration
  <2>2. QED
    BY <1>2, <1>5, <1>6, <2>1 DEF SignalsAreOld
<1>12. StateIsTold'
  <2> SUFFICES ASSUME blocked = "no" PROVE StateIsTold'
    BY <1>2 DEF StateIsTold
  <2>1. \A i \in 1..Len(signals) : ~CurrentState(signals[i])
    BY <1>2 DEF StateIsTold
  <2>2. \A i \in 1..Len(signals') : CurrentState(signals[i])' => signals'[i].on = ok
    BY <1>2, <1>3, <1>5, <1>6, <2>1 DEF CurrentState
  <2>3. \E i \in 1..Len(signals') : CurrentState(signals[i])'
    <3>1. signals'[Len(signals) + 1] = signal /\ signal.generation = generation
      BY <1>2, <1>3, <1>5 DEF WorkerIsOfGeneration
    <3>2. QED
      BY <1>2, <1>3, <1>5, <3>1 DEF CurrentState
  <2>4. worker'.pc # "opening"
    BY <1>7
  <2>5. QED
    <3>1. \A i \in 1..Len(signals') : CurrentState(signals[i])' => signals'[i].on = grabbed'
      BY <1>1, <2>2
    <3>2. QED
      BY <2>3, <2>4, <3>1 DEF StateIsTold
<1>13. QED
  BY <1>8, <1>9, <1>10, <1>11, <1>12

\* A step within the loop: the grab stays, and what is told of it.
LEMMA LoopStepKeeps ==
  ASSUME X11Inv, UNCHANGED <<generation, registered, blocked, grabbed>>,
         worker.pc \in Holding, worker'.pc \in Holding, worker' \in Workers,
         worker'.generation = worker.generation,
         worker'.interrupted = worker.interrupted,
         worker'.pc = "closing" => worker.interrupted,
         xevents' \in Seq({"press", "release"}),
         signals' \in {signals, Append(signals, X11!Signal("pressed", TRUE))}
  PROVE  X11Inv'
<1> USE DEF X11Inv
<1> DEFINE signal == X11!Signal("pressed", TRUE)
<1>1. /\ signal \in Signals /\ signal.kind = "pressed"
      /\ signal.generation = worker.generation
  BY DEF X11!Signal, Signals, X11TypeOK, Workers
<1>2. worker.pc # "opening" /\ worker'.pc # "opening" /\ worker.pc # "ended"
  BY DEF Holding
<1>3. signals' \in {signals, Append(signals, signal)}
  OBVIOUS
<1> HIDE DEF signal
<1>4. generation \in Nat
  BY DEF X11TypeOK
<1>5. /\ signal.generation <= generation
      /\ blocked # "no" => signal.generation < generation
  BY <1>1 DEF WorkerIsOfGeneration
<1>6. signals' \in Seq(Signals) /\ SignalsAreOld' /\ StateIsTold'
  BY <1>1, <1>2, <1>3, <1>5, SignalQueued
<1>7. X11TypeOK'
  BY <1>6 DEF X11TypeOK
<1>8. GrabIsWorkers'
  BY DEF GrabIsWorkers
<1>9. WorkerIsOfGeneration'
  BY <1>2 DEF WorkerIsOfGeneration
<1>10. QED
  BY <1>6, <1>7, <1>8, <1>9

LEMMA LoopKeeps == ASSUME X11Inv, X11!Loop \/ X11!PollReturns PROVE X11Inv'
<1>1. /\ worker.pc \in {"looping", "polling"}
      /\ worker' \in {[worker EXCEPT !.pc = IF worker.interrupted THEN "closing" ELSE "draining"],
                      [worker EXCEPT !.pc = IF worker.interrupted THEN "closing" ELSE "looping"]}
      /\ UNCHANGED <<generation, registered, blocked, signals, grabbed, xevents>>
  BY DEF X11!Loop, X11!PollReturns, X11!gui
<1>2. worker \in Workers /\ xevents \in Seq({"press", "release"})
  BY DEF X11Inv, X11TypeOK
<1>3. /\ worker' \in Workers /\ worker'.pc \in {"closing", "draining", "looping"}
      /\ worker'.generation = worker.generation
      /\ worker'.interrupted = worker.interrupted
      /\ worker'.pc = "closing" => worker.interrupted
  BY <1>1, <1>2 DEF Workers, Holding
<1>4. worker.pc \in Holding /\ worker'.pc \in Holding
  BY <1>1, <1>3 DEF Holding
<1>5. QED
  BY <1>1, <1>2, <1>3, <1>4, LoopStepKeeps

LEMMA DrainKeeps == ASSUME X11Inv, X11!Drain PROVE X11Inv'
<1>1. /\ worker.pc = "draining"
      /\ signals' \in {signals, Append(signals, X11!Signal("pressed", TRUE))}
      /\ UNCHANGED <<generation, registered, blocked, grabbed>>
  BY DEF X11!Drain, X11!gui
<1>2. worker \in Workers /\ xevents \in Seq({"press", "release"})
  BY DEF X11Inv, X11TypeOK
<1>3. /\ worker' \in Workers /\ worker'.pc \in {"draining", "polling"}
      /\ worker'.generation = worker.generation
      /\ worker'.interrupted = worker.interrupted
  <2>1. CASE worker' = [worker EXCEPT !.down = Head(xevents) = "press"]
    BY <1>1, <1>2, <2>1 DEF Workers
  <2>2. CASE worker' = [worker EXCEPT !.pc = "polling"]
    BY <1>1, <1>2, <2>2 DEF Workers, Holding
  <2>3. QED
    BY <2>1, <2>2 DEF X11!Drain
<1>4. xevents' \in Seq({"press", "release"})
  <2>1. xevents' = xevents \/ (xevents # <<>> /\ xevents' = Tail(xevents))
    BY DEF X11!Drain
  <2>2. QED
    BY <1>2, <2>1, HeadTailProperties
<1>5. worker.pc \in Holding /\ worker'.pc \in Holding
  BY <1>1, <1>3 DEF Holding
<1>6. QED
  BY <1>1, <1>3, <1>4, <1>5, LoopStepKeeps

\* The worker that ends is of an earlier generation.
LEMMA CloseKeeps == ASSUME X11Inv, X11!Close PROVE X11Inv'
<1> USE DEF X11Inv, X11!Close, X11!gui
<1>1. /\ blocked # "no" /\ blocked' = blocked
      /\ UNCHANGED <<generation, registered, signals>> /\ ~grabbed' /\ xevents' = <<>>
  BY DEF WorkerIsOfGeneration
<1>2. /\ worker' \in Workers /\ worker'.pc = "ended"
      /\ worker'.generation = worker.generation
  BY DEF X11TypeOK, Workers
<1>3. X11TypeOK'
  <2>1. grabbed' \in BOOLEAN /\ xevents' \in Seq({"press", "release"})
    BY EmptySeq
  <2>2. QED
    BY <1>1, <1>2, <2>1 DEF X11TypeOK
<1>4. GrabIsWorkers'
  BY <1>1, <1>2 DEF GrabIsWorkers, Holding
<1>5. WorkerIsOfGeneration' /\ SignalsAreOld' /\ StateIsTold'
  BY <1>1, <1>2 DEF WorkerIsOfGeneration, SignalsAreOld, StateIsTold
<1>6. QED
  BY <1>3, <1>4, <1>5

LEMMA KeyEventKeeps == ASSUME X11Inv, X11!KeyEvent PROVE X11Inv'
<1> USE DEF X11Inv
<1>1. /\ grabbed /\ xevents' \in Seq({"press", "release"})
      /\ UNCHANGED <<generation, registered, blocked, worker, signals, grabbed>>
  BY AppendProperties DEF X11!KeyEvent, X11!gui, X11TypeOK
<1>2. X11TypeOK' /\ GrabIsWorkers' /\ WorkerIsOfGeneration'
  BY <1>1 DEF X11TypeOK, GrabIsWorkers, WorkerIsOfGeneration
<1>3. SignalsAreOld' /\ StateIsTold'
  BY <1>1 DEF SignalsAreOld, StateIsTold, CurrentState
<1>4. QED
  BY <1>2, <1>3

LEMMA X11Keeps == ASSUME X11Inv, X11!Next PROVE X11Inv'
<1>1. CASE X11!Start
  BY <1>1, ShutdownKeeps DEF X11!Start
<1>2. CASE X11!Stop
  BY <1>2, ShutdownKeeps DEF X11!Stop
<1>3. QED
  BY <1>1, <1>2, JoinedKeeps, X11DeliverKeeps, OpenKeeps, LoopKeeps, DrainKeeps,
     CloseKeeps, KeyEventKeeps DEF X11!Next

LEMMA X11Stutters ==
  ASSUME X11Inv,
         UNCHANGED <<generation, registered, blocked, worker, signals, grabbed, xevents>>
  PROVE  X11Inv'
<1> USE DEF X11Inv
<1>1. X11TypeOK' /\ GrabIsWorkers' /\ WorkerIsOfGeneration'
  BY DEF X11TypeOK, GrabIsWorkers, WorkerIsOfGeneration
<1>2. SignalsAreOld' /\ StateIsTold'
  BY DEF SignalsAreOld, StateIsTold, CurrentState
<1>3. QED
  BY <1>1, <1>2

LEMMA X11Truthful == X11Inv => X11!HeldAsShown /\ X11!NothingLeftBehind
<1> SUFFICES ASSUME X11Inv PROVE X11!HeldAsShown /\ X11!NothingLeftBehind
  OBVIOUS
<1>1. X11!HeldAsShown
  BY EmptySeq DEF X11Inv, StateIsTold, X11!HeldAsShown, X11!Quiet
<1>2. X11!NothingLeftBehind
  BY DEF X11Inv, GrabIsWorkers, Holding, X11!NothingLeftBehind, X11!NoWorker
<1>3. QED
  BY <1>1, <1>2

-----------------------------------------------------------------------------
(***************************************************************************)
(* The invariant of the portal's shortcut.                                 *)
(***************************************************************************)
Calls ==
    [kind : {"get", "create", "bind", "closeRequest", "closeSession"},
     id : Nat, session : Nat]

Requests(call) == call.kind \in {"create", "bind"}

OpenRequests == {c \in Calls : Requests(c)}

Answers ==
    [kind : {"reply", "response", "owner", "closed"}, id : Nat, ok : BOOLEAN]

PortalTypeOK ==
    /\ phase \in Portal!Phases
    /\ generation \in Nat
    /\ request \in 0..generation /\ session \in 0..generation
    /\ calls \in Seq(Calls)
    /\ answers \in Seq(Answers)
    /\ portal \in [open : SUBSET OpenRequests, sessions : SUBSET Nat, bound : SUBSET Nat]

\* request_ and session_ follow the phase.
PathsOfPhase ==
    /\ request # 0 <=> phase \in {"create", "bind"}
    /\ session # 0 <=> phase \in {"create", "bind", "registered"}

\* No path of a later generation exists yet.
PathsAreOld ==
    /\ \A i \in 1..Len(calls) :
          /\ calls[i].id <= generation /\ calls[i].session <= generation
          /\ Requests(calls[i]) => calls[i].id # 0 /\ calls[i].session # 0
          /\ calls[i].kind = "closeSession" => calls[i].session # 0
    /\ \A i \in 1..Len(answers) : answers[i].kind = "response" => answers[i].id <= generation
    /\ \A r \in portal.open : r.id \in 1..generation /\ r.session \in 1..generation
    /\ 0 \notin portal.sessions

IsCurrentRequest(call) == call.kind = phase /\ call.session = session

\* What is known under the current paths is the current request.
CurrentRequestKnown ==
    /\ \A i \in 1..Len(calls) :
          Requests(calls[i]) /\ calls[i].id = request => IsCurrentRequest(calls[i])
    /\ \A r \in portal.open : r.id = request => IsCurrentRequest(r)
    /\ \A i \in 1..Len(calls) : calls[i].kind = "closeSession" => calls[i].session # session

Approved == Portal!Answer("response", request, TRUE)

\* Once the user has approved, the session is bound unless it has ended.
SessionIsBound ==
    \/ phase = "registered"
    \/ phase = "bind" /\ \E i \in 1..Len(answers) : answers[i] = Approved
    => session \in portal.bound \/ Portal!Ending(session)

\* A request is a call, open or answered, and each only once.
RequestsOnce ==
    /\ \A i, j \in 1..Len(calls) :
          Requests(calls[i]) /\ Requests(calls[j]) /\ calls[i].id = calls[j].id => i = j
    /\ \A r, q \in portal.open : r.id = q.id => r = q
    /\ \A i \in 1..Len(calls), r \in portal.open : Requests(calls[i]) => calls[i].id # r.id
    /\ \A k \in 1..Len(answers) : answers[k].kind = "response" =>
          /\ \A i \in 1..Len(calls) : Requests(calls[i]) => calls[i].id # answers[k].id
          /\ \A r \in portal.open : r.id # answers[k].id

ClosesRequest(i, id) == \E j \in i..Len(calls) : calls[j] = Portal!Call("closeRequest", id, 0)
ClosesSession(i, s)  == \E j \in i..Len(calls) : calls[j] = Portal!Call("closeSession", 0, s)

\* What is no longer current will be closed, after it was created.
OldOnesClosed ==
    /\ \A i \in 1..Len(calls) : Requests(calls[i]) =>
          /\ calls[i].id = request \/ ClosesRequest(i + 1, calls[i].id)
          /\ calls[i].session = session \/ ClosesSession(i + 1, calls[i].session)
    /\ \A r \in portal.open : r.id = request \/ ClosesRequest(1, r.id)
    /\ \A s \in portal.sessions : s = session \/ ClosesSession(1, s)

PortalInv ==
    /\ PortalTypeOK
    /\ PathsOfPhase
    /\ PathsAreOld
    /\ CurrentRequestKnown
    /\ SessionIsBound
    /\ RequestsOnce
    /\ OldOnesClosed

CloseRequest(id) == Portal!Call("closeRequest", id, 0)
CloseSession(s)  == Portal!Call("closeSession", 0, s)

LEMMA PortalInitInv == Init => PortalInv
<1> SUFFICES ASSUME Init PROVE PortalInv
  OBVIOUS
<1>1. /\ phase = "idle" /\ generation = 0 /\ request = 0 /\ session = 0
      /\ calls = <<>> /\ answers = <<>>
      /\ portal = [open |-> {}, sessions |-> {}, bound |-> {}]
  BY DEF Init, Portal!Init, Portal!NoPortal
<1>2. /\ calls \in Seq(Calls) /\ answers \in Seq(Answers)
      /\ \A i \in 1..Len(calls) : FALSE
      /\ \A i \in 1..Len(answers) : FALSE
  BY <1>1, EmptySeq
<1>3. PortalTypeOK /\ PathsOfPhase
  BY <1>1, <1>2 DEF PortalTypeOK, PathsOfPhase, Portal!Phases
<1>4. PathsAreOld /\ CurrentRequestKnown /\ SessionIsBound
  BY <1>1, <1>2 DEF PathsAreOld, CurrentRequestKnown, SessionIsBound
<1>5. RequestsOnce /\ OldOnesClosed
  BY <1>1, <1>2 DEF RequestsOnce, OldOnesClosed
<1>6. QED
  BY <1>3, <1>4, <1>5 DEF PortalInv

LEMMA QueuedCalls ==
  ASSUME PortalTypeOK
  PROVE  /\ calls \in Seq(Calls) /\ Len(calls) \in Nat
         /\ answers \in Seq(Answers) /\ Len(answers) \in Nat
         /\ \A i \in 1..Len(calls) :
               calls[i] \in Calls /\ calls[i].id \in Nat /\ calls[i].session \in Nat
         /\ \A i \in 1..Len(answers) : answers[i] \in Answers /\ answers[i].id \in Nat
         /\ \A r \in portal.open :
               r \in Calls /\ Requests(r) /\ r.id \in Nat /\ r.session \in Nat
         /\ generation \in Nat /\ request \in Nat /\ session \in Nat
         /\ request <= generation /\ session <= generation
<1>1. calls \in Seq(Calls) /\ answers \in Seq(Answers)
  BY DEF PortalTypeOK
<1>2. /\ \A i \in 1..Len(calls) : calls[i] \in Calls
      /\ \A i \in 1..Len(answers) : answers[i] \in Answers
  BY <1>1, ElementOfSeq
<1>3. Len(calls) \in Nat /\ Len(answers) \in Nat
  BY <1>1, LenProperties
<1>4. portal.open \subseteq OpenRequests
  BY DEF PortalTypeOK
<1>5. \A c \in Calls : c.id \in Nat /\ c.session \in Nat
  BY DEF Calls
<1>6. \A a \in Answers : a.id \in Nat
  BY DEF Answers
<1>7. generation \in Nat /\ request \in 0..generation /\ session \in 0..generation
  BY DEF PortalTypeOK
<1>8. QED
  BY <1>1, <1>2, <1>3, <1>4, <1>5, <1>6, <1>7 DEF OpenRequests

-----------------------------------------------------------------------------
(***************************************************************************)
(* The steps of the program.                                               *)
(***************************************************************************)

\* Answers were taken from the queue, or none.
FewerAnswers ==
    /\ answers' \in Seq(Answers)
    /\ \A i \in 1..Len(answers') : \E k \in 1..Len(answers) : answers'[i] = answers[k]

\* The calls that are added, c, close what was current.
Gets == {c \in Calls : c.kind = "get" /\ c.id = generation + 1 /\ c.session = 0}

Closes(c) ==
    /\ c \in Seq(Calls) /\ Len(c) \in Nat /\ Len(calls) <= Len(c)
    /\ \A i \in 1..Len(calls) : c[i] = calls[i]
    /\ \A i \in (Len(calls) + 1)..Len(c) :
          \/ request # 0 /\ c[i] = CloseRequest(request)
          \/ session # 0 /\ c[i] = CloseSession(session)
          \/ c[i] \in Gets
    /\ request # 0 => \E i \in (Len(calls) + 1)..Len(c) : c[i] = CloseRequest(request)
    /\ session # 0 => \E i \in (Len(calls) + 1)..Len(c) : c[i] = CloseSession(session)

LEMMA ClosingCalls ==
  ASSUME PortalTypeOK
  PROVE  Closes(calls \o Portal!Closing)
<1> DEFINE A == IF request # 0 THEN <<CloseRequest(request)>> ELSE <<>>
           B == IF session # 0 THEN <<CloseSession(session)>> ELSE <<>>
           K == A \o B
           c == calls \o K
<1>1. Portal!Closing = K
  BY DEF Portal!Closing, CloseRequest, CloseSession
<1>2. /\ calls \in Seq(Calls) /\ Len(calls) \in Nat /\ request \in Nat /\ session \in Nat
  BY QueuedCalls
<1>3. CloseRequest(request) \in Calls /\ CloseSession(session) \in Calls
  BY <1>2 DEF CloseRequest, CloseSession, Portal!Call, Calls
<1>4. /\ A \in Seq(Calls) /\ Len(A) = (IF request # 0 THEN 1 ELSE 0)
      /\ request # 0 => A[1] = CloseRequest(request)
  BY <1>3
<1>5. /\ B \in Seq(Calls) /\ Len(B) = (IF session # 0 THEN 1 ELSE 0)
      /\ session # 0 => B[1] = CloseSession(session)
  BY <1>3
<1> HIDE DEF A, B
<1>6. /\ K \in Seq(Calls) /\ Len(K) = Len(A) + Len(B)
      /\ \A i \in 1..(Len(A) + Len(B)) : K[i] = IF i <= Len(A) THEN A[i] ELSE B[i - Len(A)]
  BY <1>4, <1>5, ConcatProperties
<1> HIDE DEF K
<1>7. /\ Len(K) \in Nat
      /\ \A i \in 1..Len(K) : \/ request # 0 /\ K[i] = CloseRequest(request)
                              \/ session # 0 /\ K[i] = CloseSession(session)
  BY <1>4, <1>5, <1>6
<1>8. request # 0 => 1 \in 1..Len(K) /\ K[1] = CloseRequest(request)
  BY <1>4, <1>5, <1>6
<1>9. session # 0 => Len(K) \in 1..Len(K) /\ K[Len(K)] = CloseSession(session)
  BY <1>4, <1>5, <1>6
<1>10. /\ c \in Seq(Calls) /\ Len(c) = Len(calls) + Len(K)
       /\ \A i \in 1..(Len(calls) + Len(K)) :
             c[i] = IF i <= Len(calls) THEN calls[i] ELSE K[i - Len(calls)]
  <2>1. calls \in Seq(Calls) /\ K \in Seq(Calls)
    BY <1>2, <1>6
  <2>2. QED
    BY <2>1, ConcatProperties
<1> HIDE DEF c
<1>11. /\ \A i \in 1..Len(calls) : c[i] = calls[i]
       /\ \A i \in (Len(calls) + 1)..Len(c) :
             i - Len(calls) \in 1..Len(K) /\ c[i] = K[i - Len(calls)]
       /\ \A i \in 1..Len(K) :
             i + Len(calls) \in (Len(calls) + 1)..Len(c) /\ c[i + Len(calls)] = K[i]
  BY <1>2, <1>7, <1>10
<1>12. \A i \in (Len(calls) + 1)..Len(c) :
          \/ request # 0 /\ c[i] = CloseRequest(request)
          \/ session # 0 /\ c[i] = CloseSession(session)
  BY <1>7, <1>11
<1>13. Len(c) \in Nat /\ Len(calls) <= Len(c)
  BY <1>2, <1>7, <1>10
<1>14. Closes(c)
  BY <1>8, <1>9, <1>10, <1>11, <1>12, <1>13 DEF Closes
<1>15. QED
  BY <1>1, <1>14 DEF c

LEMMA ProbeCalls ==
  ASSUME PortalTypeOK
  PROVE  Closes(Append(calls \o Portal!Closing, Portal!Call("get", generation + 1, 0)))
<1> DEFINE c == calls \o Portal!Closing
           get == Portal!Call("get", generation + 1, 0)
           d == Append(c, get)
<1>1. Closes(c)
  BY ClosingCalls
<1>2. get \in Gets /\ get \in Calls
  BY QueuedCalls DEF Gets, Portal!Call, Calls
<1>3. Len(calls) \in Nat
  BY QueuedCalls
<1> HIDE DEF c, get
<1>4. c \in Seq(Calls)
  BY <1>1 DEF Closes
<1>5. /\ d \in Seq(Calls) /\ Len(c) \in Nat /\ Len(d) = Len(c) + 1 /\ d[Len(c) + 1] = get
      /\ \A i \in 1..Len(c) : d[i] = c[i]
  BY <1>2, <1>4, Appended
<1> HIDE DEF d
<1>6. /\ Len(calls) <= Len(d)
      /\ \A i \in 1..Len(calls) : d[i] = calls[i]
  BY <1>1, <1>3, <1>5 DEF Closes
<1>7. \A i \in (Len(calls) + 1)..Len(d) : i \in (Len(calls) + 1)..Len(c) \/ d[i] = get
  BY <1>3, <1>5
<1>8. \A i \in (Len(calls) + 1)..Len(c) : i \in (Len(calls) + 1)..Len(d) /\ d[i] = c[i]
  BY <1>3, <1>5
<1>9. \A i \in (Len(calls) + 1)..Len(d) :
          \/ request # 0 /\ d[i] = CloseRequest(request)
          \/ session # 0 /\ d[i] = CloseSession(session)
          \/ d[i] \in Gets
  BY <1>1, <1>2, <1>7, <1>8 DEF Closes
<1>10. /\ request # 0 => \E i \in (Len(calls) + 1)..Len(d) : d[i] = CloseRequest(request)
       /\ session # 0 => \E i \in (Len(calls) + 1)..Len(d) : d[i] = CloseSession(session)
  BY <1>1, <1>8 DEF Closes
<1>11. Len(d) \in Nat
  BY <1>5
<1>12. Closes(d)
  BY <1>5, <1>6, <1>9, <1>10, <1>11 DEF Closes
<1>13. QED
  BY <1>12 DEF d, c, get

\* close(), and probe() which begins with it.
LEMMA ClosingKeeps ==
  ASSUME PortalInv, Closes(calls'), generation' = generation + 1,
         request' = 0, session' = 0, phase' \in {"idle", "probe"},
         UNCHANGED portal, FewerAnswers
  PROVE  PortalInv'
<1> USE DEF PortalInv
<1>1. /\ calls \in Seq(Calls) /\ Len(calls) \in Nat
      /\ \A i \in 1..Len(calls) :
            calls[i] \in Calls /\ calls[i].id \in Nat /\ calls[i].session \in Nat
      /\ \A i \in 1..Len(answers) : answers[i] \in Answers /\ answers[i].id \in Nat
      /\ \A r \in portal.open :
            r \in Calls /\ Requests(r) /\ r.id \in Nat /\ r.session \in Nat
      /\ generation \in Nat /\ request \in Nat /\ session \in Nat
      /\ request <= generation /\ session <= generation
  BY QueuedCalls
<1>2. /\ calls' \in Seq(Calls) /\ Len(calls') \in Nat /\ Len(calls) <= Len(calls')
      /\ \A i \in 1..Len(calls) : i \in 1..Len(calls') /\ calls'[i] = calls[i]
  BY <1>1 DEF Closes
<1>3. ASSUME NEW i \in 1..Len(calls'), i \notin 1..Len(calls)
      PROVE  /\ ~Requests(calls'[i])
             /\ calls'[i].id <= generation' /\ calls'[i].session <= generation'
             /\ calls'[i].kind = "closeSession" => calls'[i].session # 0
  <2>1. i \in (Len(calls) + 1)..Len(calls')
    BY <1>1, <1>2, <1>3
  <2>2. \/ request # 0 /\ calls'[i] = CloseRequest(request)
        \/ session # 0 /\ calls'[i] = CloseSession(session)
        \/ calls'[i] \in Gets
    BY <2>1 DEF Closes
  <2>3. QED
    BY <1>1, <2>2 DEF CloseRequest, CloseSession, Portal!Call, Gets, Requests
<1>4. \A i \in 1..Len(calls') : Requests(calls'[i]) =>
         i \in 1..Len(calls) /\ calls'[i] = calls[i]
  BY <1>2, <1>3
<1>5. PortalTypeOK'
  BY <1>1, <1>2 DEF PortalTypeOK, FewerAnswers, Portal!Phases
<1>6. PathsOfPhase'
  BY DEF PathsOfPhase
<1>7. PathsAreOld'
  <2>1. ASSUME NEW i \in 1..Len(calls')
        PROVE  /\ calls'[i].id <= generation' /\ calls'[i].session <= generation'
               /\ Requests(calls'[i]) => calls'[i].id # 0 /\ calls'[i].session # 0
               /\ calls'[i].kind = "closeSession" => calls'[i].session # 0
    <3>1. CASE i \in 1..Len(calls)
      BY <1>1, <1>2, <3>1 DEF PathsAreOld
    <3>2. CASE i \notin 1..Len(calls)
      BY <1>3, <3>2
    <3>3. QED
      BY <3>1, <3>2
  <2>2. \A i \in 1..Len(answers') :
           answers'[i].kind = "response" => answers'[i].id <= generation'
    BY <1>1 DEF FewerAnswers, PathsAreOld
  <2>3. \A r \in portal'.open : r.id \in 1..generation' /\ r.session \in 1..generation'
    BY <1>1 DEF PathsAreOld
  <2>4. 0 \notin portal'.sessions
    BY DEF PathsAreOld
  <2>5. QED
    BY <2>1, <2>2, <2>3, <2>4 DEF PathsAreOld, Requests
<1>8. CurrentRequestKnown'
  BY <1>7 DEF CurrentRequestKnown, PathsAreOld, Requests
<1>9. SessionIsBound'
  BY DEF SessionIsBound
<1>10. RequestsOnce'
  <2>1. /\ \A i, j \in 1..Len(calls') :
              Requests(calls'[i]) /\ Requests(calls'[j]) /\ calls'[i].id = calls'[j].id => i = j
        /\ \A r, q \in portal'.open : r.id = q.id => r = q
        /\ \A i \in 1..Len(calls'), r \in portal'.open :
              Requests(calls'[i]) => calls'[i].id # r.id
    BY <1>4 DEF RequestsOnce
  <2>2. ASSUME NEW k \in 1..Len(answers'), answers'[k].kind = "response"
        PROVE  /\ \A i \in 1..Len(calls') : Requests(calls'[i]) => calls'[i].id # answers'[k].id
               /\ \A r \in portal'.open : r.id # answers'[k].id
    <3>1. PICK m \in 1..Len(answers) : answers'[k] = answers[m]
      BY DEF FewerAnswers
    <3>2. QED
      BY <1>4, <2>2, <3>1 DEF RequestsOnce
  <2>3. QED
    BY <2>1, <2>2 DEF RequestsOnce, Requests
<1>11. ASSUME NEW id, NEW i \in 1..(Len(calls) + 1)
       PROVE  /\ (id # 0 /\ id = request) \/ ClosesRequest(i, id) => ClosesRequest(i, id)'
              /\ (id # 0 /\ id = session) \/ ClosesSession(i, id) => ClosesSession(i, id)'
  <2>1. \A j \in (Len(calls) + 1)..Len(calls') : j \in i..Len(calls')
    BY <1>1, <1>2
  <2>2. \A j \in i..Len(calls) : j \in i..Len(calls') /\ calls'[j] = calls[j]
    BY <1>1, <1>2
  <2>3. QED
    BY <2>1, <2>2 DEF Closes, ClosesRequest, ClosesSession, CloseRequest, CloseSession
<1>12. OldOnesClosed'
  <2>1. ASSUME NEW i \in 1..Len(calls'), Requests(calls'[i])
        PROVE  ClosesRequest(i + 1, calls[i].id)' /\ ClosesSession(i + 1, calls[i].session)'
    <3>1. i \in 1..Len(calls) /\ calls'[i] = calls[i]
      BY <1>4, <2>1
    <3>2. i + 1 \in 1..(Len(calls) + 1)
      BY <1>1, <3>1
    <3>3. calls[i].id # 0 /\ calls[i].session # 0
      BY <2>1, <3>1 DEF PathsAreOld
    <3>4. /\ calls[i].id = request \/ ClosesRequest(i + 1, calls[i].id)
          /\ calls[i].session = session \/ ClosesSession(i + 1, calls[i].session)
      BY <2>1, <3>1 DEF OldOnesClosed
    <3>5. QED
      BY <1>11, <3>1, <3>2, <3>3, <3>4
  <2>2. QED
    BY <1>1, <1>11, <2>1 DEF OldOnesClosed, PathsAreOld, Requests
<1>13. QED
  BY <1>5, <1>6, <1>7, <1>8, <1>9, <1>10, <1>12

\* request_ is answered: nothing else is known under its path.
Gone ==
    /\ \A i \in 1..Len(calls) : Requests(calls[i]) => calls[i].id # request
    /\ \A r \in portal.open : r.id # request

LEMMA AnsweredIsGone ==
  ASSUME PortalInv, NEW k \in 1..Len(answers), answers[k].kind = "response",
         answers[k].id = request
  PROVE  Gone
BY DEF PortalInv, RequestsOnce, Gone

LEMMA NoneIsGone == ASSUME PortalInv, request = 0 PROVE Gone
BY QueuedCalls DEF PortalInv, PathsAreOld, Gone

LEMMA OnceKept ==
  ASSUME PortalInv, FewerAnswers, UNCHANGED <<calls, portal>>
  PROVE  RequestsOnce'
<1>1. RequestsOnce
  BY DEF PortalInv
<1>2. ASSUME NEW k \in 1..Len(answers'), answers'[k].kind = "response"
      PROVE  /\ \A i \in 1..Len(calls) : Requests(calls[i]) => calls[i].id # answers'[k].id
             /\ \A r \in portal.open : r.id # answers'[k].id
  <2>1. PICK m \in 1..Len(answers) : answers'[k] = answers[m]
    BY DEF FewerAnswers
  <2>2. QED
    BY <1>1, <1>2, <2>1 DEF RequestsOnce
<1>3. QED
  BY <1>1, <1>2 DEF RequestsOnce, Requests

\* A request is sent, for a new session or the current one.
LEMMA SendKeeps ==
  ASSUME PortalInv, NEW kind \in {"create", "bind"}, NEW of,
         Portal!SendRequest(kind, of), phase' = kind, UNCHANGED portal, FewerAnswers,
         Gone,
         \/ of = session /\ session # 0
         \/ of = generation + 1 /\ session = 0
  PROVE  PortalInv'
<1> USE DEF PortalInv
<1>1. /\ calls \in Seq(Calls) /\ Len(calls) \in Nat
      /\ \A i \in 1..Len(calls) :
            calls[i] \in Calls /\ calls[i].id \in Nat /\ calls[i].session \in Nat
      /\ \A i \in 1..Len(answers) : answers[i] \in Answers /\ answers[i].id \in Nat
      /\ \A r \in portal.open :
            r \in Calls /\ Requests(r) /\ r.id \in Nat /\ r.session \in Nat
      /\ generation \in Nat /\ request \in Nat /\ session \in Nat
      /\ request <= generation /\ session <= generation
  BY QueuedCalls
<1> DEFINE call == Portal!Call(kind, generation + 1, of)
<1>2. /\ generation' = generation + 1 /\ request' = generation + 1 /\ session' = of
      /\ calls' = Append(calls, call)
  BY DEF Portal!SendRequest
<1>3. /\ of \in Nat /\ of # 0 /\ of <= generation + 1
  BY <1>1
<1>4. /\ call \in Calls /\ call.kind = kind /\ call.id = generation + 1 /\ call.session = of
      /\ Requests(call)
  BY <1>1, <1>3 DEF Portal!Call, Calls, Requests
<1> HIDE DEF call
<1>5. /\ calls' \in Seq(Calls) /\ Len(calls') = Len(calls) + 1
      /\ calls'[Len(calls) + 1] = call
      /\ \A i \in 1..Len(calls) : i \in 1..Len(calls') /\ calls'[i] = calls[i]
  BY <1>1, <1>2, <1>4, Appended
<1>6. \A i \in 1..Len(calls') :
         \/ i \in 1..Len(calls) /\ calls'[i] = calls[i]
         \/ i = Len(calls) + 1 /\ calls'[i] = call
  <2>1. \A i \in 1..Len(calls') : i \in 1..Len(calls) \/ i = Len(calls) + 1
    BY <1>1, <1>5
  <2>2. QED
    BY <1>5, <2>1
<1>7. PortalTypeOK'
  <2>1. generation' \in Nat /\ request' \in 0..generation' /\ session' \in 0..generation'
    BY <1>1, <1>2, <1>3
  <2>2. QED
    BY <1>5, <2>1 DEF PortalTypeOK, FewerAnswers, Portal!Phases
<1>8. PathsOfPhase'
  BY <1>1, <1>2, <1>3 DEF PathsOfPhase
<1>9. \A i \in 1..Len(calls) : calls[i].id <= generation /\ calls[i].session <= generation
  BY DEF PathsAreOld
<1>10. PathsAreOld'
  <2>1. ASSUME NEW i \in 1..Len(calls')
        PROVE  /\ calls'[i].id <= generation' /\ calls'[i].session <= generation'
               /\ Requests(calls'[i]) => calls'[i].id # 0 /\ calls'[i].session # 0
               /\ calls'[i].kind = "closeSession" => calls'[i].session # 0
    <3>1. CASE i \in 1..Len(calls) /\ calls'[i] = calls[i]
      BY <1>1, <1>2, <1>9, <3>1 DEF PathsAreOld
    <3>2. CASE calls'[i] = call
      BY <1>1, <1>2, <1>3, <1>4, <3>2
    <3>3. QED
      BY <1>6, <3>1, <3>2
  <2>2. \A i \in 1..Len(answers') :
           answers'[i].kind = "response" => answers'[i].id <= generation'
    BY <1>1, <1>2 DEF FewerAnswers, PathsAreOld
  <2>3. \A r \in portal'.open : r.id \in 1..generation' /\ r.session \in 1..generation'
    BY <1>1, <1>2 DEF PathsAreOld
  <2>4. 0 \notin portal'.sessions
    BY DEF PathsAreOld
  <2>5. QED
    BY <2>1, <2>2, <2>3, <2>4 DEF PathsAreOld, Requests
<1>11. CurrentRequestKnown'
  <2>1. ASSUME NEW i \in 1..Len(calls'), calls'[i].id = request'
        PROVE  calls'[i] = call
    BY <1>1, <1>2, <1>6, <1>9, <2>1
  <2>2. call.kind = phase' /\ call.session = session'
    BY <1>2, <1>4
  <2>3. \A r \in portal'.open : r.id # request'
    BY <1>1, <1>2 DEF PathsAreOld
  <2>4. ASSUME NEW i \in 1..Len(calls'), calls'[i].kind = "closeSession"
        PROVE  calls'[i].session # session'
    <3>1. i \in 1..Len(calls) /\ calls'[i] = calls[i]
      BY <1>4, <1>6, <2>4
    <3>2. calls[i].session # session /\ calls[i].session <= generation
      BY <1>9, <2>4, <3>1 DEF CurrentRequestKnown
    <3>3. QED
      BY <1>1, <1>2, <3>1, <3>2
  <2>5. QED
    BY <2>1, <2>2, <2>3, <2>4 DEF CurrentRequestKnown, IsCurrentRequest, Requests
<1>12. SessionIsBound'
  <2>1. \A i \in 1..Len(answers') :
           answers'[i].kind = "response" => answers'[i].id # request'
    <3>1. \A i \in 1..Len(answers) :
             answers[i].kind = "response" => answers[i].id # generation + 1
      BY <1>1 DEF PathsAreOld
    <3>2. QED
      BY <1>2, <3>1 DEF FewerAnswers
  <2>2. Approved'.kind = "response" /\ Approved'.id = request'
    BY DEF Approved, Portal!Answer
  <2>3. phase' # "registered"
    OBVIOUS
  <2>4. QED
    BY <2>1, <2>2, <2>3 DEF SessionIsBound
<1>13. RequestsOnce'
  <2>1. ASSUME NEW i \in 1..Len(calls'), NEW j \in 1..Len(calls'),
               Requests(calls'[i]), Requests(calls'[j]), calls'[i].id = calls'[j].id
        PROVE  i = j
    <3>1. \A k \in 1..Len(calls) : calls[k].id # call.id
      BY <1>1, <1>4, <1>9
    <3>2. CASE i \in 1..Len(calls) /\ calls'[i] = calls[i]
      <4>1. j \in 1..Len(calls) /\ calls'[j] = calls[j]
        BY <1>6, <2>1, <3>1, <3>2
      <4>2. QED
        BY <2>1, <3>2, <4>1 DEF RequestsOnce
    <3>3. CASE i = Len(calls) + 1 /\ calls'[i] = call
      <4>1. j = Len(calls) + 1
        BY <1>6, <2>1, <3>1, <3>3
      <4>2. QED
        BY <3>3, <4>1
    <3>4. QED
      BY <1>6, <3>2, <3>3
  <2>2. ASSUME NEW i \in 1..Len(calls'), NEW r \in portal.open, Requests(calls'[i])
        PROVE  calls'[i].id # r.id
    BY <1>1, <1>4, <1>6, <2>2 DEF RequestsOnce, PathsAreOld
  <2>3. ASSUME NEW k \in 1..Len(answers'), answers'[k].kind = "response"
        PROVE  /\ \A i \in 1..Len(calls') : Requests(calls'[i]) => calls'[i].id # answers'[k].id
               /\ \A r \in portal.open : r.id # answers'[k].id
    <3>1. PICK m \in 1..Len(answers) : answers'[k] = answers[m]
      BY DEF FewerAnswers
    <3>2. answers[m].id <= generation /\ answers[m].id \in Nat
      BY <1>1, <2>3, <3>1 DEF PathsAreOld
    <3>3. call.id # answers'[k].id
      BY <1>1, <1>4, <3>1, <3>2
    <3>4. /\ \A i \in 1..Len(calls) : Requests(calls[i]) => calls[i].id # answers'[k].id
          /\ \A r \in portal.open : r.id # answers'[k].id
      BY <2>3, <3>1 DEF RequestsOnce
    <3>5. QED
      BY <1>6, <3>3, <3>4
  <2>4. QED
    BY <2>1, <2>2, <2>3 DEF RequestsOnce, Requests
<1>14. ASSUME NEW id, NEW i \in Nat \ {0}
       PROVE  /\ ClosesRequest(i, id) => ClosesRequest(i, id)'
              /\ ClosesSession(i, id) => ClosesSession(i, id)'
  <2>1. \A j \in i..Len(calls) : j \in i..Len(calls') /\ calls'[j] = calls[j]
    BY <1>1, <1>5
  <2>2. QED
    BY <2>1 DEF ClosesRequest, ClosesSession
<1>15. OldOnesClosed'
  <2>1. ASSUME NEW i \in 1..Len(calls'), Requests(calls'[i])
        PROVE  /\ calls'[i].id = request' \/ ClosesRequest(i + 1, calls[i].id)'
               /\ calls'[i].session = session' \/ ClosesSession(i + 1, calls[i].session)'
    <3>1. CASE i \in 1..Len(calls) /\ calls'[i] = calls[i]
      <4>1. /\ calls[i].id # request /\ calls[i].session # 0 /\ i + 1 \in Nat \ {0}
            /\ ClosesRequest(i + 1, calls[i].id)
            /\ calls[i].session = session \/ ClosesSession(i + 1, calls[i].session)
        BY <2>1, <3>1 DEF Gone, OldOnesClosed, PathsAreOld
      <4>2. QED
        BY <1>2, <1>14, <3>1, <4>1
    <3>2. CASE calls'[i] = call
      BY <1>2, <1>4, <3>2
    <3>3. QED
      BY <1>6, <3>1, <3>2
  <2>2. \A r \in portal.open : ClosesRequest(1, r.id)'
    BY <1>14 DEF Gone, OldOnesClosed
  <2>3. ASSUME NEW s \in portal.sessions PROVE s = session' \/ ClosesSession(1, s)'
    <3>1. s # 0 /\ (s = session \/ ClosesSession(1, s))
      BY DEF PathsAreOld, OldOnesClosed
    <3>2. QED
      BY <1>2, <1>14, <3>1
  <2>4. QED
    BY <2>1, <2>2, <2>3 DEF OldOnesClosed, Requests
<1>16. QED
  BY <1>7, <1>8, <1>10, <1>11, <1>12, <1>13, <1>15

\* The session is bound: the request is done.
LEMMA BoundKeeps ==
  ASSUME PortalInv, Portal!Bound, phase = "bind", UNCHANGED portal, FewerAnswers, Gone,
         SessionIsBound'
  PROVE  PortalInv'
<1> USE DEF PortalInv
<1>1. /\ phase' = "registered" /\ generation' = generation + 1 /\ request' = 0
      /\ UNCHANGED <<session, calls, portal>>
  BY DEF Portal!Bound
<1>2. /\ Len(calls) \in Nat
      /\ \A i \in 1..Len(calls) : calls[i].id \in Nat /\ calls[i].session \in Nat
      /\ \A i \in 1..Len(answers) : answers[i].id \in Nat
      /\ \A r \in portal.open : r.id \in Nat /\ r.session \in Nat
      /\ generation \in Nat /\ session \in Nat /\ session <= generation
  BY QueuedCalls
<1>3. PortalTypeOK'
  <2>1. generation' \in Nat /\ request' \in 0..generation' /\ session' \in 0..generation'
    BY <1>1, <1>2
  <2>2. QED
    BY <1>1, <2>1 DEF PortalTypeOK, FewerAnswers, Portal!Phases
<1>4. PathsOfPhase'
  BY <1>1 DEF PathsOfPhase
<1>5. PathsAreOld'
  <2>1. ASSUME NEW i \in 1..Len(calls)
        PROVE  calls[i].id <= generation' /\ calls[i].session <= generation'
    BY <1>1, <1>2 DEF PathsAreOld
  <2>2. \A i \in 1..Len(answers') :
           answers'[i].kind = "response" => answers'[i].id <= generation'
    BY <1>1, <1>2 DEF FewerAnswers, PathsAreOld
  <2>3. \A r \in portal.open : r.id \in 1..generation' /\ r.session \in 1..generation'
    BY <1>1, <1>2 DEF PathsAreOld
  <2>4. QED
    BY <1>1, <2>1, <2>2, <2>3 DEF PathsAreOld, Requests
<1>6. CurrentRequestKnown'
  <2>1. \A i \in 1..Len(calls) : Requests(calls[i]) => calls[i].id # 0
    BY DEF PathsAreOld
  <2>2. \A r \in portal.open : r.id # 0
    BY <1>2 DEF PathsAreOld
  <2>3. QED
    BY <1>1, <2>1, <2>2 DEF CurrentRequestKnown, Requests
<1>7. RequestsOnce'
  BY <1>1, OnceKept
<1>8. OldOnesClosed'
  BY <1>1 DEF OldOnesClosed, Gone, ClosesRequest, ClosesSession, Requests
<1>9. QED
  BY <1>3, <1>4, <1>5, <1>6, <1>7, <1>8

\* A start ends with its probe, or an answer changes nothing else.
LEMMA SettleKeeps ==
  ASSUME PortalInv, UNCHANGED <<generation, request, session, calls, portal>>,
         phase' = phase \/ (phase = "probe" /\ phase' = "idle"),
         FewerAnswers, SessionIsBound'
  PROVE  PortalInv'
<1> USE DEF PortalInv
<1>1. PortalTypeOK' /\ PathsOfPhase'
  BY DEF PortalTypeOK, PathsOfPhase, FewerAnswers, Portal!Phases
<1>2. PathsAreOld'
  BY DEF PathsAreOld, FewerAnswers, Requests
<1>3. CurrentRequestKnown'
  <2>1. CASE phase' = phase
    BY <2>1 DEF CurrentRequestKnown, IsCurrentRequest, Requests
  <2>2. CASE phase = "probe"
    <3>1. request = 0
      BY <2>2 DEF PathsOfPhase
    <3>2. \A i \in 1..Len(calls) : Requests(calls[i]) => calls[i].id # 0
      BY DEF PathsAreOld
    <3>3. \A r \in portal.open : r.id # 0
      BY DEF PathsAreOld
    <3>4. QED
      BY <3>1, <3>2, <3>3 DEF CurrentRequestKnown, Requests
  <2>3. QED
    BY <2>1, <2>2
<1>4. RequestsOnce'
  BY OnceKept
<1>5. OldOnesClosed'
  BY DEF OldOnesClosed, ClosesRequest, ClosesSession, Requests
<1>6. QED
  BY <1>1, <1>2, <1>3, <1>4, <1>5

\* The news of the end of a session are still on their way.
EndingKept ==
    \A i \in 1..Len(answers) : answers[i].kind \in {"owner", "closed"} =>
        \E k \in 1..Len(answers') : answers'[k] = answers[i]

LEMMA BoundStays ==
  ASSUME SessionIsBound, EndingKept, FewerAnswers, UNCHANGED <<request, session, portal>>,
         phase' = phase \/ phase' = "idle"
  PROVE  SessionIsBound'
<1> SUFFICES ASSUME phase' = phase,
                    phase = "registered"
                    \/ (phase = "bind" /\ \E i \in 1..Len(answers') : answers'[i] = Approved')
             PROVE  session \in portal.bound \/ Portal!Ending(session)'
  BY DEF SessionIsBound
<1>1. Approved' = Approved
  BY DEF Approved
<1>2. (\E i \in 1..Len(answers') : answers'[i] = Approved')
        => (\E i \in 1..Len(answers) : answers[i] = Approved)
  BY <1>1 DEF FewerAnswers
<1>3. session \in portal.bound \/ Portal!Ending(session)
  BY <1>2 DEF SessionIsBound
<1>4. CASE Portal!Ending(session)
  <2>1. PICK i \in 1..Len(answers) :
          \/ answers[i].kind = "owner"
          \/ answers[i].kind = "closed" /\ answers[i].id = session
    BY <1>4 DEF Portal!Ending
  <2>2. PICK k \in 1..Len(answers') : answers'[k] = answers[i]
    BY <2>1 DEF EndingKept
  <2>3. QED
    BY <2>1, <2>2 DEF Portal!Ending
<1>5. QED
  BY <1>3, <1>4

LEMMA NoAnswersTaken ==
  ASSUME PortalInv, UNCHANGED answers PROVE FewerAnswers /\ EndingKept
BY QueuedCalls DEF PortalInv, FewerAnswers, EndingKept

LEMMA AnswerTaken ==
  ASSUME PortalInv, answers # <<>>, answers' = Tail(answers)
  PROVE  /\ FewerAnswers /\ Len(answers) \in Nat /\ 1 \in 1..Len(answers)
         /\ Head(answers) = answers[1] /\ Head(answers) \in Answers
         /\ Head(answers).kind \notin {"owner", "closed"} => EndingKept
<1>1. answers \in Seq(Answers)
  BY QueuedCalls DEF PortalInv
<1>2. /\ answers' \in Seq(Answers) /\ Len(answers) \in Nat \ {0}
      /\ Len(answers') = Len(answers) - 1
      /\ Head(answers) = answers[1] /\ Head(answers) \in Answers
      /\ \A i \in 1..Len(answers') : answers'[i] = answers[i + 1]
  BY <1>1, Tailed
<1>3. FewerAnswers
  <2>1. \A i \in 1..Len(answers') : i + 1 \in 1..Len(answers)
    BY <1>2
  <2>2. QED
    BY <1>2, <2>1 DEF FewerAnswers
<1>4. ASSUME Head(answers).kind \notin {"owner", "closed"} PROVE EndingKept
  <2> SUFFICES ASSUME NEW i \in 1..Len(answers), answers[i].kind \in {"owner", "closed"}
               PROVE  \E k \in 1..Len(answers') : answers'[k] = answers[i]
    BY DEF EndingKept
  <2>1. i # 1
    BY <1>2, <1>4
  <2>2. i - 1 \in 1..Len(answers') /\ answers'[i - 1] = answers[i]
    BY <1>2, <2>1
  <2>3. QED
    BY <2>2
<1>5. QED
  BY <1>2, <1>3, <1>4

LEMMA CloseKeepsPortal ==
  ASSUME PortalInv, Portal!CloseTransport, phase' = "idle", UNCHANGED portal, FewerAnswers
  PROVE  PortalInv'
<1>1. Closes(calls')
  BY ClosingCalls DEF PortalInv, Portal!CloseTransport
<1>2. generation' = generation + 1 /\ request' = 0 /\ session' = 0
  BY DEF Portal!CloseTransport
<1>3. QED
  BY <1>1, <1>2, ClosingKeeps

LEMMA PortalStartKeeps == ASSUME PortalInv, Portal!Start PROVE PortalInv'
<1>1. /\ phase' = "probe" /\ UNCHANGED <<answers, portal>>
      /\ generation' = generation + 1 /\ request' = 0 /\ session' = 0
  BY DEF Portal!Start, Portal!Probe
<1>2. Closes(calls')
  BY ProbeCalls DEF PortalInv, Portal!Start, Portal!Probe
<1>3. QED
  BY <1>1, <1>2, NoAnswersTaken, ClosingKeeps

LEMMA PortalStopKeeps ==
  ASSUME PortalInv, Portal!Stop \/ Portal!ResponseTimesOut PROVE PortalInv'
BY NoAnswersTaken, CloseKeepsPortal DEF Portal!Stop, Portal!ResponseTimesOut, Portal!Fail

LEMMA RepliedKeeps ==
  ASSUME PortalInv, NEW ok \in BOOLEAN, Portal!Replied(ok), UNCHANGED portal,
         FewerAnswers, EndingKept
  PROVE  PortalInv'
<1>1. CASE phase = "probe" /\ Portal!Probed(ok)
  <2>1. request = 0 /\ session = 0
    BY <1>1 DEF PortalInv, PathsOfPhase
  <2>2. CASE phase' = "create" /\ Portal!SendRequest("create", generation + 1)
    <3>1. Gone
      BY <2>1, NoneIsGone
    <3>2. QED
      BY <2>1, <2>2, <3>1, SendKeeps
  <2>3. CASE phase' = "idle" /\ UNCHANGED <<generation, request, session, calls>>
    <3>1. SessionIsBound'
      BY <2>3 DEF SessionIsBound
    <3>2. QED
      BY <1>1, <2>3, <3>1, SettleKeeps
  <2>4. CASE phase' = "idle" /\ Portal!CloseTransport
    BY <2>4, CloseKeepsPortal
  <2>5. QED
    BY <1>1, <2>2, <2>3, <2>4 DEF Portal!Probed
<1>2. CASE Portal!Fail
  BY <1>2, CloseKeepsPortal DEF Portal!Fail
<1>3. CASE UNCHANGED <<phase, generation, request, session, calls>>
  <2>1. SessionIsBound'
    BY <1>3, BoundStays DEF PortalInv
  <2>2. QED
    BY <1>3, <2>1, SettleKeeps
<1>4. QED
  BY <1>1, <1>2, <1>3 DEF Portal!Replied

LEMMA ReplyTimesOutKeeps == ASSUME PortalInv, Portal!ReplyTimesOut PROVE PortalInv'
BY NoAnswersTaken, RepliedKeeps DEF Portal!ReplyTimesOut

LEMMA RespondedKeeps ==
  ASSUME PortalInv, answers # <<>>, answers' = Tail(answers), UNCHANGED portal,
         Head(answers).kind = "response", Head(answers).id = request,
         Portal!Responded(Head(answers).ok)
  PROVE  PortalInv'
<1>1. /\ FewerAnswers /\ EndingKept /\ 1 \in 1..Len(answers) /\ Head(answers) = answers[1]
      /\ Head(answers) \in Answers
  BY AnswerTaken
<1>2. Gone
  BY <1>1, AnsweredIsGone
<1>3. CASE Portal!Fail
  BY <1>1, <1>3, CloseKeepsPortal DEF Portal!Fail
<1>4. CASE phase = "create" /\ Portal!Created
  <2>1. phase' = "bind" /\ Portal!SendRequest("bind", session)
    BY <1>4 DEF Portal!Created
  <2>2. session # 0
    BY <1>4 DEF PortalInv, PathsOfPhase
  <2>3. QED
    BY <1>1, <1>2, <2>1, <2>2, SendKeeps
<1>5. CASE Head(answers).ok /\ phase = "bind" /\ Portal!Bound
  <2>1. answers[1] = Approved
    BY <1>1, <1>5 DEF Answers, Approved, Portal!Answer
  <2>2. session \in portal.bound \/ Portal!Ending(session)
    BY <1>1, <1>5, <2>1 DEF PortalInv, SessionIsBound
  <2>3. session' = session
    BY <1>5 DEF Portal!Bound
  <2>4. Portal!Ending(session) => Portal!Ending(session)'
    BY <1>1, <2>3 DEF Portal!Ending, EndingKept
  <2>5. SessionIsBound'
    BY <2>2, <2>3, <2>4 DEF SessionIsBound
  <2>6. QED
    BY <1>1, <1>2, <1>5, <2>5, BoundKeeps
<1>6. QED
  BY <1>3, <1>4, <1>5 DEF Portal!Responded

LEMMA PortalDeliverKeeps == ASSUME PortalInv, Portal!Deliver PROVE PortalInv'
<1> DEFINE answer == Head(answers)
<1>1. /\ answers # <<>> /\ answers' = Tail(answers) /\ UNCHANGED portal
      /\ \/ (Portal!Current(answer) \/ answer.kind = "closed") /\ Portal!Take(answer)
         \/ ~Portal!Current(answer) /\ UNCHANGED Portal!gui
  BY DEF Portal!Deliver
<1>2. /\ FewerAnswers /\ answer \in Answers
      /\ answer.kind \notin {"owner", "closed"} => EndingKept
  BY <1>1, AnswerTaken
<1>3. answer.ok \in BOOLEAN
  BY <1>2 DEF Answers
<1>4. CASE answer.kind = "reply" /\ Portal!Replied(answer.ok)
  BY <1>1, <1>2, <1>3, <1>4, RepliedKeeps
<1>5. CASE answer.kind = "response" /\ Portal!Current(answer) /\ Portal!Responded(answer.ok)
  BY <1>1, <1>5, RespondedKeeps DEF Portal!Current
<1>6. CASE Portal!Lost
  BY <1>1, <1>2, <1>6, CloseKeepsPortal DEF Portal!Lost
<1>7. CASE ~Portal!Current(answer) /\ UNCHANGED Portal!gui
  <2>1. UNCHANGED <<phase, generation, request, session, calls>>
    BY <1>7 DEF Portal!gui, Portal!transport
  <2>2. CASE answer.kind # "closed"
    <3>1. EndingKept
      BY <1>2, <1>7, <2>2 DEF Portal!Current
    <3>2. SessionIsBound'
      BY <1>1, <1>2, <2>1, <3>1, BoundStays DEF PortalInv
    <3>3. QED
      BY <1>1, <1>2, <2>1, <3>2, SettleKeeps
  <2>3. CASE answer.kind = "closed"
    <3>1. ASSUME phase \in {"bind", "registered"} PROVE answer.id # session
      BY <1>7, <2>3, <3>1 DEF Portal!Current
    <3>2. SessionIsBound'
      <4> SUFFICES ASSUME phase = "registered"
                   \/ (phase = "bind" /\ \E i \in 1..Len(answers') : answers'[i] = Approved')
                   PROVE  session \in portal.bound \/ Portal!Ending(session)'
        BY <1>1, <2>1 DEF SessionIsBound
      <4>1. Approved' = Approved
        BY <2>1 DEF Approved
      <4>2. session \in portal.bound \/ Portal!Ending(session)
        BY <1>2, <4>1 DEF FewerAnswers, PortalInv, SessionIsBound
      <4>3. ASSUME NEW i \in 1..Len(answers),
                   \/ answers[i].kind = "owner"
                   \/ answers[i].kind = "closed" /\ answers[i].id = session
            PROVE  \E k \in 1..Len(answers') : answers'[k] = answers[i]
        <5>1. /\ Len(answers) \in Nat \ {0} /\ Len(answers') = Len(answers) - 1
              /\ answer = answers[1]
              /\ \A n \in 1..Len(answers') : answers'[n] = answers[n + 1]
          BY <1>1, QueuedCalls, Tailed DEF PortalInv
        <5>2. i # 1
          BY <2>3, <3>1, <4>3, <5>1
        <5>3. i - 1 \in 1..Len(answers') /\ answers'[i - 1] = answers[i]
          BY <5>1, <5>2
        <5>4. QED
          BY <5>3
      <4>4. Portal!Ending(session) => Portal!Ending(session)'
        BY <2>1, <4>3 DEF Portal!Ending
      <4>5. QED
        BY <4>2, <4>4
    <3>3. QED
      BY <1>1, <1>2, <2>1, <3>2, SettleKeeps
  <2>4. QED
    BY <2>2, <2>3
<1>8. QED
  BY <1>1, <1>4, <1>5, <1>6, <1>7 DEF Portal!Take

-----------------------------------------------------------------------------
(***************************************************************************)
(* The steps of the portal: d calls are taken from the queue, 0 or 1.      *)
(***************************************************************************)
PortalTakes(d) ==
    /\ UNCHANGED <<phase, generation, request, session>>
    /\ calls' \in Seq(Calls) /\ Len(calls') = Len(calls) - d
    /\ d = 1 => 1 \in 1..Len(calls)
    /\ \A i \in 1..Len(calls') : calls'[i] = calls[i + d]

Served(d) == d = 1 /\ Requests(calls[1])

PortalHas(d) ==
    /\ portal' \in [open : SUBSET OpenRequests, sessions : SUBSET Nat, bound : SUBSET Nat]
    /\ \A r \in portal'.open :
          \/ r \in portal.open /\ (d = 1 => calls[1] # CloseRequest(r.id))
          \/ Served(d) /\ r = calls[1]
    /\ \A s \in portal'.sessions :
          \/ s \in portal.sessions /\ (d = 1 => calls[1] # CloseSession(s))
          \/ Served(d) /\ s = calls[1].session

\* A response answers a request that was open.
PortalAnswers ==
    /\ answers' \in Seq(Answers)
    /\ \A k \in 1..Len(answers') : answers'[k].kind = "response" =>
          \/ \E m \in 1..Len(answers) : answers'[k] = answers[m]
          \/ \E r \in portal.open \ portal'.open : answers'[k].id = r.id

LEMMA PortalStepKeeps ==
  ASSUME PortalInv, NEW d \in {0, 1}, PortalTakes(d), PortalHas(d), PortalAnswers,
         SessionIsBound'
  PROVE  PortalInv'
<1> USE DEF PortalInv
<1>1. /\ Len(calls) \in Nat
      /\ \A i \in 1..Len(calls) :
            calls[i] \in Calls /\ calls[i].id \in Nat /\ calls[i].session \in Nat
      /\ \A i \in 1..Len(answers) : answers[i].id \in Nat
      /\ \A r \in portal.open : r.id \in Nat /\ r.session \in Nat
      /\ generation \in Nat
  BY QueuedCalls
<1>2. UNCHANGED <<phase, generation, request, session>>
  BY DEF PortalTakes
<1>3. \A i \in 1..Len(calls') : i + d \in 1..Len(calls) /\ calls'[i] = calls[i + d]
  <2>1. Len(calls') = Len(calls) - d
    BY DEF PortalTakes
  <2>2. \A i \in 1..Len(calls') : i + d \in 1..Len(calls)
    BY <1>1, <2>1
  <2>3. QED
    BY <2>2 DEF PortalTakes
<1>4. Served(d) => 1 \in 1..Len(calls) /\ d = 1 /\ Requests(calls[1])
  BY DEF Served, PortalTakes
<1>5. PortalTypeOK' /\ PathsOfPhase'
  BY <1>2 DEF PortalTypeOK, PathsOfPhase, PortalTakes, PortalHas, PortalAnswers
<1>6. PathsAreOld'
  <2>1. ASSUME NEW i \in 1..Len(calls')
        PROVE  /\ calls'[i].id <= generation' /\ calls'[i].session <= generation'
               /\ Requests(calls'[i]) => calls'[i].id # 0 /\ calls'[i].session # 0
               /\ calls'[i].kind = "closeSession" => calls'[i].session # 0
    BY <1>2, <1>3 DEF PathsAreOld
  <2>2. ASSUME NEW k \in 1..Len(answers'), answers'[k].kind = "response"
        PROVE  answers'[k].id <= generation'
    <3>1. CASE \E m \in 1..Len(answers) : answers'[k] = answers[m]
      BY <1>2, <2>2, <3>1 DEF PathsAreOld
    <3>2. CASE \E r \in portal.open \ portal'.open : answers'[k].id = r.id
      BY <1>1, <1>2, <3>2 DEF PathsAreOld
    <3>3. QED
      BY <2>2, <3>1, <3>2 DEF PortalAnswers
  <2>3. Served(d) => calls[1].id \in 1..generation /\ calls[1].session \in 1..generation
    BY <1>1, <1>4 DEF PathsAreOld
  <2>4. \A r \in portal'.open : r.id \in 1..generation' /\ r.session \in 1..generation'
    BY <1>2, <2>3 DEF PathsAreOld, PortalHas
  <2>5. 0 \notin portal'.sessions
    BY <1>1, <2>3 DEF PathsAreOld, PortalHas
  <2>6. QED
    BY <2>1, <2>2, <2>4, <2>5 DEF PathsAreOld, Requests
<1>7. CurrentRequestKnown'
  <2>1. /\ \A i \in 1..Len(calls') :
              Requests(calls'[i]) /\ calls'[i].id = request => IsCurrentRequest(calls'[i])
        /\ \A i \in 1..Len(calls') :
              calls'[i].kind = "closeSession" => calls'[i].session # session
    BY <1>3 DEF CurrentRequestKnown
  <2>2. \A r \in portal'.open : r.id = request => IsCurrentRequest(r)
    BY <1>4 DEF CurrentRequestKnown, PortalHas
  <2>3. QED
    BY <1>2, <2>1, <2>2 DEF CurrentRequestKnown, IsCurrentRequest, Requests
<1>8. RequestsOnce'
  <2>1. ASSUME NEW i \in 1..Len(calls'), NEW j \in 1..Len(calls'),
               Requests(calls'[i]), Requests(calls'[j]), calls'[i].id = calls'[j].id
        PROVE  i = j
    <3>1. i + d = j + d
      BY <1>3, <2>1 DEF RequestsOnce
    <3>2. QED
      BY <3>1
  <2>2. ASSUME NEW i \in 1..Len(calls'), Requests(calls'[i]), Served(d)
        PROVE  calls'[i].id # calls[1].id
    <3>1. i + d # 1 /\ i + d \in 1..Len(calls) /\ calls'[i] = calls[i + d]
      BY <1>3, <1>4, <2>2
    <3>2. QED
      BY <1>4, <2>2, <3>1 DEF RequestsOnce
  <2>3. ASSUME NEW r \in portal.open, Served(d) PROVE calls[1].id # r.id
    BY <1>4, <2>3 DEF RequestsOnce
  <2>4. ASSUME NEW r \in portal'.open, NEW q \in portal'.open, r.id = q.id PROVE r = q
    BY <2>3, <2>4 DEF PortalHas, RequestsOnce
  <2>5. ASSUME NEW i \in 1..Len(calls'), NEW r \in portal'.open, Requests(calls'[i])
        PROVE  calls'[i].id # r.id
    BY <1>3, <2>2, <2>5 DEF PortalHas, RequestsOnce
  <2>6. ASSUME NEW k \in 1..Len(answers'), answers'[k].kind = "response"
        PROVE  /\ \A i \in 1..Len(calls') : Requests(calls'[i]) => calls'[i].id # answers'[k].id
               /\ \A r \in portal'.open : r.id # answers'[k].id
    <3>1. CASE \E m \in 1..Len(answers) : answers'[k] = answers[m]
      <4>1. PICK m \in 1..Len(answers) : answers'[k] = answers[m]
        BY <3>1
      <4>2. /\ \A i \in 1..Len(calls) : Requests(calls[i]) => calls[i].id # answers'[k].id
            /\ \A r \in portal.open : r.id # answers'[k].id
        BY <2>6, <4>1 DEF RequestsOnce
      <4>3. QED
        BY <1>3, <1>4, <4>2 DEF PortalHas
    <3>2. CASE \E r \in portal.open \ portal'.open : answers'[k].id = r.id
      <4>1. PICK q \in portal.open \ portal'.open : answers'[k].id = q.id
        BY <3>2
      <4>2. /\ \A i \in 1..Len(calls) : Requests(calls[i]) => calls[i].id # q.id
            /\ \A r \in portal.open : r.id = q.id => r = q
        BY DEF RequestsOnce
      <4>3. QED
        BY <1>3, <1>4, <4>1, <4>2 DEF PortalHas
    <3>3. QED
      BY <2>6, <3>1, <3>2 DEF PortalAnswers
  <2>7. QED
    BY <2>1, <2>4, <2>5, <2>6 DEF RequestsOnce, Requests
<1>9. ASSUME NEW id, NEW i \in Nat \ {0}
      PROVE  /\ ClosesRequest(i + d, id) => ClosesRequest(i, id)'
             /\ ClosesSession(i + d, id) => ClosesSession(i, id)'
  <2>1. Len(calls') = Len(calls) - d
    BY DEF PortalTakes
  <2>2. ASSUME NEW j \in (i + d)..Len(calls)
        PROVE  j - d \in i..Len(calls') /\ calls'[j - d] = calls[j]
    <3>1. j - d \in i..Len(calls') /\ j - d \in 1..Len(calls') /\ (j - d) + d = j
      BY <1>1, <2>1
    <3>2. QED
      BY <1>3, <3>1
  <2>3. QED
    BY <2>2 DEF ClosesRequest, ClosesSession
<1>10. /\ \A id : ClosesRequest(1, id) /\ (d = 1 => calls[1] # CloseRequest(id))
                    => ClosesRequest(1, id)'
       /\ \A s : ClosesSession(1, s) /\ (d = 1 => calls[1] # CloseSession(s))
                    => ClosesSession(1, s)'
  <2>1. CASE d = 0
    BY <1>9, <2>1
  <2>2. CASE d = 1
    <3>1. ASSUME NEW id, ClosesRequest(1, id), calls[1] # CloseRequest(id)
          PROVE  ClosesRequest(2, id)
      BY <1>1, <3>1 DEF ClosesRequest, CloseRequest
    <3>2. ASSUME NEW s, ClosesSession(1, s), calls[1] # CloseSession(s)
          PROVE  ClosesSession(2, s)
      BY <1>1, <3>2 DEF ClosesSession, CloseSession
    <3>3. QED
      BY <1>9, <2>2, <3>1, <3>2
  <2>3. QED
    BY <2>1, <2>2
<1>11. OldOnesClosed'
  <2>1. ASSUME NEW i \in 1..Len(calls'), Requests(calls'[i])
        PROVE  /\ calls'[i].id = request \/ ClosesRequest(i + 1, calls[i].id)'
               /\ calls'[i].session = session \/ ClosesSession(i + 1, calls[i].session)'
    <3>1. /\ calls'[i] = calls[i + d] /\ i + d \in 1..Len(calls)
          /\ i + 1 \in Nat \ {0} /\ (i + d) + 1 = (i + 1) + d
      BY <1>3
    <3>2. /\ calls'[i].id = request \/ ClosesRequest((i + d) + 1, calls'[i].id)
          /\ calls'[i].session = session \/ ClosesSession((i + d) + 1, calls'[i].session)
      BY <2>1, <3>1 DEF OldOnesClosed
    <3>3. QED
      BY <1>9, <3>1, <3>2
  <2>2. ASSUME NEW call, Served(d), call = calls[1]
        PROVE  /\ call.id = request \/ ClosesRequest(1, call.id)'
               /\ call.session = session \/ ClosesSession(1, call.session)'
    <3>1. /\ call.id = request \/ ClosesRequest(1 + d, call.id)
          /\ call.session = session \/ ClosesSession(1 + d, call.session)
      BY <1>4, <2>2 DEF OldOnesClosed
    <3>2. QED
      BY <1>9, <3>1
  <2>3. ASSUME NEW r \in portal'.open PROVE r.id = request \/ ClosesRequest(1, r.id)'
    BY <1>10, <2>2 DEF OldOnesClosed, PortalHas
  <2>4. ASSUME NEW s \in portal'.sessions PROVE s = session \/ ClosesSession(1, s)'
    BY <1>10, <2>2 DEF OldOnesClosed, PortalHas
  <2>5. QED
    BY <1>2, <2>1, <2>3, <2>4 DEF OldOnesClosed, Requests
<1>12. QED
  BY <1>5, <1>6, <1>7, <1>8, <1>11

LEMMA BoundByPortal ==
  ASSUME SessionIsBound, UNCHANGED <<phase, request, session>>, EndingKept,
         session \in portal.bound => session \in portal'.bound \/ Portal!Ending(session)',
         phase = "bind" /\ (\E i \in 1..Len(answers') : answers'[i] = Approved)
            => \/ \E i \in 1..Len(answers) : answers[i] = Approved
               \/ session \in portal'.bound
  PROVE  SessionIsBound'
<1>1. Approved' = Approved
  BY DEF Approved
<1>2. Portal!Ending(session) => Portal!Ending(session)'
  BY DEF Portal!Ending, EndingKept
<1>3. QED
  BY <1>1, <1>2 DEF SessionIsBound

LEMMA AnswerGiven ==
  ASSUME PortalInv, NEW a \in Answers, answers' = Append(answers, a)
  PROVE  /\ answers' \in Seq(Answers) /\ EndingKept
         /\ \A k \in 1..Len(answers') :
               answers'[k] = a \/ \E m \in 1..Len(answers) : answers'[k] = answers[m]
         /\ \E k \in 1..Len(answers') : answers'[k] = a
<1>1. answers \in Seq(Answers)
  BY QueuedCalls DEF PortalInv
<1>2. /\ answers' \in Seq(Answers) /\ Len(answers) \in Nat
      /\ Len(answers') = Len(answers) + 1 /\ answers'[Len(answers) + 1] = a
      /\ \A i \in 1..Len(answers) : answers'[i] = answers[i]
  BY <1>1, Appended
<1>3. /\ \A i \in 1..Len(answers) : i \in 1..Len(answers')
      /\ \A i \in 1..Len(answers') : i \in 1..Len(answers) \/ i = Len(answers) + 1
      /\ Len(answers) + 1 \in 1..Len(answers')
  BY <1>2
<1>4. QED
  BY <1>2, <1>3 DEF EndingKept

\* A reply, or no answer.
LEMMA ReplyGiven ==
  ASSUME PortalInv,
         \/ UNCHANGED answers
         \/ \E id \in Nat, ok \in BOOLEAN :
               answers' = Append(answers, Portal!Answer("reply", id, ok))
  PROVE  /\ EndingKept /\ PortalAnswers
         /\ \A i \in 1..Len(answers') : answers'[i] = Approved =>
               \E k \in 1..Len(answers) : answers[k] = Approved
<1>1. CASE UNCHANGED answers
  BY <1>1, NoAnswersTaken, QueuedCalls DEF PortalInv, PortalAnswers
<1>2. CASE \E id \in Nat, ok \in BOOLEAN :
               answers' = Append(answers, Portal!Answer("reply", id, ok))
  <2>1. PICK a \in Answers : a.kind = "reply" /\ answers' = Append(answers, a)
    BY <1>2 DEF Answers, Portal!Answer
  <2>2. /\ answers' \in Seq(Answers) /\ EndingKept
        /\ \A k \in 1..Len(answers') :
              answers'[k] = a \/ \E m \in 1..Len(answers) : answers'[k] = answers[m]
    BY <2>1, AnswerGiven
  <2>3. Approved.kind = "response"
    BY DEF Approved, Portal!Answer
  <2>4. PortalAnswers
    BY <2>1, <2>2 DEF PortalAnswers
  <2>5. QED
    BY <2>1, <2>2, <2>3, <2>4
<1>3. QED
  BY <1>1, <1>2

LEMMA PortalServesKeeps == ASSUME PortalInv, Portal!PortalServes PROVE PortalInv'
<1> DEFINE call == Head(calls)
<1>1. /\ calls # <<>> /\ calls' = Tail(calls)
      /\ UNCHANGED <<phase, generation, request, session>>
  BY DEF Portal!PortalServes
<1>2. /\ \/ /\ call.kind = "get"
            /\ \E ok \in BOOLEAN :
                  answers' = Append(answers, Portal!Answer("reply", call.id, ok))
            /\ UNCHANGED portal
         \/ call.kind \in {"create", "bind"} /\ Portal!OpenRequest(call)
         \/ /\ call.kind = "bind"
            /\ answers' = Append(answers, Portal!Answer("reply", call.id, FALSE))
            /\ UNCHANGED portal
         \/ /\ call.kind = "closeRequest" /\ UNCHANGED answers
            /\ portal' = [portal EXCEPT !.open = {r \in @ : r.id # call.id}]
         \/ /\ call.kind = "closeSession" /\ UNCHANGED answers
            /\ portal' = [open |-> {r \in portal.open : r.session # call.session},
                          sessions |-> portal.sessions \ {call.session},
                          bound |-> portal.bound \ {call.session}]
  BY DEF Portal!PortalServes
<1>3. /\ calls' \in Seq(Calls) /\ Len(calls) \in Nat \ {0} /\ Len(calls') = Len(calls) - 1
      /\ call = calls[1] /\ call \in Calls
      /\ \A i \in 1..Len(calls') : calls'[i] = calls[i + 1]
  BY <1>1, QueuedCalls, Tailed DEF PortalInv
<1> HIDE DEF call
<1>4. /\ PortalTakes(1) /\ call.id \in Nat /\ call.session \in Nat
      /\ 1 \in 1..Len(calls)
  BY <1>1, <1>3 DEF PortalTakes, Calls
<1>5. portal \in [open : SUBSET OpenRequests, sessions : SUBSET Nat, bound : SUBSET Nat]
  BY DEF PortalInv, PortalTypeOK
<1>6. /\ EndingKept /\ PortalAnswers
      /\ \A i \in 1..Len(answers') : answers'[i] = Approved =>
            \E k \in 1..Len(answers) : answers[k] = Approved
  BY <1>2, <1>4, ReplyGiven DEF Portal!OpenRequest
<1>7. \A id : /\ CloseRequest(id).kind = "closeRequest" /\ CloseRequest(id).id = id
              /\ CloseSession(id).kind = "closeSession" /\ CloseSession(id).session = id
  BY DEF CloseRequest, CloseSession, Portal!Call
<1>8. PortalHas(1) /\ (session \in portal.bound => session \in portal'.bound)
  <2>1. CASE UNCHANGED portal /\ call.kind \notin {"closeRequest", "closeSession"}
    BY <1>3, <1>5, <1>7, <2>1 DEF PortalHas
  <2>2. CASE call.kind \in {"create", "bind"} /\ Portal!OpenRequest(call)
    <3>1. portal' \in {portal, [portal EXCEPT !.open = @ \cup {call},
                                             !.sessions = @ \cup {call.session}]}
      BY <2>2 DEF Portal!OpenRequest
    <3>2. CASE portal' = [portal EXCEPT !.open = @ \cup {call},
                                       !.sessions = @ \cup {call.session}]
      <4>1. portal' = [open |-> portal.open \cup {call},
                       sessions |-> portal.sessions \cup {call.session},
                       bound |-> portal.bound]
        BY <1>5, <3>2
      <4>2. call \in OpenRequests /\ Served(1)
        BY <1>3, <2>2 DEF OpenRequests, Requests, Served
      <4>3. portal' \in [open : SUBSET OpenRequests, sessions : SUBSET Nat, bound : SUBSET Nat]
        BY <1>4, <1>5, <4>1, <4>2
      <4>4. /\ portal'.open = portal.open \cup {call}
            /\ portal'.sessions = portal.sessions \cup {call.session}
            /\ portal'.bound = portal.bound
        BY <4>1
      <4>5. QED
        BY <1>3, <1>7, <2>2, <4>2, <4>3, <4>4 DEF PortalHas
    <3>3. QED
      BY <2>1, <2>2, <3>1, <3>2
  <2>3. CASE /\ call.kind = "closeRequest"
             /\ portal' = [portal EXCEPT !.open = {r \in @ : r.id # call.id}]
    <3>1. portal' = [open |-> {r \in portal.open : r.id # call.id},
                     sessions |-> portal.sessions, bound |-> portal.bound]
      BY <1>5, <2>3
    <3>2. portal' \in [open : SUBSET OpenRequests, sessions : SUBSET Nat, bound : SUBSET Nat]
      BY <1>5, <3>1
    <3>3. QED
      BY <1>3, <1>7, <2>3, <3>1, <3>2 DEF PortalHas
  <2>4. CASE /\ call.kind = "closeSession"
             /\ portal' = [open |-> {r \in portal.open : r.session # call.session},
                           sessions |-> portal.sessions \ {call.session},
                           bound |-> portal.bound \ {call.session}]
    <3>1. portal' \in [open : SUBSET OpenRequests, sessions : SUBSET Nat, bound : SUBSET Nat]
      BY <1>5, <2>4
    <3>2. call.session # session
      BY <1>3, <1>4, <2>4 DEF PortalInv, CurrentRequestKnown
    <3>3. QED
      BY <1>3, <1>7, <2>4, <3>1, <3>2 DEF PortalHas
  <2>5. QED
    BY <1>2, <2>1, <2>2, <2>3, <2>4
<1>9. SessionIsBound'
  BY <1>1, <1>6, <1>8, BoundByPortal DEF PortalInv
<1>10. QED
  BY <1>4, <1>6, <1>8, <1>9, PortalStepKeeps

\* The user, or the portal by itself, adds an answer; no call is taken.
LEMMA PortalActsKeeps ==
  ASSUME PortalInv, UNCHANGED Portal!gui, NEW a \in Answers, answers' = Append(answers, a),
         portal' \in [open : SUBSET OpenRequests, sessions : SUBSET Nat, bound : SUBSET Nat],
         portal'.open \subseteq portal.open, portal'.sessions \subseteq portal.sessions,
         \/ /\ a.kind = "response" /\ portal.bound \subseteq portal'.bound
            /\ \E r \in portal.open \ portal'.open :
                  a.id = r.id /\ (a.ok /\ r.kind = "bind" => r.session \in portal'.bound)
         \/ a.kind = "closed" /\ portal.bound \ {a.id} \subseteq portal'.bound
         \/ a.kind = "owner"
  PROVE  PortalInv'
<1>1. UNCHANGED <<phase, generation, request, session, calls>>
  BY DEF Portal!gui, Portal!transport
<1>2. /\ answers' \in Seq(Answers) /\ EndingKept
      /\ \A k \in 1..Len(answers') :
            answers'[k] = a \/ \E m \in 1..Len(answers) : answers'[k] = answers[m]
      /\ \E k \in 1..Len(answers') : answers'[k] = a
  BY AnswerGiven
<1>3. PortalTakes(0)
  BY <1>1, QueuedCalls DEF PortalInv, PortalTakes
<1>4. PortalHas(0)
  BY DEF PortalHas
<1>5. PortalAnswers
  BY <1>2 DEF PortalAnswers
<1>6. session \in portal.bound => session \in portal'.bound \/ Portal!Ending(session)'
  <2>1. CASE a.kind = "response" /\ portal.bound \subseteq portal'.bound
    BY <2>1
  <2>2. CASE a.kind = "closed" /\ portal.bound \ {a.id} \subseteq portal'.bound
    <3>1. CASE a.id = session
      BY <1>1, <1>2, <2>2, <3>1 DEF Portal!Ending
    <3>2. CASE a.id # session
      BY <2>2, <3>2
    <3>3. QED
      BY <3>1, <3>2
  <2>3. CASE a.kind = "owner"
    BY <1>2, <2>3 DEF Portal!Ending
  <2>4. QED
    BY <2>1, <2>2, <2>3
<1>7. ASSUME phase = "bind", a = Approved PROVE session \in portal'.bound
  <2>1. a.kind = "response" /\ a.ok /\ a.id = request
    BY <1>7 DEF Approved, Portal!Answer
  <2>2. PICK r \in portal.open : a.id = r.id /\ (r.kind = "bind" => r.session \in portal'.bound)
    BY <2>1
  <2>3. r.kind = phase /\ r.session = session
    BY <2>1, <2>2 DEF PortalInv, CurrentRequestKnown, IsCurrentRequest
  <2>4. QED
    BY <1>7, <2>2, <2>3
<1>8. SessionIsBound'
  <2>1. phase = "bind" /\ (\E i \in 1..Len(answers') : answers'[i] = Approved)
            => \/ \E i \in 1..Len(answers) : answers[i] = Approved
               \/ session \in portal'.bound
    BY <1>2, <1>7
  <2>2. QED
    BY <1>1, <1>2, <1>6, <2>1, BoundByPortal DEF PortalInv
<1>9. QED
  BY <1>3, <1>4, <1>5, <1>8, PortalStepKeeps

LEMMA UserDecidesKeeps == ASSUME PortalInv, Portal!UserDecides PROVE PortalInv'
<1>1. PICK r \in portal.open, ok \in BOOLEAN :
        /\ answers' = Append(answers, Portal!Answer("response", r.id, ok))
        /\ portal' = [open |-> portal.open \ {r},
                      sessions |-> IF ok \/ r.kind = "bind" THEN portal.sessions
                                   ELSE portal.sessions \ {r.session},
                      bound |-> IF ok /\ r.kind = "bind"
                                THEN portal.bound \cup {r.session}
                                ELSE portal.bound]
  BY DEF Portal!UserDecides
<1>2. /\ portal \in [open : SUBSET OpenRequests, sessions : SUBSET Nat, bound : SUBSET Nat]
      /\ r.id \in Nat /\ r.session \in Nat
  BY QueuedCalls DEF PortalInv, PortalTypeOK
<1> DEFINE a == Portal!Answer("response", r.id, ok)
<1>3. a \in Answers /\ a.kind = "response" /\ a.id = r.id /\ a.ok = ok
  BY <1>2 DEF Answers, Portal!Answer
<1> HIDE DEF a
<1>4. /\ portal'.open = portal.open \ {r}
      /\ portal'.sessions \in SUBSET portal.sessions
      /\ portal'.bound = IF ok /\ r.kind = "bind" THEN portal.bound \cup {r.session}
                         ELSE portal.bound
  BY <1>1
<1>5. portal' \in [open : SUBSET OpenRequests, sessions : SUBSET Nat, bound : SUBSET Nat]
  BY <1>1, <1>2
<1>6. UNCHANGED Portal!gui
  BY DEF Portal!UserDecides
<1>7. answers' = Append(answers, a)
  BY <1>1 DEF a
<1>8. /\ portal.bound \subseteq portal'.bound /\ r \in portal.open \ portal'.open
      /\ a.ok /\ r.kind = "bind" => r.session \in portal'.bound
  BY <1>3, <1>4
<1>9. QED
  BY <1>3, <1>4, <1>5, <1>6, <1>7, <1>8, PortalActsKeeps

LEMMA PortalEndsKeeps ==
  ASSUME PortalInv, Portal!PortalCloses \/ Portal!PortalRestarts PROVE PortalInv'
<1>1. portal \in [open : SUBSET OpenRequests, sessions : SUBSET Nat, bound : SUBSET Nat]
  BY DEF PortalInv, PortalTypeOK
<1>2. CASE Portal!PortalCloses
  <2>1. PICK s \in portal.sessions :
          /\ answers' = Append(answers, Portal!Answer("closed", s, TRUE))
          /\ portal' = [open |-> {r \in portal.open : r.session # s},
                        sessions |-> portal.sessions \ {s},
                        bound |-> portal.bound \ {s}]
    BY <1>2 DEF Portal!PortalCloses
  <2>2. UNCHANGED Portal!gui
    BY <1>2 DEF Portal!PortalCloses
  <2> DEFINE a == Portal!Answer("closed", s, TRUE)
  <2>3. a \in Answers /\ a.kind = "closed" /\ a.id = s
    BY <1>1 DEF Answers, Portal!Answer
  <2>4. answers' = Append(answers, a)
    BY <2>1
  <2> HIDE DEF a
  <2>5. /\ portal' \in [open : SUBSET OpenRequests, sessions : SUBSET Nat, bound : SUBSET Nat]
        /\ portal'.open \subseteq portal.open /\ portal'.sessions \subseteq portal.sessions
        /\ portal.bound \ {s} \subseteq portal'.bound
    BY <1>1, <2>1
  <2>6. QED
    BY <2>2, <2>3, <2>4, <2>5, PortalActsKeeps
<1>3. CASE Portal!PortalRestarts
  <2> DEFINE a == Portal!Answer("owner", 0, TRUE)
  <2>1. a \in Answers /\ a.kind = "owner"
    BY DEF Answers, Portal!Answer
  <2>2. answers' = Append(answers, a) /\ UNCHANGED Portal!gui
    BY <1>3 DEF Portal!PortalRestarts
  <2> HIDE DEF a
  <2>3. portal' = [open |-> {}, sessions |-> {}, bound |-> {}]
    BY <1>3 DEF Portal!PortalRestarts, Portal!NoPortal
  <2>4. /\ portal' \in [open : SUBSET OpenRequests, sessions : SUBSET Nat, bound : SUBSET Nat]
        /\ portal'.open \subseteq portal.open /\ portal'.sessions \subseteq portal.sessions
    BY <2>3
  <2>5. QED
    BY <2>1, <2>2, <2>4, PortalActsKeeps
<1>4. QED
  BY <1>2, <1>3

LEMMA PortalKeeps == ASSUME PortalInv, Portal!Next PROVE PortalInv'
BY PortalStartKeeps, PortalStopKeeps, PortalDeliverKeeps, ReplyTimesOutKeeps,
   PortalServesKeeps, UserDecidesKeeps, PortalEndsKeeps DEF Portal!Next

LEMMA PortalStutters ==
  ASSUME PortalInv, UNCHANGED <<phase, generation, request, session, calls, answers, portal>>
  PROVE  PortalInv'
<1>1. SessionIsBound'
  BY NoAnswersTaken, BoundStays DEF PortalInv
<1>2. QED
  BY <1>1, NoAnswersTaken, SettleKeeps

LEMMA PortalTruthful == PortalInv => Portal!HeldAsShown /\ Portal!NothingLeftBehind
<1> SUFFICES ASSUME PortalInv PROVE Portal!HeldAsShown /\ Portal!NothingLeftBehind
  OBVIOUS
<1>1. Portal!HeldAsShown
  BY DEF PortalInv, SessionIsBound, Portal!HeldAsShown
<1>2. ASSUME calls = <<>>
      PROVE  /\ portal.sessions \subseteq {session} \ {0}
             /\ {r.id : r \in portal.open} \subseteq {request} \ {0}
  <2>1. \A id : ~ClosesRequest(1, id) /\ ~ClosesSession(1, id)
    BY <1>2, EmptySeq DEF ClosesRequest, ClosesSession
  <2>2. \A s \in portal.sessions : s = session /\ s # 0
    BY <2>1 DEF PortalInv, OldOnesClosed, PathsAreOld
  <2>3. \A r \in portal.open : r.id = request /\ r.id # 0
    BY <2>1, QueuedCalls DEF PortalInv, OldOnesClosed, PathsAreOld
  <2>4. QED
    BY <2>2, <2>3
<1>3. QED
  BY <1>1, <1>2 DEF Portal!NothingLeftBehind

-----------------------------------------------------------------------------
(***************************************************************************)
(* The implementation that was not created stays as it was.                *)
(***************************************************************************)
X11Idle    == ~registered /\ ~grabbed /\ registered = grabbed /\ xevents = <<>>
PortalIdle == phase = "idle" /\ portal = Portal!NoPortal

ShortcutInv ==
    \/ backend = "wayland" /\ PortalInv /\ X11Idle
    \/ backend = "xcb" /\ X11Inv /\ PortalIdle

(***************************************************************************)
(* The invariant of whichever implementation runs: the workers of X11 or   *)
(* the sessions of the portal.                                             *)
(***************************************************************************)
THEOREM ShortcutInvariant == FairSpec => []ShortcutInv
<1>1. Init => ShortcutInv
  <2> SUFFICES ASSUME Init PROVE ShortcutInv
    OBVIOUS
  <2>1. X11Idle
    BY DEF Init, X11!Init, X11Idle
  <2>2. PortalIdle
    BY DEF Init, Portal!Init, PortalIdle
  <2>3. QED
    BY <2>1, <2>2, X11InitInv, PortalInitInv DEF Init, ShortcutInv
<1>2. ASSUME ShortcutInv, [Next]_vars PROVE ShortcutInv'
  <2>1. CASE backend = "wayland" /\ PortalInv /\ X11Idle /\ Portal!Next
             /\ UNCHANGED <<backend, x11Only>>
    <3>1. X11Idle'
      BY <2>1 DEF X11Idle, x11Only
    <3>2. PortalInv'
      BY <2>1, PortalKeeps
    <3>3. QED
      BY <2>1, <3>1, <3>2 DEF ShortcutInv
  <2>2. CASE backend = "xcb" /\ X11Inv /\ PortalIdle /\ X11!Next
             /\ UNCHANGED <<backend, portalOnly>>
    <3>1. PortalIdle'
      BY <2>2 DEF PortalIdle, portalOnly, Portal!NoPortal
    <3>2. X11Inv'
      BY <2>2, X11Keeps
    <3>3. QED
      BY <2>2, <3>1, <3>2 DEF ShortcutInv
  <2>3. CASE UNCHANGED vars
    <3>1. /\ UNCHANGED <<phase, generation, request, session, calls, answers, portal>>
          /\ UNCHANGED <<registered, blocked, worker, signals, grabbed, xevents>>
          /\ UNCHANGED <<backend, generation>>
      BY <2>3 DEF vars, portalOnly, x11Only
    <3>2. (PortalInv => PortalInv') /\ (X11Inv => X11Inv')
      BY <3>1, PortalStutters, X11Stutters
    <3>3. (X11Idle => X11Idle') /\ (PortalIdle => PortalIdle')
      BY <3>1 DEF X11Idle, PortalIdle, Portal!NoPortal
    <3>4. QED
      BY <1>2, <3>1, <3>2, <3>3 DEF ShortcutInv
  <2>4. QED
    BY <1>2, <2>1, <2>2, <2>3 DEF ShortcutInv, Next
<1>3. QED
  BY <1>1, <1>2, PTL DEF FairSpec

(***************************************************************************)
(* What the status shows is so: a shortcut shown as registered is bound    *)
(* with the portal, or the news of its end are coming; and on X11 it is    *)
(* registered exactly while the key is grabbed, once the signals arrived.  *)
(***************************************************************************)
THEOREM ShownIsHeld == FairSpec => []HeldAsShown
<1>1. ShortcutInv => HeldAsShown
  <2>1. X11Idle => X11!HeldAsShown
    BY DEF X11Idle, X11!HeldAsShown
  <2>2. PortalIdle => Portal!HeldAsShown
    BY DEF PortalIdle, Portal!HeldAsShown
  <2>3. QED
    BY <2>1, <2>2, X11Truthful, PortalTruthful DEF ShortcutInv, HeldAsShown
<1>2. QED
  BY <1>1, ShortcutInvariant, PTL

(***************************************************************************)
(* However often the shortcut was stopped and started while calls and      *)
(* answers were on their way, the portal keeps no session and no request   *)
(* of an earlier start, and no grab outlives its worker.                   *)
(***************************************************************************)
THEOREM NothingStaysBehind == FairSpec => []NothingLeftBehind
<1>1. ShortcutInv => NothingLeftBehind
  <2>1. X11Idle => X11!NothingLeftBehind
    BY DEF X11Idle, X11!NothingLeftBehind
  <2>2. PortalIdle => Portal!NothingLeftBehind
    BY DEF PortalIdle, Portal!NothingLeftBehind, Portal!NoPortal
  <2>3. QED
    BY <2>1, <2>2, X11Truthful, PortalTruthful DEF ShortcutInv, NothingLeftBehind
<1>2. QED
  BY <1>1, ShortcutInvariant, PTL
=============================================================================
