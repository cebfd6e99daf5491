----------------------------- MODULE X11Shortcut -----------------------------
(***************************************************************************)
(* X11GlobalShortcut.cpp: on X11 a worker thread with a display of its own *)
(* grabs the key and waits in poll() on the display and on a pipe that     *)
(* wakes it.  stop() asks it to end and blocks the GUI thread until it has *)
(* ended; start() does so too and then begins another.  Its signals are    *)
(* queued and may be delivered long after it is gone.                      *)
(*                                                                         *)
(* Left out: the modifier variants of the key, the serialized grabs of     *)
(* several workers (there is one), and failures of poll() or of the        *)
(* display once the key is grabbed, which end the worker unheard.          *)
(***************************************************************************)
EXTENDS Naturals, Sequences

CONSTANTS
    MaxStarts,  \* bound: calls of start()
    MaxKeys     \* bound: key events of the X server

VARIABLES
    generation, \* generation_
    registered, \* status_.registered
    blocked,    \* "stop" or "start" while wait() blocks the GUI thread, or "no"
    worker,     \* worker_ and the progress of its run()
    signals,    \* queued signals of the workers
    grabbed,    \* the X server delivers the key to the worker's display
    xevents,    \* key events in the display's queue
    starts, keys

gui  == <<generation, registered, blocked>>
vars == <<gui, worker, signals, grabbed, xevents, starts, keys>>

\* interrupted: requestInterruption() and the byte in the wake pipe.
NoWorker == [pc |-> "ended", generation |-> 0, interrupted |-> FALSE, down |-> FALSE]

Init ==
    /\ generation = 0
    /\ registered = FALSE
    /\ blocked = "no"
    /\ worker = NoWorker
    /\ signals = <<>>
    /\ grabbed = FALSE
    /\ xevents = <<>>
    /\ starts = 0
    /\ keys = 0

-----------------------------------------------------------------------------
(***************************************************************************)
(* The GUI thread                                                          *)
(***************************************************************************)
Shutdown(kind) ==
    /\ blocked = "no"
    /\ blocked' = kind
    /\ generation' = generation + 1
    /\ worker' = [worker EXCEPT !.interrupted = TRUE]
    /\ UNCHANGED <<registered, signals, grabbed, xevents, keys>>

Start == starts < MaxStarts /\ starts' = starts + 1 /\ Shutdown("start")

\* Without a worker it only advances generation_.
Stop == worker # NoWorker /\ Shutdown("stop") /\ UNCHANGED starts

\* wait() returns, and start() goes on to begin a worker.
Joined ==
    /\ blocked # "no"
    /\ worker.pc = "ended"
    /\ blocked' = "no"
    /\ registered' = FALSE
    /\ IF blocked = "start"
       THEN /\ generation' = generation + 1
            /\ worker' = [NoWorker EXCEPT !.pc = "opening", !.generation = generation + 1]
       ELSE worker' = NoWorker /\ UNCHANGED generation
    /\ UNCHANGED <<signals, grabbed, xevents, starts, keys>>

\* Mutant: signals are not told apart by their worker.
IsOfAny(signal) == TRUE

IsCurrent(signal) == signal.generation = generation

\* A press only matters while registered; then "activated" is emitted.
Deliver ==
    /\ blocked = "no"
    /\ signals # <<>>
    /\ signals' = Tail(signals)
    /\ LET signal == Head(signals) IN
          registered' = IF IsCurrent(signal) /\ signal.kind = "state"
                        THEN signal.on ELSE registered
    /\ UNCHANGED <<generation, blocked, worker, grabbed, xevents, starts, keys>>

-----------------------------------------------------------------------------
(***************************************************************************)
(* The worker thread                                                       *)
(***************************************************************************)
Signal(kind, on) == [kind |-> kind, generation |-> worker.generation, on |-> on]

\* The pipe, the display or the grab fails, or the key is grabbed.
Open ==
    /\ worker.pc = "opening"
    /\ \E ok \in BOOLEAN :
          /\ worker' = [worker EXCEPT !.pc = IF ok THEN "looping" ELSE "ended"]
          /\ grabbed' = ok
          /\ signals' = Append(signals, Signal("state", ok))
    /\ UNCHANGED <<gui, xevents, starts, keys>>

\* A held key repeats its presses without releases in between.
Presses(event) == event = "press" /\ ~worker.down

\* The head of the loop; all waiting events are taken before poll().
Loop ==
    /\ worker.pc = "looping"
    /\ worker' = [worker EXCEPT !.pc = IF worker.interrupted THEN "closing"
                                       ELSE "draining"]
    /\ UNCHANGED <<gui, signals, grabbed, xevents, starts, keys>>

Drain ==
    /\ worker.pc = "draining"
    /\ \/ /\ xevents # <<>>
          /\ xevents' = Tail(xevents)
          /\ worker' = [worker EXCEPT !.down = Head(xevents) = "press"]
          /\ signals' = IF Presses(Head(xevents))
                        THEN Append(signals, Signal("pressed", TRUE)) ELSE signals
       \/ /\ xevents = <<>>
          /\ worker' = [worker EXCEPT !.pc = "polling"]
          /\ UNCHANGED <<signals, xevents>>
    /\ UNCHANGED <<gui, grabbed, starts, keys>>

\* Mutant: poll() waits for the display only.
WokenByDisplay == xevents # <<>>

Woken == worker.interrupted \/ xevents # <<>>

PollReturns ==
    /\ worker.pc = "polling"
    /\ Woken
    /\ worker' = [worker EXCEPT !.pc = IF worker.interrupted THEN "closing"
                                       ELSE "looping"]
    /\ UNCHANGED <<gui, signals, grabbed, xevents, starts, keys>>

Close ==
    /\ worker.pc = "closing"
    /\ worker' = [worker EXCEPT !.pc = "ended"]
    /\ grabbed' = FALSE
    /\ xevents' = <<>>
    /\ UNCHANGED <<gui, signals, starts, keys>>

\* The X server.
KeyEvent ==
    /\ grabbed
    /\ keys < MaxKeys
    /\ keys' = keys + 1
    /\ \E event \in {"press", "release"} : xevents' = Append(xevents, event)
    /\ UNCHANGED <<gui, worker, signals, grabbed, starts>>

-----------------------------------------------------------------------------
Next ==
    \/ Start \/ Stop \/ Joined \/ Deliver
    \/ Open \/ Loop \/ Drain \/ PollReturns \/ Close \/ KeyEvent

Fairness ==
    /\ WF_vars(Joined) /\ WF_vars(Deliver)
    /\ WF_vars(Open) /\ WF_vars(Loop) /\ WF_vars(Drain)
    /\ WF_vars(PollReturns) /\ WF_vars(Close)

-----------------------------------------------------------------------------
Quiet == signals = <<>> /\ blocked = "no" /\ worker.pc # "opening"

HeldAsShown == Quiet => registered = grabbed

NothingLeftBehind == worker = NoWorker => ~grabbed /\ xevents = <<>>

\* start() and stop() return, and the worker has then tried to grab the key.
Settled == blocked = "no" /\ worker.pc # "opening"
=============================================================================
