----------------------------- MODULE AtSpiMonitor ----------------------------
(***************************************************************************)
(* AtSpiSelectionMonitor.cpp and AtSpiNativeSession.cpp: the monitor in    *)
(* the GUI thread keeps the latest text selection of other programs.  A    *)
(* worker thread owns the accessibility bus.  The monitor posts commands   *)
(* to the worker; the worker posts states, events and results back.  Both  *)
(* queues are first in, first out and neither is ever emptied, so each     *)
(* thread acts on messages the other sent in an earlier state.             *)
(*                                                                         *)
(* The text, its rectangle and the descriptions on display are left out.   *)
(* A run is the time from one start() to the next; the runs and the tag    *)
(* "run" in commands, results and selections are bookkeeping.              *)
(***************************************************************************)
EXTENDS Naturals, Sequences

CONSTANTS
    MaxRuns,    \* bound: calls of start() with an effect
    MaxEvents   \* bound: selection events of the bus

ASSUME MonitorAssumption == MaxRuns \in Nat /\ MaxEvents \in Nat

VARIABLES
    enabled,    \* enabled_, and wanted_ of the session
    running,    \* status_.running
    sequence,   \* sequence_: the event last heard of in this run
    debounce,   \* the 80 ms timer is active
    latest,     \* latest_
    expiry,     \* the 45 s timer is active
    run,        \* the number of this run
    answered,   \* the event whose result was last taken
    commands,   \* the worker's queue
    messages,   \* queued signals of the worker
    worker      \* state of the worker thread

gui == <<enabled, running, sequence, debounce, latest, expiry, run, answered>>
vars == <<gui, commands, messages, worker>>

\* Event numbers start at 1, runs too.
None == [seq |-> 0, run |-> 0]

Selection == [seq : Nat, run : Nat]
Command   == [kind : {"start", "stop", "extract"}, seq : Nat, run : Nat]
Message   == [kind : {"state", "event", "selected", "nothing", "ignored"},
              seq : Nat, run : Nat, running : BOOLEAN]

\* thread: "none" before the first start, "starting" until its first state.
\* candidate: the run of event seq while its source waits to be read, or 0.
Worker == [thread : {"none", "starting", "looping"}, initialized : BOOLEAN,
           running : BOOLEAN, seq : Nat, candidate : Nat, run : Nat]

TypeOK ==
    /\ enabled \in BOOLEAN
    /\ running \in BOOLEAN
    /\ sequence \in Nat
    /\ debounce \in BOOLEAN
    /\ latest \in Selection
    /\ expiry \in BOOLEAN
    /\ run \in Nat
    /\ answered \in Nat
    /\ commands \in Seq(Command)
    /\ messages \in Seq(Message)
    /\ worker \in Worker

Init ==
    /\ enabled = FALSE
    /\ running = FALSE
    /\ sequence = 0
    /\ debounce = FALSE
    /\ latest = None
    /\ expiry = FALSE
    /\ run = 0
    /\ answered = 0
    /\ commands = <<>>
    /\ messages = <<>>
    /\ worker = [thread |-> "none", initialized |-> FALSE, running |-> FALSE,
                 seq |-> 0, candidate |-> 0, run |-> 0]

-----------------------------------------------------------------------------
(***************************************************************************)
(* The GUI thread                                                          *)
(***************************************************************************)
Post(kind, seq, r) ==
    commands' = Append(commands, [kind |-> kind, seq |-> seq, run |-> r])

Clear == latest' = None /\ expiry' = FALSE

\* The thread starts once and keeps running; later starts are commands.
Start ==
    /\ ~enabled
    /\ run < MaxRuns
    /\ enabled' = TRUE
    /\ sequence' = 0
    /\ run' = run + 1
    /\ IF worker.thread = "none"
       THEN /\ worker' = [worker EXCEPT !.thread = "starting", !.run = run + 1]
            /\ UNCHANGED commands
       ELSE Post("start", 0, run + 1) /\ UNCHANGED worker
    /\ UNCHANGED <<running, debounce, latest, expiry, answered, messages>>

Stop ==
    /\ enabled
    /\ enabled' = FALSE
    /\ running' = FALSE
    /\ debounce' = FALSE
    /\ Clear
    /\ Post("stop", 0, run)
    /\ UNCHANGED <<sequence, run, answered, messages, worker>>

Debounced ==
    /\ debounce
    /\ debounce' = FALSE
    /\ IF enabled /\ running THEN Post("extract", sequence, run)
       ELSE UNCHANGED commands
    /\ UNCHANGED <<enabled, running, sequence, latest, expiry, run, answered,
                   messages, worker>>

Expired ==
    /\ expiry
    /\ Clear
    /\ UNCHANGED <<enabled, running, sequence, debounce, run, answered,
                   commands, messages, worker>>

\* Mutant: states are shown whether or not the monitor is enabled.
ShowsAlways(m) == m.kind = "state"

ShowsState(m) == m.kind = "state" /\ enabled

OnState(m) ==
    /\ ShowsState(m)
    /\ running' = m.running
    /\ IF m.running THEN UNCHANGED <<debounce, latest, expiry>>
       ELSE debounce' = FALSE /\ Clear
    /\ UNCHANGED <<enabled, sequence, run, answered>>

TakesEvent(m) == m.kind = "event" /\ enabled /\ running

\* The timer starts, or starts again.
OnEvent(m) ==
    /\ TakesEvent(m)
    /\ sequence' = m.seq
    /\ debounce' = TRUE
    /\ UNCHANGED <<enabled, running, latest, expiry, run, answered>>

TakesResult(m) ==
    /\ m.kind \in {"selected", "nothing", "ignored"}
    /\ enabled /\ running /\ m.seq = sequence

OnResult(m) ==
    /\ TakesResult(m)
    /\ answered' = m.seq
    /\ \/ m.kind = "ignored" /\ UNCHANGED <<latest, expiry>>
       \/ m.kind = "nothing" /\ Clear
       \/ m.kind = "selected" /\ latest' = [seq |-> m.seq, run |-> m.run]
                              /\ expiry' = TRUE
    /\ UNCHANGED <<enabled, running, sequence, debounce, run>>

Deliver ==
    /\ messages # <<>>
    /\ messages' = Tail(messages)
    /\ LET m == Head(messages) IN
          \/ OnState(m) \/ OnEvent(m) \/ OnResult(m)
          \/ ~ShowsState(m) /\ ~TakesEvent(m) /\ ~TakesResult(m) /\ UNCHANGED gui
    /\ UNCHANGED <<commands, worker>>

-----------------------------------------------------------------------------
(***************************************************************************)
(* The worker thread.  The bus fails to initialize or to register the      *)
(* listener at will.                                                       *)
(***************************************************************************)
Emit(kind, seq, r, on) ==
    messages' = Append(messages, [kind |-> kind, seq |-> seq, run |-> r,
                                  running |-> on])

\* Mutant: the source of an earlier run is kept.
KeepsCandidate(w, on) == [w EXCEPT !.running = on]

Monitoring(w, on) == [w EXCEPT !.running = on, !.candidate = 0]

\* setMonitoring(true): nothing to register when it runs or the bus failed.
Listens(w, on) ==
    worker' = Monitoring(w, IF ~w.initialized \/ w.running THEN w.running ELSE on)

Begin ==
    /\ worker.thread = "starting"
    /\ \E ok, on \in BOOLEAN :
          Listens([worker EXCEPT !.thread = "looping", !.initialized = ok], on)
    /\ Emit("state", 0, 0, worker'.running)
    /\ UNCHANGED <<gui, commands>>

\* The listener's callback; libatspi calls it while it is registered.
NativeEvent ==
    /\ worker.running
    /\ worker.seq < MaxEvents
    /\ worker' = [worker EXCEPT !.seq = @ + 1, !.candidate = worker.run]
    /\ Emit("event", worker.seq + 1, 0, FALSE)
    /\ UNCHANGED <<gui, commands>>

OnStart(c) ==
    /\ c.kind = "start"
    /\ \E on \in BOOLEAN : Listens([worker EXCEPT !.run = c.run], on)
    /\ Emit("state", 0, 0, worker'.running)

OnStop(c) ==
    /\ c.kind = "stop"
    /\ worker' = Monitoring(worker, FALSE)
    /\ Emit("state", 0, 0, FALSE)

\* Mutant: whatever source waits is read for the event asked for.
ReadsAny(c) == worker.running /\ worker.candidate # 0

Reads(c) == worker.running /\ c.seq = worker.seq /\ worker.candidate # 0

\* The source is read once; a selection of this program is ignored.
OnExtract(c) ==
    /\ c.kind = "extract"
    /\ IF Reads(c)
       THEN /\ worker' = [worker EXCEPT !.candidate = 0]
            /\ \E kind \in {"selected", "nothing", "ignored"} :
                  Emit(kind, c.seq, worker.candidate, FALSE)
       ELSE UNCHANGED <<worker, messages>>

Dispatch ==
    /\ worker.thread = "looping"
    /\ commands # <<>>
    /\ commands' = Tail(commands)
    /\ LET c == Head(commands) IN OnStart(c) \/ OnStop(c) \/ OnExtract(c)
    /\ UNCHANGED gui

-----------------------------------------------------------------------------
Next ==
    \/ Start \/ Stop \/ Debounced \/ Expired \/ Deliver
    \/ Begin \/ NativeEvent \/ Dispatch

Spec == Init /\ [][Next]_vars

\* Both event loops and the timers run; nobody has to start, stop or select.
FairSpec ==
    /\ Spec
    /\ WF_vars(Deliver) /\ WF_vars(Debounced)
    /\ WF_vars(Begin) /\ WF_vars(Dispatch)

-----------------------------------------------------------------------------
(***************************************************************************)
(* A selection kept is one made in this run, while the monitor is shown    *)
(* running, it is of an event already heard of, and the timer that lets it *)
(* expire is active: results of an earlier run, which the two queues may   *)
(* still hold, are never taken.                                            *)
(***************************************************************************)
LatestOfThisRun ==
    latest # None =>
        /\ enabled /\ running /\ expiry
        /\ latest.run = run
        /\ latest.seq <= sequence

(***************************************************************************)
(* A stopped monitor is not shown running.  Once the queues are empty, the *)
(* state shown is the worker's: it does not listen to other programs then. *)
(***************************************************************************)
Quiet == worker.thread # "starting" /\ commands = <<>> /\ messages = <<>>

ListensAsShown ==
    /\ running => enabled
    /\ Quiet => running = worker.running

(***************************************************************************)
(* An event heard of is answered unless another follows or the monitor     *)
(* stops: no extraction is lost between the threads.                       *)
(***************************************************************************)
EventAnswered ==
    \A n \in 1..MaxEvents :
        (debounce /\ sequence = n) ~>
            (~enabled \/ ~running \/ sequence # n \/ answered = n)
=============================================================================
