-------------------------- MODULE AtSpiMonitorProofs -------------------------
(***************************************************************************)
(* The selection kept by the AT-SPI monitor is of this run, and the status *)
(* shown is the worker's, for any number of runs and events.  The argument *)
(* is about what the two queues may hold between the threads.              *)
(***************************************************************************)
EXTENDS AtSpiMonitor, SequenceTheorems, TLAPS

Indices(s) == 1..Len(s)

Results == {"selected", "nothing", "ignored"}

GuiInv ==
    /\ LatestOfThisRun
    /\ running => enabled
    /\ debounce => enabled /\ running /\ sequence > 0
    /\ sequence <= worker.seq

WorkerInv ==
    /\ worker.thread = "none" => ~enabled /\ commands = <<>>
    /\ worker.thread # "looping" =>
          messages = <<>> /\ ~worker.running /\ worker.candidate = 0 /\ ~running
    /\ worker.candidate # 0 => worker.candidate = worker.run

\* The command follows one of run r, or the worker is in run r.
Follows(c, r) == c.run = IF c.kind = "start" THEN r + 1 ELSE r

(***************************************************************************)
(* Commands carry the run they were posted in; the worker, who takes them  *)
(* in order, is in the run of the command it takes.                        *)
(***************************************************************************)
RunsInOrder ==
    /\ commands = <<>> => worker.run = run
    /\ commands # <<>> =>
          Follows(commands[1], worker.run) /\ commands[Len(commands)].run = run
    /\ \A i \in Indices(commands) :
          i > 1 => Follows(commands[i], commands[i - 1].run)

(***************************************************************************)
(* A question or answer about an event is not about the event last heard   *)
(* of, unless both belong to this run.                                     *)
(***************************************************************************)
Known(seq, r) ==
    /\ 0 < seq /\ seq <= worker.seq
    /\ r <= run
    /\ r < run => seq # sequence

ExtractsKnown ==
    \A i \in Indices(commands) :
        commands[i].kind = "extract" => Known(commands[i].seq, commands[i].run)

ResultsKnown ==
    \A i \in Indices(messages) :
        messages[i].kind \in Results => Known(messages[i].seq, messages[i].run)

\* Events still to be heard of are newer than all others.
EventsInOrder ==
    \A j \in Indices(messages) : messages[j].kind = "event" =>
        /\ messages[j].seq <= worker.seq
        /\ sequence < messages[j].seq
        /\ \A i \in Indices(commands) :
              commands[i].kind = "extract" => commands[i].seq < messages[j].seq
        /\ \A i \in Indices(messages) :
              messages[i].kind \in Results => messages[i].seq < messages[j].seq
        /\ \A i \in 1..(j - 1) :
              messages[i].kind = "event" => messages[i].seq < messages[j].seq

NoControl == \A i \in Indices(commands) : commands[i].kind = "extract"

LastControl(i) ==
    /\ commands[i].kind # "extract"
    /\ \A j \in (i + 1)..Len(commands) : commands[j].kind = "extract"

\* The last start or stop posted is what the monitor wants.
ControlInv ==
    /\ \A i \in Indices(commands) :
          LastControl(i) => (enabled <=> commands[i].kind = "start")
    /\ NoControl /\ worker.thread = "starting" => enabled
    /\ NoControl /\ worker.running => enabled

NoState == \A i \in Indices(messages) : messages[i].kind # "state"

LastState(i) ==
    /\ messages[i].kind = "state"
    /\ \A j \in (i + 1)..Len(messages) : messages[j].kind # "state"

\* The last state posted is the worker's.
StateInv ==
    /\ \A i \in Indices(messages) :
          LastState(i) => (messages[i].running <=> worker.running)
    /\ NoState /\ NoControl /\ worker.thread # "starting" =>
          (running <=> worker.running)

MonitorInv ==
    /\ TypeOK /\ GuiInv /\ WorkerInv /\ RunsInOrder
    /\ ExtractsKnown /\ ResultsKnown /\ EventsInOrder
    /\ ControlInv /\ StateInv

-----------------------------------------------------------------------------
(***************************************************************************)
(* Elements of a queue after an element is taken or appended.              *)
(***************************************************************************)
LEMMA Taken ==
  ASSUME NEW S, NEW s \in Seq(S), s # <<>>
  PROVE  /\ Tail(s) \in Seq(S)
         /\ Head(s) = s[1] /\ s[1] \in S
         /\ Len(s) \in Nat /\ Len(s) > 0 /\ Len(Tail(s)) = Len(s) - 1
         /\ \A i \in 1..(Len(s) - 1) : Tail(s)[i] = s[i + 1]
  BY HeadTailProperties

LEMMA Appended ==
  ASSUME NEW S, NEW s \in Seq(S), NEW e \in S
  PROVE  /\ Append(s, e) \in Seq(S) /\ Append(s, e) # <<>>
         /\ Len(s) \in Nat /\ Len(Append(s, e)) = Len(s) + 1
         /\ Append(s, e)[Len(s) + 1] = e
         /\ \A i \in 1..Len(s) : Append(s, e)[i] = s[i]
  BY AppendProperties

LEMMA CommandPosted ==
  ASSUME TypeOK, NEW e \in Command, commands' = Append(commands, e)
  PROVE  /\ commands' \in Seq(Command) /\ commands' # <<>>
         /\ Len(commands) \in Nat /\ Len(commands') = Len(commands) + 1
         /\ commands'[Len(commands) + 1] = e
         /\ \A i \in 1..Len(commands) : commands'[i] = commands[i]
  BY Appended DEF TypeOK

LEMMA CommandTaken ==
  ASSUME TypeOK, commands # <<>>, commands' = Tail(commands)
  PROVE  /\ commands' \in Seq(Command)
         /\ Head(commands) = commands[1] /\ commands[1] \in Command
         /\ Len(commands) \in Nat /\ Len(commands) > 0
         /\ Len(commands') = Len(commands) - 1
         /\ \A i \in 1..(Len(commands) - 1) : commands'[i] = commands[i + 1]
  BY Taken DEF TypeOK

LEMMA MessagePosted ==
  ASSUME TypeOK, NEW e \in Message, messages' = Append(messages, e)
  PROVE  /\ messages' \in Seq(Message) /\ messages' # <<>>
         /\ Len(messages) \in Nat /\ Len(messages') = Len(messages) + 1
         /\ messages'[Len(messages) + 1] = e
         /\ \A i \in 1..Len(messages) : messages'[i] = messages[i]
  BY Appended DEF TypeOK

LEMMA MessageTaken ==
  ASSUME TypeOK, messages # <<>>, messages' = Tail(messages)
  PROVE  /\ messages' \in Seq(Message)
         /\ Head(messages) = messages[1] /\ messages[1] \in Message
         /\ Len(messages) \in Nat /\ Len(messages) > 0
         /\ Len(messages') = Len(messages) - 1
         /\ \A i \in 1..(Len(messages) - 1) : messages'[i] = messages[i + 1]
  BY Taken DEF TypeOK

\* What the elements of the queues are.
LEMMA QueueElements ==
  ASSUME TypeOK
  PROVE  /\ Len(commands) \in Nat /\ Len(messages) \in Nat
         /\ \A i \in Indices(commands) : commands[i] \in Command
         /\ \A i \in Indices(messages) : messages[i] \in Message
  BY ElementOfSeq, LenProperties DEF TypeOK, Indices

LEMMA MonitorInitInv == Init => MonitorInv
<1> SUFFICES ASSUME Init PROVE MonitorInv
  OBVIOUS
<1> USE DEF Init
<1>1. TypeOK
  <2>1. commands \in Seq(Command) /\ messages \in Seq(Message)
    BY EmptySeq
  <2>2. worker \in Worker
    BY DEF Worker
  <2>3. latest \in Selection
    BY DEF None, Selection
  <2>4. QED
    BY <2>1, <2>2, <2>3 DEF TypeOK
<1>2. GuiInv /\ WorkerInv
  BY DEF GuiInv, WorkerInv, LatestOfThisRun
<1>3. Len(commands) = 0 /\ Len(messages) = 0
  BY EmptySeq
<1>4. RunsInOrder /\ ExtractsKnown /\ ResultsKnown /\ EventsInOrder
  BY <1>3 DEF RunsInOrder, ExtractsKnown, ResultsKnown, EventsInOrder, Indices
<1>5. ControlInv /\ StateInv
  BY <1>3 DEF ControlInv, StateInv, Indices
<1>6. QED
  BY <1>1, <1>2, <1>4, <1>5 DEF MonitorInv

-----------------------------------------------------------------------------
(***************************************************************************)
(* Steps of the GUI thread                                                 *)
(***************************************************************************)
LEMMA StartInv ==
  ASSUME MonitorInv, Start
  PROVE  MonitorInv'
<1> USE DEF MonitorInv
<1>1. run \in Nat /\ worker \in Worker
  BY DEF TypeOK
<1>2. /\ ~enabled /\ enabled' = TRUE /\ sequence' = 0 /\ run' = run + 1
      /\ UNCHANGED <<running, debounce, latest, expiry, answered, messages>>
  BY DEF Start
<1>3. CASE worker.thread = "none"
  <2>1. /\ worker' = [worker EXCEPT !.thread = "starting", !.run = run + 1]
        /\ commands' = <<>> /\ commands = <<>> /\ messages = <<>>
    BY <1>3 DEF Start, WorkerInv
  <2>2. Len(commands') = 0 /\ Len(messages') = 0 /\ messages' = <<>>
    BY <1>2, <2>1, EmptySeq
  <2>3. /\ worker' \in Worker /\ worker'.seq = worker.seq /\ worker'.thread = "starting"
        /\ worker'.running = worker.running /\ worker'.candidate = worker.candidate
        /\ worker'.run = run'
    <3>1. worker \in Worker /\ run' \in Nat /\ worker'.run = run'
      BY <1>1, <1>2, <2>1 DEF Worker
    <3>2. QED
      BY <2>1, <3>1, <1>2 DEF Worker
  <2>4. TypeOK'
    BY <1>1, <1>2, <2>1, <2>3 DEF TypeOK
  <2>5. GuiInv' /\ WorkerInv'
    BY <1>1, <1>2, <1>3, <2>2, <2>3 DEF GuiInv, WorkerInv, LatestOfThisRun, Worker
  <2>6. RunsInOrder' /\ ExtractsKnown' /\ ResultsKnown' /\ EventsInOrder'
    BY <2>2, <2>3
    DEF RunsInOrder, ExtractsKnown, ResultsKnown, EventsInOrder, Indices, Worker
  <2>7. ControlInv' /\ StateInv'
    BY <1>2, <2>2, <2>3 DEF ControlInv, StateInv, Indices
  <2>8. QED
    BY <2>4, <2>5, <2>6, <2>7
<1>4. CASE worker.thread # "none"
  <2> DEFINE c == [kind |-> "start", seq |-> 0, run |-> run + 1]
  <2>1. worker' = worker /\ messages' = messages /\ commands' = Append(commands, c)
    BY <1>4 DEF Start, Post
  <2>2. c \in Command
    BY <1>1 DEF Command
  <2>3. c.kind = "start" /\ c.run = run + 1
    OBVIOUS
  <2> HIDE DEF c
  <2>4. /\ commands' \in Seq(Command) /\ commands' # <<>>
        /\ Len(commands) \in Nat /\ Len(commands') = Len(commands) + 1
        /\ commands'[Len(commands) + 1] = c
        /\ \A i \in 1..Len(commands) : commands'[i] = commands[i]
    BY <2>1, <2>2, CommandPosted
  <2>5. TypeOK'
    BY <1>1, <1>2, <2>1, <2>4 DEF TypeOK
  <2>6. GuiInv' /\ WorkerInv'
    BY <1>1, <1>2, <1>4, <2>1 DEF GuiInv, WorkerInv, LatestOfThisRun, TypeOK, Worker
  <2>7. RunsInOrder'
    BY <1>2, <2>1, <2>3, <2>4 DEF RunsInOrder, Follows, Indices
  <2>8. ExtractsKnown' /\ ResultsKnown'
    BY <1>1, <1>2, <2>1, <2>3, <2>4, QueueElements
    DEF ExtractsKnown, ResultsKnown, Known, Indices, Command, Message
  <2>9. EventsInOrder'
    <3>1. \A i \in Indices(commands') : commands'[i].kind = "extract" =>
             i \in Indices(commands) /\ commands'[i] = commands[i]
      BY <2>3, <2>4 DEF Indices
    <3>2. \A i \in Indices(messages) :
             messages[i].kind = "event" => sequence' < messages[i].seq
      BY <1>2, QueueElements DEF EventsInOrder, TypeOK, Message
    <3>3. QED
      BY <1>2, <2>1, <3>1, <3>2 DEF EventsInOrder, Indices
  <2>10. ControlInv'
    BY <1>2, <2>1, <2>3, <2>4 DEF ControlInv, LastControl, NoControl, Indices
  <2>11. StateInv'
    BY <1>2, <2>1, <2>3, <2>4 DEF StateInv, LastState, NoState, NoControl, Indices
  <2>12. QED
    BY <2>5, <2>6, <2>7, <2>8, <2>9, <2>10, <2>11
<1>5. QED
  BY <1>3, <1>4

LEMMA StopInv ==
  ASSUME MonitorInv, Stop
  PROVE  MonitorInv'
<1> USE DEF MonitorInv
<1> DEFINE c == [kind |-> "stop", seq |-> 0, run |-> run]
<1>1. run \in Nat /\ worker \in Worker
  BY DEF TypeOK
<1>2. /\ enabled /\ enabled' = FALSE /\ running' = FALSE /\ debounce' = FALSE
      /\ latest' = None /\ expiry' = FALSE
      /\ commands' = Append(commands, c)
      /\ UNCHANGED <<sequence, run, answered, messages, worker>>
  BY DEF Stop, Post, Clear
<1>3. c \in Command
  BY <1>1 DEF Command
<1>4. c.kind = "stop" /\ c.run = run
  OBVIOUS
<1> HIDE DEF c
<1>5. /\ commands' \in Seq(Command) /\ commands' # <<>>
      /\ Len(commands) \in Nat /\ Len(commands') = Len(commands) + 1
      /\ commands'[Len(commands) + 1] = c
      /\ \A i \in 1..Len(commands) : commands'[i] = commands[i]
  BY <1>2, <1>3, CommandPosted
<1>6. TypeOK'
  <2>1. None \in Selection
    BY DEF None, Selection
  <2>2. QED
    BY <1>1, <1>2, <1>5, <2>1 DEF TypeOK
<1>7. GuiInv' /\ WorkerInv'
  BY <1>1, <1>2 DEF GuiInv, WorkerInv, LatestOfThisRun, TypeOK
<1>8. RunsInOrder'
  BY <1>2, <1>4, <1>5 DEF RunsInOrder, Follows, Indices
<1>9. ExtractsKnown' /\ ResultsKnown'
  BY <1>2, <1>4, <1>5, QueueElements
  DEF ExtractsKnown, ResultsKnown, Known, Indices, Command, Message
<1>10. EventsInOrder'
  <2>1. \A i \in Indices(commands') : commands'[i].kind = "extract" =>
           i \in Indices(commands) /\ commands'[i] = commands[i]
    BY <1>4, <1>5 DEF Indices
  <2>2. QED
    BY <1>2, <2>1 DEF EventsInOrder, Indices
<1>11. ControlInv'
  BY <1>2, <1>4, <1>5 DEF ControlInv, LastControl, NoControl, Indices
<1>12. StateInv'
  BY <1>2, <1>4, <1>5 DEF StateInv, LastState, NoState, NoControl, Indices
<1>13. QED
  BY <1>6, <1>7, <1>8, <1>9, <1>10, <1>11, <1>12

LEMMA DebouncedInv ==
  ASSUME MonitorInv, Debounced
  PROVE  MonitorInv'
<1> USE DEF MonitorInv
<1> DEFINE c == [kind |-> "extract", seq |-> sequence, run |-> run]
<1>1. run \in Nat /\ sequence \in Nat /\ worker \in Worker
  BY DEF TypeOK
<1>2. enabled /\ running /\ sequence > 0 /\ sequence <= worker.seq
  BY DEF Debounced, GuiInv
<1>3. /\ debounce' = FALSE
      /\ commands' = Append(commands, c)
      /\ UNCHANGED <<enabled, running, sequence, latest, expiry, run, answered,
                     messages, worker>>
  BY <1>2 DEF Debounced, Post
<1>4. c \in Command
  BY <1>1 DEF Command
<1>5. c.kind = "extract" /\ c.seq = sequence /\ c.run = run
  OBVIOUS
<1> HIDE DEF c
<1>6. /\ commands' \in Seq(Command) /\ commands' # <<>>
      /\ Len(commands) \in Nat /\ Len(commands') = Len(commands) + 1
      /\ commands'[Len(commands) + 1] = c
      /\ \A i \in 1..Len(commands) : commands'[i] = commands[i]
  BY <1>3, <1>4, CommandPosted
<1>7. TypeOK'
  BY <1>1, <1>3, <1>6 DEF TypeOK
<1>8. GuiInv' /\ WorkerInv'
  BY <1>2, <1>3 DEF GuiInv, WorkerInv, LatestOfThisRun, TypeOK
<1>9. RunsInOrder'
  BY <1>3, <1>5, <1>6 DEF RunsInOrder, Follows, Indices
<1>10. ExtractsKnown' /\ ResultsKnown'
  BY <1>1, <1>2, <1>3, <1>5, <1>6, QueueElements
  DEF ExtractsKnown, ResultsKnown, Known, Indices, Command, Message
<1>11. EventsInOrder'
  <2>1. \A i \in Indices(commands') :
           \/ i \in Indices(commands) /\ commands'[i] = commands[i]
           \/ commands'[i].seq = sequence
    BY <1>5, <1>6 DEF Indices
  <2>2. QED
    BY <1>3, <2>1 DEF EventsInOrder, Indices
<1>12. ControlInv'
  BY <1>3, <1>5, <1>6 DEF ControlInv, LastControl, NoControl, Indices
<1>13. StateInv'
  BY <1>3, <1>5, <1>6 DEF StateInv, LastState, NoState, NoControl, Indices
<1>14. QED
  BY <1>7, <1>8, <1>9, <1>10, <1>11, <1>12, <1>13

LEMMA ExpiredInv ==
  ASSUME MonitorInv, Expired
  PROVE  MonitorInv'
<1> USE DEF MonitorInv
<1>1. /\ latest' = None /\ expiry' = FALSE
      /\ UNCHANGED <<enabled, running, sequence, debounce, run, answered,
                     commands, messages, worker>>
  BY DEF Expired, Clear
<1>2. None \in Selection
  BY DEF None, Selection
<1>3. TypeOK'
  BY <1>1, <1>2 DEF TypeOK
<1>4. GuiInv' /\ WorkerInv' /\ RunsInOrder'
  BY <1>1 DEF GuiInv, WorkerInv, RunsInOrder, LatestOfThisRun, Follows, Indices
<1>5. ExtractsKnown' /\ ResultsKnown' /\ EventsInOrder'
  BY <1>1 DEF ExtractsKnown, ResultsKnown, EventsInOrder, Known, Indices
<1>6. ControlInv' /\ StateInv'
  BY <1>1 DEF ControlInv, StateInv, NoControl, LastControl, NoState, LastState, Indices
<1>7. QED
  BY <1>3, <1>4, <1>5, <1>6

(***************************************************************************)
(* What a delivery does, whichever slot takes the message m.               *)
(***************************************************************************)
LEMMA Delivered ==
  ASSUME MonitorInv, Deliver
  PROVE  /\ messages # <<>> /\ messages' = Tail(messages)
         /\ messages' \in Seq(Message)
         /\ Len(messages) \in Nat /\ Len(messages) > 0
         /\ Len(messages') = Len(messages) - 1
         /\ \A i \in 1..(Len(messages) - 1) : messages'[i] = messages[i + 1]
         /\ messages[1] \in Message
         /\ UNCHANGED <<commands, worker, run, enabled>>
         /\ worker.thread = "looping"
         /\ \/ OnState(messages[1]) \/ OnEvent(messages[1]) \/ OnResult(messages[1])
            \/ ~ShowsState(messages[1]) /\ UNCHANGED gui
<1> USE DEF MonitorInv
<1>1. messages # <<>> /\ messages' = Tail(messages)
  BY DEF Deliver
<1>2. /\ messages' \in Seq(Message)
      /\ Head(messages) = messages[1] /\ messages[1] \in Message
      /\ Len(messages) \in Nat /\ Len(messages) > 0
      /\ Len(messages') = Len(messages) - 1
      /\ \A i \in 1..(Len(messages) - 1) : messages'[i] = messages[i + 1]
  BY <1>1, MessageTaken
<1>3. UNCHANGED <<commands, worker>>
  BY DEF Deliver
<1>4. \/ OnState(messages[1]) \/ OnEvent(messages[1]) \/ OnResult(messages[1])
      \/ ~ShowsState(messages[1]) /\ UNCHANGED gui
  BY <1>2 DEF Deliver
<1>5. UNCHANGED <<run, enabled>>
  BY <1>4 DEF OnState, OnEvent, OnResult, gui
<1>6. worker.thread = "looping"
  BY <1>1 DEF WorkerInv
<1>7. QED
  BY <1>1, <1>2, <1>3, <1>4, <1>5, <1>6

LEMMA DeliveredGui ==
  ASSUME MonitorInv, Deliver
  PROVE  TypeOK' /\ GuiInv' /\ WorkerInv'
<1> USE DEF MonitorInv
<1> DEFINE m == messages[1]
<1>1. /\ m \in Message /\ messages' \in Seq(Message) /\ messages # <<>>
      /\ Len(messages) > 0 /\ worker.thread = "looping" /\ worker \in Worker
      /\ UNCHANGED <<commands, worker, run, enabled>>
  BY Delivered DEF TypeOK
<1>2. m.kind = "event" => m.seq <= worker.seq /\ sequence < m.seq
  BY <1>1 DEF EventsInOrder, Indices
<1>3. m.kind \in Results => Known(m.seq, m.run)
  BY <1>1 DEF ResultsKnown, Indices
<1>4. \/ OnState(m) \/ OnEvent(m) \/ OnResult(m) \/ UNCHANGED gui
  BY Delivered
<1>5. m.seq \in Nat /\ m.run \in Nat /\ m.running \in BOOLEAN
  BY <1>1 DEF Message
<1>6. None \in Selection /\ [seq |-> m.seq, run |-> m.run] \in Selection
  BY <1>5 DEF None, Selection
<1> HIDE DEF m
<1>7. WorkerInv'
  <2>1. worker.thread = "looping" /\ UNCHANGED <<worker>>
    BY <1>1
  <2>2. QED
    BY <2>1 DEF WorkerInv
<1>8. CASE OnState(m)
  <2>1. TypeOK'
    BY <1>1, <1>5, <1>6, <1>8 DEF OnState, Clear, TypeOK
  <2>2. GuiInv'
    BY <1>1, <1>8 DEF OnState, ShowsState, Clear, GuiInv, LatestOfThisRun
  <2>3. QED
    BY <1>7, <2>1, <2>2
<1>9. CASE OnEvent(m)
  <2>1. TypeOK'
    BY <1>1, <1>5, <1>9 DEF OnEvent, TypeOK
  <2>2. sequence \in Nat /\ sequence' = m.seq /\ latest \in Selection
    BY <1>9 DEF OnEvent, TypeOK
  <2>3. sequence' > sequence /\ sequence' <= worker.seq
    BY <1>2, <1>9, <2>2 DEF OnEvent, TakesEvent
  <2>4. GuiInv'
    BY <1>1, <1>5, <1>9, <2>2, <2>3
    DEF OnEvent, TakesEvent, GuiInv, LatestOfThisRun, Selection, None
  <2>5. QED
    BY <1>7, <2>1, <2>4
<1>10. CASE OnResult(m)
  <2>1. TypeOK'
    BY <1>1, <1>5, <1>6, <1>10 DEF OnResult, Clear, TypeOK
  <2>2. m.seq = sequence /\ m.run = run /\ enabled /\ running
    BY <1>3, <1>5, <1>10 DEF OnResult, TakesResult, Known, Results, TypeOK
  <2>3. GuiInv'
    BY <1>1, <1>5, <1>10, <2>2 DEF OnResult, Clear, GuiInv, LatestOfThisRun
  <2>4. QED
    BY <1>7, <2>1, <2>3
<1>11. CASE UNCHANGED gui
  <2>1. TypeOK'
    BY <1>1, <1>11 DEF gui, TypeOK
  <2>2. GuiInv'
    BY <1>1, <1>11 DEF gui, GuiInv, LatestOfThisRun
  <2>3. QED
    BY <1>7, <2>1, <2>2
<1>12. QED
  BY <1>4, <1>8, <1>9, <1>10, <1>11

LEMMA DeliveredQueues ==
  ASSUME MonitorInv, Deliver
  PROVE  /\ RunsInOrder' /\ ExtractsKnown' /\ ResultsKnown' /\ EventsInOrder'
         /\ ControlInv' /\ StateInv'
<1> USE DEF MonitorInv
<1> DEFINE m == messages[1]
<1>1. /\ Len(messages) \in Nat /\ Len(messages) > 0
      /\ Len(messages') = Len(messages) - 1
      /\ \A i \in 1..(Len(messages) - 1) : messages'[i] = messages[i + 1]
      /\ UNCHANGED <<commands, worker, run, enabled>>
  BY Delivered
<1>2. \/ sequence' = sequence
      \/ m.kind = "event" /\ sequence' = m.seq
  BY Delivered DEF OnState, OnEvent, TakesEvent, OnResult, gui
<1>3. sequence \in Nat /\ worker \in Worker
  BY DEF TypeOK
<1>4. RunsInOrder' /\ ControlInv'
  BY <1>1 DEF RunsInOrder, Follows, ControlInv, NoControl, LastControl, Indices
<1>5. /\ 1 \in Indices(messages)
      /\ \A i \in Indices(messages') :
            i + 1 \in Indices(messages) /\ messages'[i] = messages[i + 1] /\ i + 1 > 1
      /\ \A i \in Indices(messages) :
            i > 1 => i - 1 \in Indices(messages') /\ messages'[i - 1] = messages[i]
  BY <1>1 DEF Indices
<1>6. ExtractsKnown'
  BY <1>1, <1>2, QueueElements
  DEF ExtractsKnown, EventsInOrder, Known, Indices, Command, Message
<1>7. ResultsKnown'
  <2>1. ASSUME NEW i \in Indices(messages'), messages'[i].kind \in Results
        PROVE  Known(messages[i].seq, messages[i].run)'
    <3>1. messages'[i] \in Message /\ i + 1 \in Indices(messages) /\ messages'[i] = messages[i + 1]
      BY <1>5, QueueElements
    <3>2. Known(messages'[i].seq, messages'[i].run)
      BY <2>1, <3>1 DEF ResultsKnown
    <3>3. m.kind = "event" => messages'[i].seq < m.seq
      BY <1>5, <2>1, <3>1 DEF EventsInOrder
    <3>4. messages'[i].seq \in Nat /\ m.seq \in Nat
      BY <1>5, <3>1, QueueElements DEF Message
    <3>5. QED
      BY <1>1, <1>2, <3>2, <3>3, <3>4 DEF Known
  <2>2. QED
    BY <2>1 DEF ResultsKnown
<1>8. EventsInOrder'
  <2>1. ASSUME NEW j \in Indices(messages'), messages'[j].kind = "event"
        PROVE  /\ messages'[j].seq <= worker'.seq
               /\ sequence' < messages'[j].seq
               /\ \A i \in Indices(commands') :
                     commands'[i].kind = "extract" => commands'[i].seq < messages'[j].seq
               /\ \A i \in Indices(messages') :
                     messages'[i].kind \in Results => messages'[i].seq < messages'[j].seq
               /\ \A i \in 1..(j - 1) :
                     messages'[i].kind = "event" => messages'[i].seq < messages'[j].seq
    <3> DEFINE k == j + 1
    <3>1. /\ k \in Indices(messages) /\ messages'[j] = messages[k] /\ j \in Nat
          /\ messages[k].kind = "event" /\ 1 \in 1..(k - 1)
      BY <1>5, <2>1 DEF Indices
    <3> HIDE DEF k
    <3>2. /\ messages[k].seq <= worker.seq /\ sequence < messages[k].seq
          /\ m.kind = "event" => m.seq < messages[k].seq
          /\ \A i \in Indices(commands) :
                commands[i].kind = "extract" => commands[i].seq < messages[k].seq
          /\ \A i \in Indices(messages) :
                messages[i].kind \in Results => messages[i].seq < messages[k].seq
      BY <3>1 DEF EventsInOrder
    <3>3. ASSUME NEW i \in 1..(j - 1), messages'[i].kind = "event"
          PROVE  messages'[i].seq < messages'[j].seq
      <4>1. i \in Indices(messages') /\ i + 1 \in 1..(k - 1)
        BY <3>1 DEF k, Indices
      <4>2. QED
        BY <1>5, <3>1, <3>3, <4>1 DEF EventsInOrder
    <3>4. QED
      BY <1>1, <1>2, <1>5, <3>1, <3>2, <3>3
  <2>2. QED
    BY <2>1 DEF EventsInOrder
<1>9. StateInv'
  <2>1. \A i \in Indices(messages') : LastState(i)' => (messages'[i].running <=> worker'.running)
    <3>1. ASSUME NEW i \in Indices(messages'), LastState(i)'
          PROVE  LastState(i + 1)
      BY <1>1, <1>5, <3>1 DEF LastState, Indices
    <3>2. QED
      BY <1>1, <1>5, <3>1 DEF StateInv
  <2>2. ASSUME NoState', NoControl', worker'.thread # "starting"
        PROVE  running' <=> worker'.running
    <3>1. NoControl /\ worker.thread = "looping"
      BY <1>1, <2>2, Delivered DEF NoControl, Indices
    <3>2. CASE m.kind = "state"
      <4>1. LastState(1)
        BY <1>1, <1>5, <2>2, <3>2 DEF LastState, NoState, Indices
      <4>2. m.running <=> worker.running
        BY <1>1, <4>1 DEF StateInv, Indices
      <4>3. CASE enabled
        <5>1. OnState(m)
          BY <3>2, <4>3, Delivered
          DEF OnEvent, TakesEvent, OnResult, TakesResult, ShowsState, Results
        <5>2. QED
          BY <1>1, <4>2, <5>1 DEF OnState
      <4>4. CASE ~enabled
        <5>1. ~worker.running /\ ~running
          BY <3>1, <4>4 DEF ControlInv, GuiInv
        <5>2. running' = running
          BY <3>2, <4>4, Delivered
          DEF OnState, ShowsState, OnEvent, OnResult, gui
        <5>3. QED
          BY <1>1, <5>1, <5>2
      <4>5. QED
        BY <4>3, <4>4
    <3>3. CASE m.kind # "state"
      <4>1. NoState
        BY <1>1, <1>5, <2>2, <3>3 DEF NoState, Indices
      <4>2. running' = running
        BY <3>3, Delivered DEF OnState, ShowsState, OnEvent, OnResult, gui
      <4>3. QED
        BY <1>1, <3>1, <4>1, <4>2 DEF StateInv
    <3>4. QED
      BY <3>2, <3>3
  <2>3. QED
    BY <2>1, <2>2 DEF StateInv
<1>10. QED
  BY <1>4, <1>6, <1>7, <1>8, <1>9

-----------------------------------------------------------------------------
(***************************************************************************)
(* Steps of the worker thread                                              *)
(***************************************************************************)

\* What Begin and a start command do to the worker.
LEMMA ListensEffect ==
  ASSUME NEW w \in Worker, NEW on \in BOOLEAN, Listens(w, on),
         w.running => w.thread = "looping"
  PROVE  /\ worker' \in Worker
         /\ worker'.thread = w.thread /\ worker'.seq = w.seq /\ worker'.run = w.run
         /\ worker'.candidate = 0
<1>1. PICK b \in BOOLEAN : worker' = [w EXCEPT !.running = b, !.candidate = 0]
  <2>1. w.running \in BOOLEAN
    BY DEF Worker
  <2>2. CASE ~w.initialized \/ w.running
    BY <2>1, <2>2 DEF Listens, Monitoring
  <2>3. CASE ~(~w.initialized \/ w.running)
    BY <2>3 DEF Listens, Monitoring
  <2>4. QED
    BY <2>2, <2>3
<1>2. QED
  BY <1>1 DEF Worker

(***************************************************************************)
(* A state appended to the messages changes nothing of what they say about *)
(* events, and is the last state.                                          *)
(***************************************************************************)
LEMMA StatePosted ==
  ASSUME MonitorInv, NEW on \in BOOLEAN, Emit("state", 0, 0, on),
         UNCHANGED <<sequence, run>>, worker'.seq = worker.seq,
         worker'.running = on,
         \A i \in Indices(commands') : commands'[i].kind = "extract" =>
            \E k \in Indices(commands) : commands'[i] = commands[k]
  PROVE  /\ messages' \in Seq(Message)
         /\ ExtractsKnown' /\ ResultsKnown' /\ EventsInOrder' /\ StateInv'
<1> USE DEF MonitorInv
<1> DEFINE e == [kind |-> "state", seq |-> 0, run |-> 0, running |-> on]
<1>1. e \in Message /\ messages' = Append(messages, e)
  BY DEF Message, Emit
<1>2. e.kind = "state" /\ e.running = on
  OBVIOUS
<1> HIDE DEF e
<1>3. /\ messages' \in Seq(Message) /\ messages' # <<>>
      /\ Len(messages) \in Nat /\ Len(messages') = Len(messages) + 1
      /\ messages'[Len(messages) + 1] = e
      /\ \A i \in 1..Len(messages) : messages'[i] = messages[i]
  BY <1>1, MessagePosted
<1>4. \A i \in Indices(messages') : messages'[i].kind # "state" =>
         i \in Indices(messages) /\ messages'[i] = messages[i]
  BY <1>2, <1>3 DEF Indices
<1>5. ExtractsKnown'
  BY DEF ExtractsKnown, Known
<1>6. ResultsKnown'
  BY <1>4 DEF ResultsKnown, Known, Results
<1>7. EventsInOrder'
  <2>1. ASSUME NEW j \in Indices(messages'), messages'[j].kind = "event"
        PROVE  /\ messages'[j].seq <= worker'.seq
               /\ sequence' < messages'[j].seq
               /\ \A i \in Indices(commands') :
                     commands'[i].kind = "extract" => commands'[i].seq < messages'[j].seq
               /\ \A i \in Indices(messages') :
                     messages'[i].kind \in Results => messages'[i].seq < messages'[j].seq
               /\ \A i \in 1..(j - 1) :
                     messages'[i].kind = "event" => messages'[i].seq < messages'[j].seq
    <3>1. j \in Indices(messages) /\ messages'[j] = messages[j]
      BY <1>4, <2>1
    <3>2. \A i \in 1..(j - 1) : i \in Indices(messages) /\ messages'[i] = messages[i]
      BY <1>3, <3>1 DEF Indices
    <3>3. QED
      BY <1>4, <2>1, <3>1, <3>2 DEF EventsInOrder, Results
  <2>2. QED
    BY <2>1 DEF EventsInOrder
<1>8. StateInv'
  <2>1. ~NoState'
    BY <1>2, <1>3 DEF NoState, Indices
  <2>2. \A i \in Indices(messages') : LastState(i)' => i = Len(messages) + 1
    BY <1>2, <1>3 DEF LastState, Indices
  <2>3. QED
    BY <1>2, <1>3, <2>1, <2>2 DEF StateInv
<1>9. QED
  BY <1>3, <1>5, <1>6, <1>7, <1>8

LEMMA BeginInv ==
  ASSUME MonitorInv, Begin
  PROVE  MonitorInv'
<1> USE DEF MonitorInv
<1>1. PICK ok \in BOOLEAN, on \in BOOLEAN :
         Listens([worker EXCEPT !.thread = "looping", !.initialized = ok], on)
  BY DEF Begin
<1> DEFINE w == [worker EXCEPT !.thread = "looping", !.initialized = ok]
<1>2. /\ worker.thread = "starting" /\ ~worker.running /\ ~running
      /\ UNCHANGED <<gui, commands>>
      /\ Emit("state", 0, 0, worker'.running)
  BY DEF Begin, WorkerInv
<1>3. w \in Worker /\ w.thread = "looping" /\ w.seq = worker.seq /\ w.run = worker.run
  BY DEF TypeOK, Worker
<1>4. Listens(w, on)
  BY <1>1
<1> HIDE DEF w
<1>5. /\ worker' \in Worker /\ worker'.thread = "looping" /\ worker'.candidate = 0
      /\ worker'.seq = worker.seq /\ worker'.run = worker.run
  BY <1>3, <1>4, ListensEffect
<1>6. worker'.running \in BOOLEAN
  BY <1>5 DEF Worker
<1>7. /\ messages' \in Seq(Message)
      /\ ExtractsKnown' /\ ResultsKnown' /\ EventsInOrder' /\ StateInv'
  BY <1>2, <1>5, <1>6, StatePosted DEF gui
<1>8. TypeOK'
  BY <1>2, <1>5, <1>7 DEF TypeOK, gui
<1>9. GuiInv' /\ WorkerInv'
  BY <1>2, <1>5 DEF GuiInv, WorkerInv, LatestOfThisRun, gui
<1>10. RunsInOrder'
  BY <1>2, <1>5 DEF RunsInOrder, Follows, Indices, gui
<1>11. ControlInv'
  BY <1>2, <1>5 DEF ControlInv, NoControl, LastControl, Indices, gui
<1>12. QED
  BY <1>7, <1>8, <1>9, <1>10, <1>11

LEMMA NativeEventInv ==
  ASSUME MonitorInv, NativeEvent
  PROVE  MonitorInv'
<1> USE DEF MonitorInv
<1> DEFINE e == [kind |-> "event", seq |-> worker.seq + 1, run |-> 0, running |-> FALSE]
<1>1. worker.seq \in Nat /\ worker.run \in Nat /\ worker \in Worker /\ sequence \in Nat
  BY DEF TypeOK, Worker
<1>2. /\ worker.running /\ UNCHANGED <<gui, commands>>
      /\ worker' = [worker EXCEPT !.seq = @ + 1, !.candidate = worker.run]
      /\ messages' = Append(messages, e)
  BY DEF NativeEvent, Emit
<1>3. /\ worker' \in Worker /\ worker'.seq = worker.seq + 1
      /\ worker'.candidate = worker'.run /\ worker'.run = worker.run
      /\ worker'.running = worker.running /\ worker'.thread = worker.thread
  <2>1. PICK n \in Nat : n = worker.seq + 1
    BY <1>1
  <2>2. worker' = [worker EXCEPT !.seq = n, !.candidate = worker.run]
    BY <1>2, <2>1
  <2>3. worker' \in Worker
    BY <1>1, <2>2 DEF Worker
  <2>4. QED
    BY <1>1, <2>1, <2>2, <2>3 DEF Worker
<1>4. worker.thread = "looping"
  BY <1>2 DEF WorkerInv
<1>5. e \in Message
  BY <1>1 DEF Message
<1>6. e.kind = "event" /\ e.seq = worker.seq + 1
  OBVIOUS
<1> HIDE DEF e
<1>7. /\ messages' \in Seq(Message) /\ messages' # <<>>
      /\ Len(messages) \in Nat /\ Len(messages') = Len(messages) + 1
      /\ messages'[Len(messages) + 1] = e
      /\ \A i \in 1..Len(messages) : messages'[i] = messages[i]
  BY <1>2, <1>5, MessagePosted
<1>8. UNCHANGED <<sequence, run, running, enabled, commands>>
  BY <1>2 DEF gui
<1>9. TypeOK'
  BY <1>2, <1>3, <1>7 DEF TypeOK, gui
<1>10. GuiInv' /\ WorkerInv'
  BY <1>1, <1>2, <1>3, <1>4 DEF GuiInv, WorkerInv, LatestOfThisRun, gui
<1>11. RunsInOrder' /\ ControlInv'
  BY <1>3, <1>8 DEF RunsInOrder, Follows, ControlInv, NoControl, LastControl, Indices
<1>12. ExtractsKnown'
  BY <1>1, <1>3, <1>8, QueueElements DEF ExtractsKnown, Known, Command
<1>13. ResultsKnown'
  <2>1. \A i \in Indices(messages') : messages'[i].kind \in Results =>
           i \in Indices(messages) /\ messages'[i] = messages[i]
    BY <1>6, <1>7 DEF Indices, Results
  <2>2. QED
    BY <1>1, <1>3, <1>8, <2>1, QueueElements DEF ResultsKnown, Known, Message
<1>14. EventsInOrder'
  <2>1. ASSUME NEW j \in Indices(messages'), messages'[j].kind = "event"
        PROVE  /\ messages'[j].seq <= worker'.seq
               /\ sequence' < messages'[j].seq
               /\ \A i \in Indices(commands') :
                     commands'[i].kind = "extract" => commands'[i].seq < messages'[j].seq
               /\ \A i \in Indices(messages') :
                     messages'[i].kind \in Results => messages'[i].seq < messages'[j].seq
               /\ \A i \in 1..(j - 1) :
                     messages'[i].kind = "event" => messages'[i].seq < messages'[j].seq
    <3>1. \A i \in Indices(messages') : messages'[i].kind \in Results =>
             i \in Indices(messages) /\ messages'[i] = messages[i]
      BY <1>6, <1>7 DEF Indices, Results
    <3>2. \A i \in 1..(j - 1) : i \in Indices(messages) /\ messages'[i] = messages[i]
      BY <1>7, <2>1 DEF Indices
    <3>3. CASE j \in Indices(messages)
      <4>1. messages'[j] = messages[j] /\ messages[j].seq \in Nat
        BY <1>7, <3>3, QueueElements DEF Indices, Message
      <4>2. QED
        BY <1>1, <1>3, <1>8, <2>1, <3>1, <3>2, <3>3, <4>1 DEF EventsInOrder
    <3>4. CASE j = Len(messages) + 1
      <4>1. messages'[j].seq = worker.seq + 1
        BY <1>6, <1>7, <3>4
      <4>2. sequence <= worker.seq
        BY DEF GuiInv
      <4>3. \A i \in Indices(commands) :
               commands[i].kind = "extract" => commands[i].seq < worker.seq + 1
        BY <1>1, QueueElements DEF ExtractsKnown, Known, Command
      <4>4. \A i \in Indices(messages) :
               messages[i].kind \in Results \cup {"event"} => messages[i].seq < worker.seq + 1
        BY <1>1, QueueElements DEF ResultsKnown, EventsInOrder, Known, Message
      <4>5. QED
        BY <1>1, <1>3, <1>8, <3>1, <3>2, <4>1, <4>2, <4>3, <4>4
    <3>5. QED
      BY <1>7, <3>3, <3>4 DEF Indices
  <2>2. QED
    BY <2>1 DEF EventsInOrder
<1>15. StateInv'
  <2>1. \A i \in Indices(messages') : LastState(i)' => LastState(i) /\ i \in Indices(messages)
    BY <1>6, <1>7 DEF LastState, Indices
  <2>2. \A i \in Indices(messages) : i \in Indices(messages') /\ messages'[i] = messages[i]
    BY <1>7 DEF Indices
  <2>3. NoState' => NoState
    BY <2>2 DEF NoState
  <2>4. QED
    BY <1>3, <1>8, <2>1, <2>2, <2>3 DEF StateInv, NoControl
<1>16. QED
  BY <1>9, <1>10, <1>11, <1>12, <1>13, <1>14, <1>15

\* What a command taken leaves of the queue, c being the command.
LEMMA Dispatched ==
  ASSUME MonitorInv, Dispatch
  PROVE  /\ worker.thread = "looping" /\ UNCHANGED gui
         /\ commands' \in Seq(Command) /\ commands[1] \in Command
         /\ 1 \in Indices(commands)
         /\ \A i \in Indices(commands') :
               i + 1 \in Indices(commands) /\ i + 1 > 1 /\ commands'[i] = commands[i + 1]
         /\ \A i \in Indices(commands) :
               i > 1 => i - 1 \in Indices(commands') /\ commands'[i - 1] = commands[i]
         /\ Len(commands) \in Nat /\ Len(commands') = Len(commands) - 1
         /\ OnStart(commands[1]) \/ OnStop(commands[1]) \/ OnExtract(commands[1])
<1>1. /\ worker.thread = "looping" /\ commands # <<>> /\ commands' = Tail(commands)
      /\ UNCHANGED gui
  BY DEF Dispatch
<1>2. /\ commands' \in Seq(Command)
      /\ Head(commands) = commands[1] /\ commands[1] \in Command
      /\ Len(commands) \in Nat /\ Len(commands) > 0
      /\ Len(commands') = Len(commands) - 1
      /\ \A i \in 1..(Len(commands) - 1) : commands'[i] = commands[i + 1]
  BY <1>1, CommandTaken DEF MonitorInv
<1>3. OnStart(commands[1]) \/ OnStop(commands[1]) \/ OnExtract(commands[1])
  BY <1>2 DEF Dispatch
<1>4. QED
  BY <1>1, <1>2, <1>3 DEF Indices

\* The worker gets to the run of the command it takes.
LEMMA DispatchedRuns ==
  ASSUME MonitorInv, Dispatch, worker'.run = commands[1].run
  PROVE  RunsInOrder'
<1> USE DEF MonitorInv
<1>1. UNCHANGED run
  BY Dispatched DEF gui
<1>2. ASSUME commands' = <<>> PROVE worker'.run = run'
  <2>1. Len(commands) = 1
    BY <1>2, Dispatched, EmptySeq
  <2>2. commands # <<>>
    BY <2>1, EmptySeq
  <2>3. QED
    BY <1>1, <2>1, <2>2 DEF RunsInOrder
<1>3. ASSUME commands' # <<>>
      PROVE  Follows(commands'[1], worker'.run) /\ commands'[Len(commands')].run = run'
  <2>1. Len(commands') \in Nat /\ Len(commands') > 0
    BY <1>3, Dispatched, LenProperties, EmptySeq
  <2>2. commands # <<>>
    BY <2>1, Dispatched, EmptySeq
  <2>3. 1 \in Indices(commands') /\ Len(commands') \in Indices(commands')
    BY <2>1 DEF Indices
  <2>4. commands'[1] = commands[2] /\ 2 \in Indices(commands)
    <3>1. commands'[1] = commands[1 + 1] /\ 1 + 1 \in Indices(commands)
      BY <2>3, Dispatched
    <3>2. QED
      BY <3>1
  <2>5. commands'[Len(commands')] = commands[Len(commands)]
    <3>1. commands'[Len(commands')] = commands[Len(commands') + 1]
      BY <2>3, Dispatched
    <3>2. Len(commands') + 1 = Len(commands)
      BY Dispatched
    <3>3. QED
      BY <3>1, <3>2
  <2>6. QED
    BY <1>1, <2>2, <2>4, <2>5 DEF RunsInOrder, Follows
<1>4. ASSUME NEW i \in Indices(commands'), i > 1
      PROVE  Follows(commands'[i], commands'[i - 1].run)
  <2>1. /\ commands'[i] = commands[i + 1] /\ i + 1 \in Indices(commands)
        /\ commands'[i - 1] = commands[i] /\ (i + 1) - 1 = i /\ i + 1 > 1
    BY <1>4, Dispatched DEF Indices
  <2>2. QED
    BY <2>1 DEF RunsInOrder, Follows
<1>5. QED
  BY <1>2, <1>3, <1>4 DEF RunsInOrder, Follows

LEMMA DispatchedControl ==
  ASSUME MonitorInv, Dispatch, worker'.thread = "looping",
         commands[1].kind = "stop" => ~worker'.running,
         commands[1].kind = "extract" => worker'.running = worker.running
  PROVE  ControlInv'
<1> USE DEF MonitorInv
<1>1. UNCHANGED enabled
  BY Dispatched DEF gui
<1>2. ASSUME NEW i \in Indices(commands'), LastControl(i)'
      PROVE  enabled' <=> commands'[i].kind = "start"
  <2>1. LastControl(i + 1)
    <3>1. commands[i + 1].kind # "extract"
      BY <1>2, Dispatched DEF LastControl
    <3>2. ASSUME NEW j \in (i + 1 + 1)..Len(commands)
          PROVE  commands[j].kind = "extract"
      <4>1. j \in Indices(commands) /\ j > 1
        BY <1>2, Dispatched DEF Indices
      <4>2. j - 1 \in (i + 1)..Len(commands')
        BY <1>2, Dispatched DEF Indices
      <4>3. QED
        BY <1>2, <4>1, <4>2, Dispatched DEF LastControl
    <3>3. QED
      BY <3>1, <3>2 DEF LastControl
  <2>2. QED
    BY <1>1, <1>2, <2>1, Dispatched DEF ControlInv
<1>3. ASSUME NoControl', worker'.running PROVE enabled'
  <2>1. \A i \in Indices(commands) : i > 1 => commands[i].kind = "extract"
    BY <1>3, Dispatched DEF NoControl
  <2>2. CASE commands[1].kind = "extract"
    <3>1. NoControl
      BY <2>1, <2>2 DEF NoControl, Indices
    <3>2. QED
      BY <1>1, <1>3, <2>2, <3>1 DEF ControlInv
  <2>3. CASE commands[1].kind # "extract"
    <3>1. LastControl(1)
      BY <2>1, <2>3, Dispatched DEF LastControl, Indices
    <3>2. commands[1].kind = "start"
      BY <1>3, <2>3, Dispatched DEF Command
    <3>3. QED
      BY <1>1, <3>1, <3>2, Dispatched DEF ControlInv
  <2>4. QED
    BY <2>2, <2>3
<1>4. QED
  BY <1>2, <1>3 DEF ControlInv

\* A start or stop command taken.
LEMMA DispatchedSwitch ==
  ASSUME MonitorInv, Dispatch, worker' \in Worker, commands[1].kind # "extract",
         worker'.thread = worker.thread, worker'.seq = worker.seq,
         worker'.run = commands[1].run, worker'.candidate = 0,
         commands[1].kind = "stop" => ~worker'.running,
         Emit("state", 0, 0, worker'.running)
  PROVE  MonitorInv'
<1> USE DEF MonitorInv
<1>1. worker'.thread = "looping" /\ UNCHANGED gui /\ worker'.running \in BOOLEAN
  BY Dispatched DEF Worker
<1>2. \A i \in Indices(commands') :
         \E k \in Indices(commands) : commands'[i] = commands[k]
  BY Dispatched
<1>3. /\ messages' \in Seq(Message)
      /\ ExtractsKnown' /\ ResultsKnown' /\ EventsInOrder' /\ StateInv'
  <2>1. UNCHANGED <<sequence, run>>
    BY <1>1 DEF gui
  <2>2. QED
    BY <1>1, <1>2, <2>1, StatePosted
<1>4. TypeOK'
  BY <1>1, <1>3, Dispatched DEF TypeOK, gui
<1>5. GuiInv' /\ WorkerInv'
  BY <1>1 DEF GuiInv, WorkerInv, LatestOfThisRun, gui
<1>6. RunsInOrder' /\ ControlInv'
  BY <1>1, DispatchedRuns, DispatchedControl
<1>7. QED
  BY <1>3, <1>4, <1>5, <1>6

LEMMA SwitchInv ==
  ASSUME MonitorInv, Dispatch, OnStart(commands[1]) \/ OnStop(commands[1])
  PROVE  MonitorInv'
<1> USE DEF MonitorInv
<1> DEFINE c == commands[1]
<1>1. c \in Command /\ worker \in Worker /\ worker.thread = "looping"
  BY Dispatched DEF TypeOK
<1>2. c.kind = "stop" => c.run = worker.run
  BY Dispatched DEF RunsInOrder, Follows
<1> HIDE DEF c
<1>3. CASE OnStart(c)
  <2>1. PICK on \in BOOLEAN : Listens([worker EXCEPT !.run = c.run], on)
    BY <1>3 DEF OnStart
  <2>2. PICK w : w = [worker EXCEPT !.run = c.run]
    OBVIOUS
  <2>3. /\ w \in Worker /\ w.thread = "looping" /\ w.seq = worker.seq /\ w.run = c.run
        /\ Listens(w, on)
    BY <1>1, <2>1, <2>2 DEF Worker, Command
  <2>4. /\ worker' \in Worker /\ worker'.thread = "looping"
        /\ worker'.seq = worker.seq /\ worker'.run = c.run /\ worker'.candidate = 0
    BY <2>3, ListensEffect
  <2>5. c.kind = "start" /\ Emit("state", 0, 0, worker'.running)
    BY <1>3 DEF OnStart
  <2>6. QED
    BY <1>1, <2>4, <2>5, DispatchedSwitch DEF c
<1>4. CASE OnStop(c)
  <2>1. c.kind = "stop" /\ worker' = [worker EXCEPT !.running = FALSE, !.candidate = 0]
    BY <1>4 DEF OnStop, Monitoring
  <2>2. worker' \in Worker /\ worker'.running = FALSE
    BY <1>1, <2>1 DEF Worker
  <2>3. /\ worker'.thread = worker.thread
        /\ worker'.seq = worker.seq /\ worker'.run = c.run /\ worker'.candidate = 0
    BY <1>1, <1>2, <2>1 DEF Worker
  <2>4. Emit("state", 0, 0, worker'.running)
    BY <1>4, <2>2 DEF OnStop
  <2>5. QED
    BY <2>1, <2>2, <2>3, <2>4, DispatchedSwitch DEF c
<1>5. QED
  BY <1>3, <1>4 DEF c

\* The rest of the queue is as good as before.
LEMMA DispatchedExtracts ==
  ASSUME MonitorInv, Dispatch, worker'.seq = worker.seq
  PROVE  ExtractsKnown'
<1>1. UNCHANGED <<sequence, run>>
  BY Dispatched DEF gui
<1>2. QED
  BY <1>1, Dispatched DEF MonitorInv, ExtractsKnown, Known

LEMMA ExtractInv ==
  ASSUME MonitorInv, Dispatch, OnExtract(commands[1])
  PROVE  MonitorInv'
<1> USE DEF MonitorInv
<1> DEFINE c == commands[1]
<1>1. /\ c \in Command /\ c.kind = "extract" /\ c.run = worker.run
      /\ worker \in Worker /\ worker.thread = "looping"
  <2>1. c \in Command /\ worker.thread = "looping" /\ OnExtract(c) /\ Len(commands) > 0
    BY Dispatched DEF Indices
  <2>2. c.kind = "extract"
    BY <2>1 DEF OnExtract
  <2>3. commands # <<>>
    BY <2>1, EmptySeq
  <2>4. Follows(c, worker.run)
    BY <2>3 DEF RunsInOrder
  <2>5. QED
    BY <2>1, <2>2, <2>4 DEF Follows, TypeOK
<1>2. Known(c.seq, c.run)
  BY <1>1, Dispatched DEF ExtractsKnown
<1>3. UNCHANGED <<sequence, run, running, enabled>>
  BY Dispatched DEF gui
<1>4. \A j \in Indices(messages) : messages[j].kind = "event" => c.seq < messages[j].seq
  BY <1>1, Dispatched DEF EventsInOrder
<1>5. NoControl' => NoControl
  BY <1>1, Dispatched DEF NoControl, Indices
<1>6. OnExtract(c)
  OBVIOUS
<1> HIDE DEF c
<1>7. CASE ~Reads(c)
  <2>1. UNCHANGED <<worker, messages, gui>>
    BY <1>6, <1>7, Dispatched DEF OnExtract
  <2>2. TypeOK'
    BY <2>1, Dispatched DEF TypeOK, gui
  <2>3. GuiInv' /\ WorkerInv'
    BY <1>1, <2>1 DEF GuiInv, WorkerInv, LatestOfThisRun, gui
  <2>4. RunsInOrder' /\ ControlInv' /\ ExtractsKnown'
    BY <1>1, <2>1, DispatchedRuns, DispatchedControl, DispatchedExtracts DEF c
  <2>5. ResultsKnown' /\ EventsInOrder'
    BY <1>3, <2>1, Dispatched DEF ResultsKnown, EventsInOrder, Known
  <2>6. StateInv'
    BY <1>3, <1>5, <2>1 DEF StateInv, LastState, NoState, Indices
  <2>7. QED
    BY <2>2, <2>3, <2>4, <2>5, <2>6
<1>8. CASE Reads(c)
  <2>1. PICK kind \in Results :
           /\ worker' = [worker EXCEPT !.candidate = 0]
           /\ Emit(kind, c.seq, worker.candidate, FALSE)
    BY <1>6, <1>8 DEF OnExtract, Results
  <2>2. worker.candidate = worker.run
    BY <1>8 DEF Reads, WorkerInv
  <2> DEFINE e == [kind |-> kind, seq |-> c.seq, run |-> c.run, running |-> FALSE]
  <2>3. e \in Message
    BY <1>1 DEF Message, Command, Results
  <2>4. messages' = Append(messages, e)
    BY <1>1, <2>1, <2>2 DEF Emit
  <2>5. e.kind \in Results /\ e.seq = c.seq /\ e.run = c.run
    OBVIOUS
  <2> HIDE DEF e
  <2>6. /\ messages' \in Seq(Message) /\ messages' # <<>>
        /\ Len(messages) \in Nat /\ Len(messages') = Len(messages) + 1
        /\ messages'[Len(messages) + 1] = e
        /\ \A i \in 1..Len(messages) : messages'[i] = messages[i]
    BY <2>3, <2>4, MessagePosted
  <2>7. /\ worker' \in Worker /\ worker'.seq = worker.seq /\ worker'.run = worker.run
        /\ worker'.running = worker.running /\ worker'.thread = worker.thread
        /\ worker'.candidate = 0
    BY <1>1, <2>1 DEF Worker
  <2>8. UNCHANGED gui
    BY Dispatched
  <2>9. \A i \in Indices(messages') :
           \/ i \in Indices(messages) /\ messages'[i] = messages[i]
           \/ messages'[i] = e
    BY <2>6 DEF Indices
  <2>10. TypeOK'
    BY <2>6, <2>7, <2>8, Dispatched DEF TypeOK, gui
  <2>11. GuiInv' /\ WorkerInv'
    BY <1>1, <2>7, <2>8 DEF GuiInv, WorkerInv, LatestOfThisRun, gui
  <2>12. RunsInOrder' /\ ControlInv' /\ ExtractsKnown'
    BY <1>1, <2>7, DispatchedRuns, DispatchedControl, DispatchedExtracts DEF c
  <2>13. ResultsKnown'
    BY <1>2, <1>3, <2>5, <2>7, <2>9 DEF ResultsKnown, Known
  <2>14. EventsInOrder'
    <3>1. ASSUME NEW j \in Indices(messages'), messages'[j].kind = "event"
          PROVE  /\ messages'[j].seq <= worker'.seq
                 /\ sequence' < messages'[j].seq
                 /\ \A i \in Indices(commands') :
                       commands'[i].kind = "extract" => commands'[i].seq < messages'[j].seq
                 /\ \A i \in Indices(messages') :
                       messages'[i].kind \in Results => messages'[i].seq < messages'[j].seq
                 /\ \A i \in 1..(j - 1) :
                       messages'[i].kind = "event" => messages'[i].seq < messages'[j].seq
      <4>1. j \in Indices(messages) /\ messages'[j] = messages[j]
        BY <2>5, <2>9, <3>1 DEF Results
      <4>2. \A i \in 1..(j - 1) : messages'[i] = messages[i]
        BY <2>6, <4>1 DEF Indices
      <4>3. QED
        BY <1>3, <1>4, <2>5, <2>7, <2>9, <3>1, <4>1, <4>2, Dispatched DEF EventsInOrder
    <3>2. QED
      BY <3>1 DEF EventsInOrder
  <2>15. StateInv'
    <3>1. e.kind # "state"
      BY <2>5 DEF Results
    <3>2. \A i \in Indices(messages') : LastState(i)' => LastState(i) /\ i \in Indices(messages)
      BY <2>6, <3>1 DEF LastState, Indices
    <3>3. \A i \in Indices(messages) : i \in Indices(messages') /\ messages'[i] = messages[i]
      BY <2>6 DEF Indices
    <3>4. NoState' => NoState
      BY <3>3 DEF NoState
    <3>5. QED
      BY <1>3, <1>5, <2>7, <3>2, <3>3, <3>4 DEF StateInv
  <2>16. QED
    BY <2>6, <2>10, <2>11, <2>12, <2>13, <2>14, <2>15
<1>9. QED
  BY <1>7, <1>8

-----------------------------------------------------------------------------
(***************************************************************************)
(* The inductive invariant: whatever the threads, the bus and the user do, *)
(* the queues hold what the parts above say.                               *)
(***************************************************************************)
THEOREM MonitorInvariant == Spec => []MonitorInv
<1>1. Init => MonitorInv
  BY MonitorInitInv
<1>2. MonitorInv /\ [Next]_vars => MonitorInv'
  <2> SUFFICES ASSUME MonitorInv, [Next]_vars PROVE MonitorInv'
    OBVIOUS
  <2>1. CASE Start
    BY <2>1, StartInv
  <2>2. CASE Stop
    BY <2>2, StopInv
  <2>3. CASE Debounced
    BY <2>3, DebouncedInv
  <2>4. CASE Expired
    BY <2>4, ExpiredInv
  <2>5. CASE Deliver
    BY <2>5, DeliveredGui, DeliveredQueues DEF MonitorInv
  <2>6. CASE Begin
    BY <2>6, BeginInv
  <2>7. CASE NativeEvent
    BY <2>7, NativeEventInv
  <2>8. CASE Dispatch
    BY <2>8, Dispatched, SwitchInv, ExtractInv
  <2>9. CASE UNCHANGED vars
    <3> USE <2>9 DEF vars, gui, MonitorInv
    <3>1. TypeOK' /\ GuiInv' /\ WorkerInv' /\ RunsInOrder'
      BY DEF TypeOK, GuiInv, WorkerInv, LatestOfThisRun, RunsInOrder, Follows, Indices
    <3>2. ExtractsKnown' /\ ResultsKnown' /\ EventsInOrder'
      BY DEF ExtractsKnown, ResultsKnown, EventsInOrder, Known, Indices
    <3>3. ControlInv' /\ StateInv'
      BY DEF ControlInv, StateInv, NoControl, LastControl, NoState, LastState, Indices
    <3>4. QED
      BY <3>1, <3>2, <3>3
  <2>10. QED
    BY <2>1, <2>2, <2>3, <2>4, <2>5, <2>6, <2>7, <2>8, <2>9 DEF Next
<1>3. QED
  BY <1>1, <1>2, PTL DEF Spec

\* The state of both threads and the queues between them keep their types.
THEOREM MonitorTypes == Spec => []TypeOK
<1>1. MonitorInv => TypeOK
  BY DEF MonitorInv
<1>2. QED
  BY <1>1, MonitorInvariant, PTL

(***************************************************************************)
(* The selection kept was made in this run of the monitor, which is shown  *)
(* running, and expires: the filters of the result slot, the reset in      *)
(* start() and the dropped candidate of setMonitoring suffice for that.    *)
(***************************************************************************)
THEOREM LatestIsOfThisRun == Spec => []LatestOfThisRun
<1>1. MonitorInv => LatestOfThisRun
  BY DEF MonitorInv, GuiInv
<1>2. QED
  BY <1>1, MonitorInvariant, PTL

(***************************************************************************)
(* A stopped monitor is not shown running, and once both queues are empty  *)
(* the worker listens exactly if the monitor is shown running.             *)
(***************************************************************************)
THEOREM MonitorListensAsShown == Spec => []ListensAsShown
<1>1. MonitorInv => ListensAsShown
  <2> SUFFICES ASSUME MonitorInv PROVE ListensAsShown
    OBVIOUS
  <2> USE DEF MonitorInv
  <2>1. running => enabled
    BY DEF GuiInv
  <2>2. ASSUME Quiet PROVE running = worker.running
    <3>1. Len(commands) = 0 /\ Len(messages) = 0 /\ worker.thread # "starting"
      BY <2>2, EmptySeq DEF Quiet
    <3>2. NoControl /\ NoState
      BY <3>1 DEF NoControl, NoState, Indices
    <3>3. running <=> worker.running
      BY <3>1, <3>2 DEF StateInv
    <3>4. running \in BOOLEAN /\ worker.running \in BOOLEAN
      BY DEF TypeOK, Worker
    <3>5. QED
      BY <3>3, <3>4
  <2>3. QED
    BY <2>1, <2>2 DEF ListensAsShown
<1>2. QED
  BY <1>1, MonitorInvariant, PTL
=============================================================================
