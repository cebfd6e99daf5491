---------------------- MODULE InstanceCoordinatorProofs ---------------------
(***************************************************************************)
(* There is never a second primary instance, the primary can always be     *)
(* reached, and forwarded commands are executed once - for any number of   *)
(* processes, any limit on clients, and whether or not a dead process      *)
(* leaves its endpoint behind.                                             *)
(***************************************************************************)
EXTENDS InstanceCoordinator, TLAPS

\* From the moment it gets the lock until it frees it, a process owns it.
LockHeld ==
    \A p \in Processes :
        pc[p] \in {"forward3", "cleanup", "listen", "primary", "closing"} => lock = p

LockInv == LockHeld /\ PrimaryReachable

Emitting(p) == \E s \in Processes : emitting[s] = p

Handled(p) == executed[p] = 1 \/ p \in lost \/ Emitting(p)

(***************************************************************************)
(* A command is in one place: not sent yet, with its connection, in the    *)
(* primary's hand, or executed.                                            *)
(***************************************************************************)
CommandInv ==
    \A p \in Processes :
        /\ executed[p] \in {0, 1}
        /\ pc[p] \in Starting \ Waits => conn[p] = NoConn /\ executed[p] = 0 /\ ~Emitting(p)
        /\ conn[p].state \in {"waiting", "accepted"} => executed[p] = 0 /\ ~Emitting(p)
        /\ \A s, t \in Processes :
              emitting[s] = p /\ emitting[t] = p => s = t /\ executed[p] = 0
        /\ conn[p].state = "acked" => Handled(p)
        /\ pc[p] = "forwarded" => Handled(p)

InstanceInv == TypeOK /\ LockInv /\ CommandInv

LEMMA InstanceInitInv == Init => InstanceInv
<1> SUFFICES ASSUME Init PROVE InstanceInv
  OBVIOUS
<1> USE InstanceAssumption DEF Init
<1>1. TypeOK
  BY DEF TypeOK, Ended, NoConn, Conn
<1>2. LockInv
  BY DEF LockInv, LockHeld, PrimaryReachable
<1>3. CommandInv
  BY DEF CommandInv, NoConn, Emitting, Starting, Waits, Forwards
<1>4. QED
  BY <1>1, <1>2, <1>3 DEF InstanceInv

LEMMA LaunchInv ==
  ASSUME InstanceInv, NEW p \in Processes, Launch(p)
  PROVE  InstanceInv'
<1> USE DEF InstanceInv, Launch, Go
<1>1. TypeOK'
  BY DEF TypeOK, Alive, Starting, Forwards
<1>2. LockInv'
  BY DEF TypeOK, LockInv, LockHeld, PrimaryReachable
<1>3. CommandInv'
  BY InstanceAssumption
  DEF TypeOK, CommandInv, NoConn, Emitting, Handled, Starting, Waits, Forwards
<1>4. QED
  BY <1>1, <1>2, <1>3

-----------------------------------------------------------------------------
(***************************************************************************)
(* start(): each step moves p on or ends it.                               *)
(***************************************************************************)
LEMMA FailsInv ==
  ASSUME InstanceInv, NEW p \in Processes, Fails(p)
  PROVE  InstanceInv'
<1> USE DEF InstanceInv, Fails, Exit, Go
<1>1. TypeOK'
  BY DEF TypeOK, Ended
<1>2. LockInv'
  BY InstanceAssumption DEF TypeOK, LockInv, LockHeld, PrimaryReachable
<1>3. CommandInv'
  BY DEF TypeOK, CommandInv, NoConn, Emitting, Handled, Starting, Waits, Forwards
<1>4. QED
  BY <1>1, <1>2, <1>3

LEMMA ConnectInv ==
  ASSUME InstanceInv, NEW p \in Processes, Connect(p)
  PROVE  InstanceInv'
<1> USE DEF InstanceInv, Connect, Go
<1>1. TypeOK'
  BY DEF TypeOK, Conn, Alive, Starting, Waits
<1>2. LockInv'
  BY DEF TypeOK, LockInv, LockHeld, PrimaryReachable
<1>3. CommandInv'
  BY DEF TypeOK, CommandInv, Emitting, Handled, Starting, Waits, Forwards
<1>4. QED
  BY <1>1, <1>2, <1>3

LEMMA NotConnectedInv ==
  ASSUME InstanceInv, NEW p \in Processes, NotConnected(p)
  PROVE  InstanceInv'
<1> USE DEF InstanceInv, NotConnected, Go
<1>1. TypeOK'
  BY DEF TypeOK, Alive, Ended, Starting
<1>2. LockInv'
  BY DEF TypeOK, LockInv, LockHeld, PrimaryReachable
<1>3. CommandInv'
  BY DEF TypeOK, CommandInv, NoConn, Emitting, Handled, Starting, Waits, Forwards
<1>4. QED
  BY <1>1, <1>2, <1>3

LEMMA WriteInv ==
  ASSUME InstanceInv, NEW p \in Processes, Write(p)
  PROVE  InstanceInv'
<1> USE DEF InstanceInv, Write, Go
<1>1. TypeOK'
  BY DEF TypeOK, Conn, Alive, Starting, Waits
<1>2. LockInv'
  BY DEF TypeOK, LockInv, LockHeld, PrimaryReachable
<1>3. /\ \A q \in Processes \ {p} : conn'[q] = conn[q]
      /\ conn'[p].state = conn[p].state
  BY DEF TypeOK, Conn
<1>4. CommandInv'
  BY <1>3 DEF TypeOK, CommandInv, Emitting, Handled, Starting, Waits, Forwards
<1>5. QED
  BY <1>1, <1>2, <1>4

LEMMA GiveUpInv ==
  ASSUME InstanceInv, NEW p \in Processes, GiveUp(p)
  PROVE  InstanceInv'
<1> USE DEF InstanceInv, GiveUp, Exit, Go
<1>1. TypeOK'
  BY InstanceAssumption DEF TypeOK, Conn, Remains, NoConn, Ended
<1>2. LockInv'
  BY InstanceAssumption DEF TypeOK, LockInv, LockHeld, PrimaryReachable
<1>3. CommandInv'
  BY DEF TypeOK, CommandInv, Remains, NoConn, Emitting, Handled, Starting, Waits, Forwards
<1>4. QED
  BY <1>1, <1>2, <1>3

LEMMA AcknowledgedInv ==
  ASSUME InstanceInv, NEW p \in Processes, Acknowledged(p)
  PROVE  InstanceInv'
<1> USE DEF InstanceInv, Acknowledged, Exit, Go
<1>1. TypeOK'
  BY InstanceAssumption DEF TypeOK, Conn, NoConn, Ended
<1>2. LockInv'
  BY InstanceAssumption DEF TypeOK, LockInv, LockHeld, PrimaryReachable
<1>3. CommandInv'
  BY DEF TypeOK, CommandInv, HasAnswer, NoConn, Emitting, Handled, Starting, Waits, Forwards
<1>4. QED
  BY <1>1, <1>2, <1>3

LEMMA TryLockInv ==
  ASSUME InstanceInv, NEW p \in Processes, TryLock(p)
  PROVE  InstanceInv'
<1> USE DEF InstanceInv, TryLock, Go
<1>1. TypeOK'
  BY DEF TypeOK, Alive, Starting, Forwards
<1>2. ASSUME LockFree PROVE LockInv'
  \* Nobody holds a free lock: its owner, if any, is dead.
  <2>1. \A q \in Processes :
           pc[q] \notin {"forward3", "cleanup", "listen", "primary", "closing"}
    BY <1>2, InstanceAssumption
    DEF LockFree, LockInv, LockHeld, Alive, Starting, Forwards, TypeOK
  <2>2. QED
    BY <1>2, <2>1 DEF TypeOK, LockInv, LockHeld, PrimaryReachable
<1>3. ASSUME ~LockFree PROVE LockInv'
  BY <1>3 DEF TypeOK, LockInv, LockHeld, PrimaryReachable
<1>4. CommandInv'
  BY DEF TypeOK, CommandInv, NoConn, Emitting, Handled, Starting, Waits, Forwards
<1>5. QED
  BY <1>1, <1>2, <1>3, <1>4

LEMMA CleanupInv ==
  ASSUME InstanceInv, NEW p \in Processes, Cleanup(p)
  PROVE  InstanceInv'
<1> USE DEF InstanceInv, Cleanup, Go
<1>1. TypeOK'
  BY DEF TypeOK, Alive, Starting
<1>2. LockInv'
  BY DEF TypeOK, LockInv, LockHeld, PrimaryReachable
<1>3. CommandInv'
  BY DEF TypeOK, CommandInv, NoConn, Emitting, Handled, Starting, Waits, Forwards
<1>4. QED
  BY <1>1, <1>2, <1>3

LEMMA ListenInv ==
  ASSUME InstanceInv, NEW p \in Processes, Listen(p)
  PROVE  InstanceInv'
<1> USE DEF InstanceInv, Listen, Go
<1>1. TypeOK'
  BY DEF TypeOK, Alive
<1>2. LockInv'
  BY DEF TypeOK, LockInv, LockHeld, PrimaryReachable
<1>3. CommandInv'
  BY DEF TypeOK, CommandInv, NoConn, Emitting, Handled, Starting, Waits, Forwards
<1>4. QED
  BY <1>1, <1>2, <1>3

-----------------------------------------------------------------------------
(***************************************************************************)
(* The primary's event loop touches neither the lock nor the endpoint.     *)
(***************************************************************************)
LEMMA SameLockInv ==
  ASSUME InstanceInv, UNCHANGED <<pc, lock, endpoint>>
  PROVE  LockInv'
  BY DEF InstanceInv, LockInv, LockHeld, PrimaryReachable

LEMMA ClosedIsConn ==
  ASSUME TypeOK, NEW p \in Processes
  PROVE  Closed(p) \in Conn /\ Closed(p).state \in {"reset", "none"}
  BY InstanceAssumption DEF TypeOK, Closed, Conn, NoConn

LEMMA AcceptInv ==
  ASSUME InstanceInv, NEW s \in Processes, NEW p \in Processes, Accept(s, p)
  PROVE  InstanceInv'
<1> USE DEF InstanceInv, Accept
<1>1. /\ conn' = [conn EXCEPT ![p] = conn'[p]]
      /\ conn'[p] \in Conn
      /\ conn'[p].state \in {"accepted", "reset", "none"}
  BY ClosedIsConn DEF TypeOK, Conn
<1>2. TypeOK'
  BY <1>1 DEF TypeOK
<1>3. LockInv'
  BY SameLockInv
<1>4. pc[p] \notin Starting \ Waits
  BY DEF CommandInv, NoConn
<1>5. CommandInv'
  BY <1>1, <1>4 DEF TypeOK, CommandInv, Emitting, Handled
<1>6. QED
  BY <1>2, <1>3, <1>5

LEMMA DeadlineInv ==
  ASSUME InstanceInv, NEW s \in Processes, NEW p \in Processes, Deadline(s, p)
  PROVE  InstanceInv'
<1> USE DEF InstanceInv, Deadline
<1>1. TypeOK'
  BY ClosedIsConn DEF TypeOK
<1>2. LockInv'
  BY SameLockInv
<1>3. pc[p] \notin Starting \ Waits
  BY DEF CommandInv, NoConn
<1>4. CommandInv'
  BY <1>3, ClosedIsConn DEF TypeOK, CommandInv, Emitting, Handled
<1>5. QED
  BY <1>1, <1>2, <1>4

LEMMA AnswerInv ==
  ASSUME InstanceInv, NEW s \in Processes, NEW p \in Processes, Answer(s, p)
  PROVE  InstanceInv'
<1> USE DEF InstanceInv, Answer
<1>1. Answered(p) \in Conn /\ Answered(p).state \in {"acked", "none"}
  BY InstanceAssumption DEF TypeOK, Answered, Conn, NoConn
<1>2. TypeOK'
  BY <1>1 DEF TypeOK
<1>3. LockInv'
  BY SameLockInv
<1>4. pc[p] \notin Starting \ Waits
  BY DEF CommandInv, NoConn
<1>5. /\ Emitting(p)' /\ emitting[s] = NoProcess
      /\ \A q \in Processes \ {p} : Emitting(q)' = Emitting(q)
  BY InstanceAssumption DEF TypeOK, Serving, Emitting
<1>6. CommandInv'
  BY <1>1, <1>4, <1>5, InstanceAssumption
  DEF TypeOK, CommandInv, Emitting, Handled
<1>7. QED
  BY <1>2, <1>3, <1>6

LEMMA EmitInv ==
  ASSUME InstanceInv, NEW s \in Processes, Emit(s)
  PROVE  InstanceInv'
<1> USE DEF InstanceInv, Emit
<1> SUFFICES ASSUME NEW p \in Processes, emitting[s] = p PROVE InstanceInv'
  BY DEF TypeOK
<1>1. executed[p] = 0 /\ executed' = [executed EXCEPT ![p] = 1]
  <2>1. executed[p] = 0
    BY DEF CommandInv
  <2>2. QED
    BY <2>1
<1>2. TypeOK'
  BY <1>1 DEF TypeOK
<1>3. LockInv'
  BY SameLockInv
<1>4. Emitting(p) /\ pc[p] \notin Starting \ Waits
      /\ conn[p].state \notin {"waiting", "accepted"}
  BY <1>1 DEF CommandInv, Emitting
<1>5. /\ ~Emitting(p)'
      /\ \A q \in Processes \ {p} : Emitting(q)' = Emitting(q)
  <2>1. \A t \in Processes : emitting[t] = p => t = s
    BY <1>1 DEF CommandInv
  <2>2. emitting' \in [Processes -> Processes \cup {NoProcess}]
    BY DEF TypeOK
  <2>3. \A t \in Processes : emitting'[t] = IF t = s THEN NoProcess ELSE emitting[t]
    BY DEF TypeOK
  <2>4. QED
    BY <1>1, <2>1, <2>3, InstanceAssumption DEF Emitting
<1>6. CommandInv'
  BY <1>1, <1>4, <1>5, InstanceAssumption
  DEF TypeOK, CommandInv, Emitting, Handled
<1>7. QED
  BY <1>2, <1>3, <1>6

-----------------------------------------------------------------------------
(***************************************************************************)
(* The end of a process resets the connections to it.                      *)
(***************************************************************************)
LEMMA ConnsAfterKeeps ==
  ASSUME TypeOK, NEW s \in Processes
  PROVE  /\ ConnsAfter(s) \in [Processes -> Conn]
         /\ \A p \in Processes :
               \/ ConnsAfter(s)[p] = conn[p]
               \/ ConnsAfter(s)[p] = NoConn
               \/ pc[p] \in Waits /\ ConnsAfter(s)[p].state = "reset"
  BY InstanceAssumption DEF TypeOK, ConnsAfter, Remains, Closed, Conn, NoConn

LEMMA ConnsAfterCommand ==
  ASSUME InstanceInv, NEW s \in Processes, conn' = ConnsAfter(s)
  PROVE  \A p \in Processes :
            /\ pc[p] \in Starting \ Waits => conn'[p] = NoConn
            /\ conn'[p].state \in {"waiting", "accepted", "acked"} =>
                  conn'[p].state = conn[p].state
<1> TAKE p \in Processes
<1>1. CASE conn'[p] = conn[p]
  BY <1>1 DEF InstanceInv, CommandInv
<1>2. CASE conn'[p] = NoConn
  BY <1>2 DEF NoConn
<1>3. CASE pc[p] \in Waits /\ conn'[p].state = "reset"
  BY <1>3
<1>4. QED
  BY <1>1, <1>2, <1>3, ConnsAfterKeeps DEF InstanceInv

LEMMA CloseInv ==
  ASSUME InstanceInv, NEW s \in Processes, Close(s)
  PROVE  InstanceInv'
<1> USE DEF InstanceInv, Close, Go
<1>1. TypeOK'
  BY ConnsAfterKeeps DEF TypeOK, Alive
<1>2. LockInv'
  BY DEF TypeOK, LockInv, LockHeld, PrimaryReachable, Serving
<1>3. CommandInv'
  BY ConnsAfterCommand DEF TypeOK, CommandInv, Emitting, Handled, Starting, Waits, Forwards
<1>4. QED
  BY <1>1, <1>2, <1>3

LEMMA UnlockInv ==
  ASSUME InstanceInv, NEW s \in Processes, Unlock(s)
  PROVE  InstanceInv'
<1> USE DEF InstanceInv, Unlock, Exit, Go
<1>1. TypeOK'
  BY DEF TypeOK, Ended
<1>2. LockInv'
  BY DEF TypeOK, LockInv, LockHeld, PrimaryReachable
<1>3. CommandInv'
  BY DEF TypeOK, CommandInv, NoConn, Emitting, Handled, Starting, Waits, Forwards
<1>4. QED
  BY <1>1, <1>2, <1>3

LEMMA CrashInv ==
  ASSUME InstanceInv, NEW s \in Processes, Crash(s)
  PROVE  InstanceInv'
<1> USE DEF InstanceInv, Crash, Go
<1>1. TypeOK'
  BY ConnsAfterKeeps DEF TypeOK, Ended
<1>2. LockInv'
  BY DEF TypeOK, LockInv, LockHeld, PrimaryReachable
<1>3. \A p \in Processes :
         /\ Emitting(p)' => Emitting(p)
         /\ Handled(p) => Handled(p)'
  BY InstanceAssumption DEF TypeOK, Emitting, Handled
<1>4. \A p, t \in Processes : emitting'[t] = p => emitting[t] = p
  BY InstanceAssumption DEF TypeOK
<1>5. CommandInv'
  BY <1>3, <1>4, ConnsAfterCommand
  DEF TypeOK, CommandInv, Starting, Waits, Forwards
<1>6. QED
  BY <1>1, <1>2, <1>5

-----------------------------------------------------------------------------
LEMMA InstanceStutterInv ==
  ASSUME InstanceInv, UNCHANGED vars
  PROVE  InstanceInv'
  BY DEF InstanceInv, TypeOK, LockInv, LockHeld, PrimaryReachable, CommandInv,
         Emitting, Handled, vars

LEMMA InstanceNextInv ==
  ASSUME InstanceInv, [Next]_vars
  PROVE  InstanceInv'
<1>1. ASSUME NEW p \in Processes, Start(p)
      PROVE  InstanceInv'
  BY <1>1, FailsInv, ConnectInv, NotConnectedInv, WriteInv, GiveUpInv,
     AcknowledgedInv, TryLockInv, CleanupInv, ListenInv
  DEF Start
<1>2. ASSUME NEW s \in Processes, Serve(s)
      PROVE  InstanceInv'
  BY <1>2, AcceptInv, DeadlineInv, AnswerInv, EmitInv DEF Serve
<1>3. CASE UNCHANGED vars
  BY <1>3, InstanceStutterInv
<1>4. QED
  BY <1>1, <1>2, <1>3, LaunchInv, CloseInv, UnlockInv, CrashInv DEF Next

(***************************************************************************)
(* The inductive invariant holds in every behaviour.                       *)
(***************************************************************************)
THEOREM InstanceInvariant == Spec => []InstanceInv
<1>1. InstanceInv /\ [Next]_vars => InstanceInv'
  BY InstanceNextInv
<1>2. QED
  BY InstanceInitInv, <1>1, PTL DEF Spec

(***************************************************************************)
(* InstanceCoordinator::start: a primary holds the lock and its own socket *)
(* is the one others find, whatever other processes do or however they     *)
(* die.                                                                    *)
(***************************************************************************)
THEOREM PrimaryAlwaysReachable == Spec => []PrimaryReachable
<1>1. InstanceInv => PrimaryReachable
  BY DEF InstanceInv, LockInv
<1>2. QED
  BY InstanceInvariant, <1>1, PTL

(***************************************************************************)
(* At most one process is the primary instance.                            *)
(***************************************************************************)
THEOREM OnePrimary ==
  Spec => [](\A p, q \in Processes : pc[p] = "primary" /\ pc[q] = "primary" => p = q)
<1>1. InstanceInv => \A p, q \in Processes : pc[p] = "primary" /\ pc[q] = "primary" => p = q
  BY DEF InstanceInv, LockInv, PrimaryReachable
<1>2. QED
  BY InstanceInvariant, <1>1, PTL

(***************************************************************************)
(* InstanceCoordinator::forward: what is reported forwarded was executed,  *)
(* exactly once, or is in the hand of a primary that may die with it.      *)
(***************************************************************************)
THEOREM ForwardedOnce == Spec => []ForwardedExecutedOnce
<1>1. InstanceInv => ForwardedExecutedOnce
  BY DEF InstanceInv, TypeOK, CommandInv, ForwardedExecutedOnce, Handled, Emitting
<1>2. QED
  BY InstanceInvariant, <1>1, PTL
=============================================================================
