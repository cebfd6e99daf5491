------------------------- MODULE InstanceCoordinator ------------------------
(***************************************************************************)
(* InstanceCoordinator.cpp (WindowsInstanceCoordinator.cpp): of the        *)
(* processes a user starts, one becomes the primary instance and listens   *)
(* on a local socket; the others forward their command to it and exit, or  *)
(* fail.  A lock file, held by the primary for its lifetime, arbitrates.   *)
(* Processes crash at any moment and leave the lock file and, on Linux,    *)
(* the socket file behind.                                                 *)
(*                                                                         *)
(* start() blocks, but other processes run between its system calls, so    *)
(* every call that touches shared state is a step.  The primary serves     *)
(* commands from its event loop, whenever it gets there.                   *)
(***************************************************************************)
EXTENDS Naturals, FiniteSets

CONSTANTS
    Processes,      \* bound: processes alive at a time (names are reused)
    NoProcess,
    MaxClients,     \* connections the primary reads from at a time (16)
    EndpointStays   \* a dead process leaves its endpoint (Linux: TRUE)

ASSUME InstanceAssumption ==
    /\ NoProcess \notin Processes
    /\ MaxClients \in Nat
    /\ EndpointStays \in BOOLEAN

VARIABLES
    pc,        \* where a process is in start(), main() and its destructor
    lock,      \* the process named in the lock file
    endpoint,  \* the process that created the socket file
    conn,      \* the connection of each client
    emitting,  \* the client whose command the process is about to emit
    executed,  \* how often the command of a process was emitted
    lost       \* clients whose primary died between "ok" and emitting

vars == <<pc, lock, endpoint, conn, emitting, executed, lost>>

Forwards == {"forward1", "forward2", "forward3"}
Waits    == {"write", "await"}
Starting == Forwards \cup Waits \cup {"tryLock", "cleanup", "listen"}
Alive    == Starting \cup {"primary", "closing"}
Ended    == {"off", "forwarded", "failed"}

(***************************************************************************)
(* state: "waiting" to be accepted, "accepted", "acked" ("ok" is in the    *)
(* client's buffer), "reset".  written: the command is in the socket,      *)
(* where it stays even if the client gives up.                             *)
(***************************************************************************)
NoConn == [to |-> NoProcess, state |-> "none", written |-> FALSE]

Conn == [to : Processes \cup {NoProcess},
         state : {"none", "waiting", "accepted", "acked", "reset"},
         written : BOOLEAN]

TypeOK ==
    /\ pc \in [Processes -> Alive \cup Ended]
    /\ lock \in Processes \cup {NoProcess}
    /\ endpoint \in Processes \cup {NoProcess}
    /\ conn \in [Processes -> Conn]
    /\ emitting \in [Processes -> Processes \cup {NoProcess}]
    /\ executed \in [Processes -> Nat]
    /\ lost \in SUBSET Processes

Init ==
    /\ pc = [p \in Processes |-> "off"]
    /\ lock = NoProcess
    /\ endpoint = NoProcess
    /\ conn = [p \in Processes |-> NoConn]
    /\ emitting = [p \in Processes |-> NoProcess]
    /\ executed = [p \in Processes |-> 0]
    /\ lost = {}

-----------------------------------------------------------------------------
(***************************************************************************)
(* start()                                                                 *)
(***************************************************************************)
Go(p, to) == pc' = [pc EXCEPT ![p] = to]

Listens(s) == s \in Processes /\ pc[s] = "primary"

\* A new process takes a name nothing is left of.
Launch(p) ==
    /\ pc[p] \in Ended
    /\ lock # p /\ endpoint # p /\ conn[p] = NoConn
    /\ \A s \in Processes : emitting[s] # p
    /\ Go(p, "forward1")
    /\ executed' = [executed EXCEPT ![p] = 0]
    /\ lost' = lost \ {p}
    /\ UNCHANGED <<lock, endpoint, conn, emitting>>

\* lock_.reset() on the way out of start(), which ends the process.
Exit(p, result) ==
    /\ Go(p, result)
    /\ lock' = IF lock = p THEN NoProcess ELSE lock
    /\ UNCHANGED <<endpoint, emitting, executed, lost>>

\* The directory, an unexpected socket error, removeServer or listen.
Fails(p) ==
    /\ pc[p] \in Forwards \cup {"cleanup", "listen"}
    /\ Exit(p, "failed")
    /\ UNCHANGED conn

Connect(p) ==
    /\ pc[p] \in Forwards
    /\ Listens(endpoint)
    /\ Go(p, "write")
    /\ conn' = [conn EXCEPT ![p] = [to |-> endpoint, state |-> "waiting",
                                    written |-> FALSE]]
    /\ UNCHANGED <<lock, endpoint, emitting, executed, lost>>

\* No server, or a dead one: the way leads on, or to an error at forward2.
NotConnected(p) ==
    /\ ~Listens(endpoint)
    /\ \/ pc[p] = "forward1" /\ Go(p, "tryLock")
       \/ pc[p] = "forward3" /\ Go(p, "cleanup")
       \/ pc[p] = "forward2" /\ Go(p, "failed")
    /\ UNCHANGED <<lock, endpoint, conn, emitting, executed, lost>>

Write(p) ==
    /\ pc[p] = "write"
    /\ conn[p].state # "reset"
    /\ Go(p, "await")
    /\ conn' = [conn EXCEPT ![p].written = TRUE]
    /\ UNCHANGED <<lock, endpoint, emitting, executed, lost>>

\* What the server still finds of a client that is gone.
Remains(p) ==
    IF conn[p].written /\ conn[p].state \in {"waiting", "accepted"} THEN conn[p]
    ELSE NoConn

\* Mutant: the wait for an answer has no time limit.
GiveUpOnReset(p) ==
    /\ pc[p] \in Waits
    /\ conn[p].state = "reset"
    /\ Exit(p, "failed")
    /\ conn' = [conn EXCEPT ![p] = Remains(p)]

\* 1.5 s without an answer, or the connection is gone.
GiveUp(p) ==
    /\ pc[p] \in Waits
    /\ conn[p].state # "acked"
    /\ Exit(p, "failed")
    /\ conn' = [conn EXCEPT ![p] = Remains(p)]

\* Mutant: the end of the connection counts as an answer.
AnyAnswer(p) == conn[p].state \in {"acked", "reset"}

HasAnswer(p) == conn[p].state = "acked"

Acknowledged(p) ==
    /\ pc[p] = "await"
    /\ HasAnswer(p)
    /\ Exit(p, "forwarded")
    /\ conn' = [conn EXCEPT ![p] = NoConn]

\* Mutant: a lock file that is old enough is taken over from a live owner.
LockIsOld == lock = NoProcess \/ pc[lock] \in Alive \cup Ended

\* QLockFile with stale lock time 0: only a dead owner's lock is taken over.
LockFree == lock = NoProcess \/ pc[lock] \notin Alive

TryLock(p) ==
    /\ pc[p] = "tryLock"
    /\ IF LockFree THEN lock' = p /\ Go(p, "forward3")
       ELSE UNCHANGED lock /\ Go(p, "forward2")
    /\ UNCHANGED <<endpoint, conn, emitting, executed, lost>>

Cleanup(p) ==
    /\ pc[p] = "cleanup"
    /\ endpoint' = NoProcess
    /\ Go(p, "listen")
    /\ UNCHANGED <<lock, conn, emitting, executed, lost>>

Listen(p) ==
    /\ pc[p] = "listen"
    /\ endpoint' = p
    /\ Go(p, "primary")
    /\ UNCHANGED <<lock, conn, emitting, executed, lost>>

Start(p) ==
    \/ Fails(p) \/ Connect(p) \/ NotConnected(p) \/ Write(p) \/ GiveUp(p)
    \/ Acknowledged(p) \/ TryLock(p) \/ Cleanup(p) \/ Listen(p)

-----------------------------------------------------------------------------
(***************************************************************************)
(* The event loop of the primary s.                                        *)
(***************************************************************************)
Serving(s) == pc[s] = "primary" /\ emitting[s] = NoProcess

\* A connection the server closes; a client that is gone does not notice.
Closed(p) ==
    IF pc[p] \in Waits THEN [conn[p] EXCEPT !.state = "reset"] ELSE NoConn

Clients(s) ==
    {p \in Processes : conn[p].to = s /\ conn[p].state = "accepted"}

Accept(s, p) ==
    /\ Serving(s)
    /\ conn[p].to = s /\ conn[p].state = "waiting"
    /\ conn' = [conn EXCEPT ![p] =
                   IF Cardinality(Clients(s)) >= MaxClients THEN Closed(p)
                   ELSE [conn[p] EXCEPT !.state = "accepted"]]
    /\ UNCHANGED <<pc, lock, endpoint, emitting, executed, lost>>

\* Two seconds without reading a command, even if one has arrived meanwhile.
Deadline(s, p) ==
    /\ Serving(s)
    /\ conn[p].to = s /\ conn[p].state = "accepted"
    /\ conn' = [conn EXCEPT ![p] = Closed(p)]
    /\ UNCHANGED <<pc, lock, endpoint, emitting, executed, lost>>

\* Mutant: the handled flag is not set.
StillUnhandled(p) == conn[p]

\* After "ok" the server has no more business with the connection.
Answered(p) ==
    IF pc[p] \in Waits THEN [conn[p] EXCEPT !.state = "acked"] ELSE NoConn

\* "ok" is flushed before the command is emitted.
Answer(s, p) ==
    /\ Serving(s)
    /\ conn[p].to = s /\ conn[p].state = "accepted" /\ conn[p].written
    /\ conn' = [conn EXCEPT ![p] = Answered(p)]
    /\ emitting' = [emitting EXCEPT ![s] = p]
    /\ UNCHANGED <<pc, lock, endpoint, executed, lost>>

Emit(s) ==
    /\ pc[s] = "primary" /\ emitting[s] # NoProcess
    /\ executed' = [executed EXCEPT ![emitting[s]] = @ + 1]
    /\ emitting' = [emitting EXCEPT ![s] = NoProcess]
    /\ UNCHANGED <<pc, lock, endpoint, conn, lost>>

Serve(s) ==
    \/ \E p \in Processes : Accept(s, p) \/ Deadline(s, p) \/ Answer(s, p)
    \/ Emit(s)

-----------------------------------------------------------------------------
(***************************************************************************)
(* The end of a process.  Members are destroyed in reverse order: the      *)
(* server closes, and removes its socket file, before the lock is freed.   *)
(***************************************************************************)
ConnsAfter(s) ==
    [p \in Processes |->
        IF p = s THEN Remains(s)
        ELSE IF conn[p].to = s /\ conn[p].state \in {"waiting", "accepted"} THEN Closed(p)
        ELSE conn[p]]

Close(s) ==
    /\ Serving(s)
    /\ Go(s, "closing")
    /\ endpoint' = NoProcess
    /\ conn' = ConnsAfter(s)
    /\ UNCHANGED <<lock, emitting, executed, lost>>

Unlock(s) ==
    /\ pc[s] = "closing"
    /\ Exit(s, "off")
    /\ UNCHANGED conn

Crash(s) ==
    /\ pc[s] \in Alive
    /\ Go(s, "off")
    /\ endpoint' = IF endpoint = s /\ ~EndpointStays THEN NoProcess ELSE endpoint
    /\ conn' = ConnsAfter(s)
    /\ lost' = lost \cup ({emitting[s]} \cap Processes)
    /\ emitting' = [emitting EXCEPT ![s] = NoProcess]
    /\ UNCHANGED <<lock, executed>>

Next ==
    \E p \in Processes :
        Launch(p) \/ Start(p) \/ Serve(p) \/ Close(p) \/ Unlock(p) \/ Crash(p)

Spec == Init /\ [][Next]_vars

\* A starting process runs, and its waits time out; the primary owes nothing.
FairSpec == Spec /\ \A p \in Processes : WF_vars(Start(p))

-----------------------------------------------------------------------------
(***************************************************************************)
(* The primary instance holds the lock and owns the socket file: there is  *)
(* only one, no other process ever removes its socket, however starts,     *)
(* ends and crashes interleave, and every later start can reach it.        *)
(***************************************************************************)
PrimaryReachable ==
    \A p \in Processes : pc[p] = "primary" => lock = p /\ endpoint = p

(***************************************************************************)
(* A command is executed at most once, and a process that reports it       *)
(* forwarded is right, unless the primary died with it in hand.            *)
(***************************************************************************)
ForwardedExecutedOnce ==
    \A p \in Processes :
        /\ executed[p] <= 1
        /\ pc[p] = "forwarded" =>
              executed[p] = 1 \/ p \in lost \/ \E s \in Processes : emitting[s] = p

\* Every start ends, even if the primary never gets to its event loop.
StartEnds == \A p \in Processes : pc[p] \in Starting ~> pc[p] \notin Starting
=============================================================================
