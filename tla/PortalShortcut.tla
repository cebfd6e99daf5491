---------------------------- MODULE PortalShortcut ---------------------------
(***************************************************************************)
(* PortalGlobalShortcut.cpp over QtPortalTransport.cpp: on Wayland the     *)
(* shortcut is a session of the desktop portal, which is probed, created   *)
(* and bound by asynchronous calls.  Each call is answered by a reply and  *)
(* later, once the user has decided, by a response.  Calls and answers are *)
(* on their way while the user stops and starts the shortcut, the portal   *)
(* closes sessions or restarts, and calls time out.                        *)
(*                                                                         *)
(* A request or session path is made of a fresh token; here it is named by *)
(* the generation_ it was made in.  pending_ and the timer follow the      *)
(* phase, because every slot runs to its end, and so does the session_ of  *)
(* the shortcut, which is the transport's once the session is created.     *)
(* Close() called twice in a row advances generation_ once here.           *)
(***************************************************************************)
EXTENDS Naturals, Sequences

CONSTANTS
    MaxStarts,    \* bound: calls of start()
    MaxMishaps    \* bound: sessions closed by the portal, and its restarts

VARIABLES
    phase,        \* phase_
    explicit,     \* explicitEnable_
    available,    \* status_.available
    generation,   \* generation_
    awaiting,     \* the reply to the current call is outstanding
    request,      \* request_, or 0
    session,      \* session_, or 0
    calls,        \* calls on their way to the portal
    answers,      \* replies and signals on their way back
    portal,       \* the portal: its open requests, sessions and bound sessions
    starts, mishaps

transport == <<generation, awaiting, request, session, calls>>
gui  == <<phase, explicit, available, transport>>
vars == <<gui, answers, portal, starts, mishaps>>

Phases  == {"idle", "probe", "create", "bind", "registered"}
Pending == phase \in {"create", "bind"}

NoPortal == [open |-> {}, sessions |-> {}, bound |-> {}]

Init ==
    /\ phase = "idle"
    /\ explicit = FALSE
    /\ available = FALSE
    /\ generation = 0
    /\ awaiting = FALSE
    /\ request = 0
    /\ session = 0
    /\ calls = <<>>
    /\ answers = <<>>
    /\ portal = NoPortal
    /\ starts = 0
    /\ mishaps = 0

-----------------------------------------------------------------------------
(***************************************************************************)
(* The transport                                                           *)
(***************************************************************************)
Call(kind, id, of) == [kind |-> kind, id |-> id, session |-> of]

\* Mutant: only the pending request is closed.
ClosingRequest == IF request # 0 THEN <<Call("closeRequest", request, 0)>> ELSE <<>>

Closing ==
    (IF request # 0 THEN <<Call("closeRequest", request, 0)>> ELSE <<>>)
    \o (IF session # 0 THEN <<Call("closeSession", 0, session)>> ELSE <<>>)

CloseTransport ==
    /\ generation' = generation + 1
    /\ awaiting' = FALSE
    /\ request' = 0
    /\ session' = 0
    /\ calls' = calls \o Closing

Probe ==
    /\ generation' = generation + 1
    /\ awaiting' = TRUE
    /\ request' = 0
    /\ session' = 0
    /\ calls' = Append(calls \o Closing, Call("get", generation + 1, 0))

\* request(): subscribed to the response before the call is sent.
SendRequest(kind, of) ==
    /\ generation' = generation + 1
    /\ awaiting' = TRUE
    /\ request' = generation + 1
    /\ session' = of
    /\ calls' = Append(calls, Call(kind, generation + 1, of))

-----------------------------------------------------------------------------
(***************************************************************************)
(* The shortcut                                                            *)
(***************************************************************************)
Start ==
    /\ starts < MaxStarts
    /\ starts' = starts + 1
    /\ explicit' \in BOOLEAN
    /\ phase' = "probe"
    /\ Probe
    /\ UNCHANGED <<available, answers, portal, mishaps>>

\* When idle it only advances generation_.
Stop ==
    /\ phase # "idle"
    /\ phase' = "idle"
    /\ CloseTransport
    /\ UNCHANGED <<explicit, available, answers, portal, starts, mishaps>>

\* fail(), also by way of finishError() and the signal that follows it.
Fail ==
    /\ phase' = "idle"
    /\ CloseTransport
    /\ UNCHANGED <<explicit, available>>

\* disconnected() and lost: nothing to report if nothing was available.
Lost ==
    /\ phase' = "idle"
    /\ available' = FALSE
    /\ CloseTransport
    /\ UNCHANGED explicit

Probed(ok) ==
    /\ available' = ok
    /\ UNCHANGED explicit
    /\ \/ ok /\ explicit /\ phase' = "create" /\ SendRequest("create", generation + 1)
       \/ ok /\ ~explicit /\ phase' = "idle" /\ awaiting' = FALSE
             /\ UNCHANGED <<generation, request, session, calls>>
       \/ ~ok /\ phase' = "idle" /\ CloseTransport

\* The reply only matters if it is an error: the response decides.
Replied(ok) ==
    \/ phase = "probe" /\ Probed(ok)
    \/ Pending /\ ~ok /\ Fail
    \/ Pending /\ ok /\ awaiting' = FALSE
       /\ UNCHANGED <<phase, explicit, available, generation, request, session, calls>>

Created ==
    /\ phase' = "bind"
    /\ SendRequest("bind", session)
    /\ UNCHANGED <<explicit, available>>

Bound ==
    /\ phase' = "registered"
    /\ generation' = generation + 1
    /\ awaiting' = FALSE
    /\ request' = 0
    /\ UNCHANGED <<explicit, available, session, calls>>

Responded(ok) ==
    \/ ~ok /\ Fail
    \/ ok /\ phase = "create" /\ Created
    \/ ok /\ phase = "bind" /\ Bound

Current(answer) ==
    \/ answer.kind = "reply" /\ awaiting /\ answer.id = generation
    \/ answer.kind = "response" /\ Pending /\ answer.id = request
    \/ answer.kind = "owner"
    \/ answer.kind = "closed" /\ answer.id = session /\ phase \in {"bind", "registered"}

\* A Closed signal is not checked against the session: one that was queued
\* before its subscription ended is still acted on.
Take(answer) ==
    \/ answer.kind = "reply" /\ Replied(answer.ok)
    \/ answer.kind = "response" /\ Responded(answer.ok)
    \/ answer.kind \in {"owner", "closed"} /\ Lost

Deliver ==
    /\ answers # <<>>
    /\ answers' = Tail(answers)
    /\ LET answer == Head(answers) IN
          \/ (Current(answer) \/ answer.kind = "closed") /\ Take(answer)
          \/ ~Current(answer) /\ UNCHANGED gui
    /\ UNCHANGED <<portal, starts, mishaps>>

\* Ten seconds without a reply.
ReplyTimesOut ==
    /\ awaiting
    /\ Replied(FALSE)
    /\ UNCHANGED <<answers, portal, starts, mishaps>>

\* Mutant: the timer is started for the first request only.
TimerCreate == phase = "create"

TimerActive == Pending

\* Three minutes without a response.
ResponseTimesOut ==
    /\ TimerActive
    /\ Fail
    /\ UNCHANGED <<answers, portal, starts, mishaps>>

-----------------------------------------------------------------------------
(***************************************************************************)
(* The portal.  Sessions exist from the call that creates them; a refused  *)
(* request may have been opened under another path.                        *)
(***************************************************************************)
Answer(kind, id, ok) == [kind |-> kind, id |-> id, ok |-> ok]

OpenRequest(call) ==
    \E ok, opens \in BOOLEAN :
        /\ ok => opens
        /\ answers' = Append(answers, Answer("reply", call.id, ok))
        /\ portal' = IF ~opens THEN portal
                     ELSE [portal EXCEPT !.open = @ \cup {call},
                              !.sessions = @ \cup {call.session}]

PortalServes ==
    /\ calls # <<>>
    /\ calls' = Tail(calls)
    /\ LET call == Head(calls) IN
          \/ /\ call.kind = "get"
             /\ \E ok \in BOOLEAN :
                   answers' = Append(answers, Answer("reply", call.id, ok))
             /\ UNCHANGED portal
          \/ /\ \/ call.kind = "create"
                \/ call.kind = "bind" /\ call.session \in portal.sessions
             /\ OpenRequest(call)
          \/ /\ call.kind = "bind" /\ call.session \notin portal.sessions
             /\ answers' = Append(answers, Answer("reply", call.id, FALSE))
             /\ UNCHANGED portal
          \/ /\ call.kind = "closeRequest"
             /\ portal' = [portal EXCEPT !.open = {r \in @ : r.id # call.id}]
             /\ UNCHANGED answers
          \/ /\ call.kind = "closeSession"
             /\ portal' = [open |-> {r \in portal.open : r.session # call.session},
                           sessions |-> portal.sessions \ {call.session},
                           bound |-> portal.bound \ {call.session}]
             /\ UNCHANGED answers
    /\ UNCHANGED <<phase, explicit, available, generation, awaiting, request,
                   session, starts, mishaps>>

UserDecides ==
    /\ \E r \in portal.open, ok \in BOOLEAN :
          /\ answers' = Append(answers, Answer("response", r.id, ok))
          /\ portal' = [open |-> portal.open \ {r},
                        sessions |-> IF ok \/ r.kind = "bind" THEN portal.sessions
                                     ELSE portal.sessions \ {r.session},
                        bound |-> IF ok /\ r.kind = "bind"
                                  THEN portal.bound \cup {r.session}
                                  ELSE portal.bound]
    /\ UNCHANGED <<gui, starts, mishaps>>

PortalCloses ==
    /\ mishaps < MaxMishaps
    /\ mishaps' = mishaps + 1
    /\ \E s \in portal.sessions :
          /\ answers' = Append(answers, Answer("closed", s, TRUE))
          /\ portal' = [open |-> {r \in portal.open : r.session # s},
                        sessions |-> portal.sessions \ {s},
                        bound |-> portal.bound \ {s}]
    /\ UNCHANGED <<gui, starts>>

PortalRestarts ==
    /\ mishaps < MaxMishaps
    /\ mishaps' = mishaps + 1
    /\ answers' = Append(answers, Answer("owner", 0, TRUE))
    /\ portal' = NoPortal
    /\ UNCHANGED <<gui, starts>>

-----------------------------------------------------------------------------
Next ==
    \/ Start \/ Stop
    \/ Deliver \/ ReplyTimesOut \/ ResponseTimesOut
    \/ PortalServes \/ UserDecides \/ PortalCloses \/ PortalRestarts

Fairness ==
    /\ WF_vars(Deliver) /\ WF_vars(ReplyTimesOut) /\ WF_vars(ResponseTimesOut)

-----------------------------------------------------------------------------
Ending(s) ==
    \E i \in 1..Len(answers) :
        \/ answers[i].kind = "owner"
        \/ answers[i].kind = "closed" /\ answers[i].id = s

HeldAsShown == phase = "registered" => session \in portal.bound \/ Ending(session)

NothingLeftBehind ==
    calls = <<>> /\ answers = <<>> =>
        /\ portal.sessions \subseteq {session} \ {0}
        /\ {r.id : r \in portal.open} \subseteq {request} \ {0}

Settled == phase \in {"idle", "registered"}
=============================================================================
