--------------------------- MODULE AIServiceClient --------------------------
(***************************************************************************)
(* AIService on its own, against a client that may generate and cancel at  *)
(* any moment and asks for anything AIRequest can say: a blank key, a      *)
(* blank model, a provider without adapter.  answer records what the       *)
(* completed signal said about each accepted request, and cancelled the    *)
(* requests cancel() was called for.                                       *)
(***************************************************************************)
EXTENDS AIService

VARIABLES
    accepted,    \* requests generate() returned true for
    unknown,     \* the request waiting behind pendingError_, 0 if none
    answer,
    cancelled

clientVars == <<accepted, unknown, answer, cancelled>>
vars == <<aiVars, clientVars>>

Init ==
    /\ AIInit
    /\ accepted = 0
    /\ unknown = 0
    /\ answer = [i \in Ids |-> "unused"]
    /\ cancelled = {}

-----------------------------------------------------------------------------
NewJob(p, key) == [id |-> accepted + 1, provider |-> p, apiKey |-> key,
                   origin |-> accepted + 1, basis |-> 0]

Opens ==
    /\ accepted < MaxRequests
    /\ accepted' = accepted + 1
    /\ answer' = [answer EXCEPT ![accepted + 1] = "open"]
    /\ UNCHANGED cancelled

\* A busy service or adapter refuses, and nothing changes.
Generate(p, key, failure) ==
    /\ ~Refuses(p)
    /\ failure \in LocalFailures(NewJob(p, key))
    /\ Accept(p, NewJob(p, key), failure)
    /\ Opens
    /\ UNCHANGED unknown

GenerateUnknown ==
    /\ AcceptUnknown
    /\ Opens
    /\ unknown' = accepted + 1

Emits(i, e) ==
    /\ answer' = [answer EXCEPT ![i] = e]
    /\ UNCHANGED <<accepted, cancelled>>

\* What the client hears when the adapter of p completes with e.
Hears(p, e) ==
    /\ IF Passes(p) THEN Emits(job[p].id, e) ELSE UNCHANGED <<accepted, answer, cancelled>>
    /\ UNCHANGED unknown

UnknownAnswered ==
    /\ UnknownFails
    /\ Emits(unknown, IF pendingCancelled THEN "Cancelled" ELSE "Server")
    /\ unknown' = 0

LocalAnswered(p)         == LocalEnds(p) /\ Hears(p, abortReason[p])
ReplyAnswered(p, parsed) == ReplyEnds(p) /\ Hears(p, ReplyResult(p, parsed))
TimedOut(p)              == Abort(p, "Timeout") /\ Hears(p, "Timeout")
Overflowed(p)            == Abort(p, "TooLarge") /\ Hears(p, "TooLarge")

\* The ids of the requests cancel() reaches.
Current == {unknown} \cup {job[p].id : p \in Providers}

Marks == cancelled' = cancelled \cup (Current \ {0})

CancelWaiting ==
    /\ CancelUnknown \/ \E p \in Providers : CancelLocal(p)
    /\ Marks
    /\ UNCHANGED <<accepted, unknown, answer>>

CancelWire(p) ==
    /\ CancelPosted(p)
    /\ answer' = IF Passes(p) THEN [answer EXCEPT ![job[p].id] = "Cancelled"] ELSE answer
    /\ Marks
    /\ UNCHANGED <<accepted, unknown>>

-----------------------------------------------------------------------------
WireEnds(p) ==
    \/ TimedOut(p)
    \/ Overflowed(p)
    \/ \E parsed \in {"None"} \cup ReplyErrors : ReplyAnswered(p, parsed)

Next ==
    \/ \E p \in Providers, key \in Keys, failure \in {"None"} \cup LocalErrors :
          Generate(p, key, failure)
    \/ GenerateUnknown
    \/ UnknownAnswered
    \/ CancelWaiting
    \/ \E p \in Providers : CancelWire(p) \/ LocalAnswered(p) \/ WireEnds(p)

Spec == Init /\ [][Next]_vars

\* Zero-delay timers fire, and the timeout timer does if nothing else ends
\* the reply first.
Fairness ==
    /\ WF_vars(UnknownAnswered)
    /\ \A p \in Providers : WF_vars(LocalAnswered(p)) /\ WF_vars(WireEnds(p))

FairSpec == Spec /\ Fairness

-----------------------------------------------------------------------------
(***************************************************************************)
(* Exactly the requests that cancel() was called for report Cancelled:     *)
(* they do even when they had already failed locally and were waiting for  *)
(* the event loop, and the flags of one request never reach the next.      *)
(***************************************************************************)
CancelsItsOwn ==
    \A i \in Ids :
        /\ i \in cancelled => answer[i] \in {"open", "Cancelled"}
        /\ answer[i] = "Cancelled" => i \in cancelled

\* completed is emitted once per accepted request, for the current one.
AnsweredOnce ==
    [][\A i \in Ids : answer'[i] # answer[i] =>
          \/ answer[i] = "unused" /\ answer'[i] = "open"
          \/ answer[i] = "open" /\ answer'[i] \in AIErrors /\ i = accepted]_vars

\* Every accepted request is answered.
EveryoneAnswered == \A i \in Ids : answer[i] = "open" ~> answer[i] # "open"
=============================================================================
