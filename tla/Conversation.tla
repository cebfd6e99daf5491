---------------------------- MODULE Conversation ----------------------------
(***************************************************************************)
(* What the generation flow promises, without keys, adapters or windows:   *)
(* requests are made one at a time, each is answered once or discarded,    *)
(* and a session keeps the latest result of the selection it was opened    *)
(* for until another selection, a test or closing the card replaces it.    *)
(***************************************************************************)
EXTENDS Requests

VARIABLES
    issued,   \* requests made so far
    current,  \* the request that may still be answered, 0 if none
    outcome,  \* what became of each request
    session   \* origin, provider and latest result

convVars == <<issued, current, outcome, session>>

NoSession == [kind |-> "none", origin |-> 0, provider |-> DefaultProvider,
              lastResult |-> 0]

Fresh(origin, p) == [kind |-> "selection", origin |-> origin, provider |-> p,
                     lastResult |-> 0]

ConvInit ==
    /\ issued = 0
    /\ current = 0
    /\ outcome = [i \in Ids |-> "unused"]
    /\ session = NoSession

\* A request is made for a new selection, as a test, or to refine.
Make ==
    /\ current = 0
    /\ issued < MaxRequests
    /\ issued' = issued + 1
    /\ current' = issued'
    /\ outcome' = [outcome EXCEPT ![issued'] = "open"]
    /\ \/ \E p \in Providers : session' = Fresh(issued', p)
       \/ session' = NoSession
       \/ /\ session.kind = "selection" /\ session.lastResult # 0
          /\ UNCHANGED session

\* A request for a new selection, or a test, that is refused at once.
Refuse ==
    /\ current = 0
    /\ \/ \E p \in Providers : session' = Fresh(0, p)
       \/ session' = NoSession
    /\ UNCHANGED <<issued, current, outcome>>

Succeed ==
    /\ current # 0
    /\ current' = 0
    /\ outcome' = [outcome EXCEPT ![current] = "None"]
    /\ session' = IF session.kind = "selection" THEN [session EXCEPT !.lastResult = current]
                  ELSE session
    /\ UNCHANGED issued

Fail ==
    /\ current # 0
    /\ current' = 0
    /\ \E e \in AIErrors \ {"None"} : outcome' = [outcome EXCEPT ![current] = e]
    /\ UNCHANGED <<issued, session>>

Close ==
    /\ current' = 0
    /\ outcome' = IF current = 0 THEN outcome
                  ELSE [outcome EXCEPT ![current] = "discarded"]
    /\ session' = NoSession
    /\ UNCHANGED issued

ConvNext == Make \/ Refuse \/ Succeed \/ Fail \/ Close

ConvSpec == ConvInit /\ [][ConvNext]_convVars
=============================================================================
