------------------------------- MODULE UIAQuery ------------------------------
(***************************************************************************)
(* UIAQuery.cpp: one question at a time to a helper process that reads the *)
(* selected text of a window.  The monitor and the resolver of Windows     *)
(* each own one.  A helper that is given up is killed but stays until the  *)
(* system has ended it; while too many of those remain no question is      *)
(* taken.  sequence_ changes exactly when process_ does and is left out,   *)
(* as are the bytes of the answer: what decode() makes of them is either   *)
(* a selection ("found") or a reason.                                      *)
(***************************************************************************)
EXTENDS Naturals

CONSTANTS RetiringLimit   \* 4 in the code

VARIABLES
    asked,      \* what the helper process_ is asked, or NoQuestion
    retiring    \* how many helpers retiring_ holds

query == <<asked, retiring>>

NoQuestion == [window |-> "none", event |-> 0, epoch |-> 0]

QueryInit == asked = NoQuestion /\ retiring = 0

QueryBusy == asked # NoQuestion

\* Mutant: busy is all that matters.
AcceptsIdle == ~QueryBusy

Accepts == ~QueryBusy /\ retiring < RetiringLimit

Request(question) ==
    /\ Accepts
    /\ asked' = question
    /\ UNCHANGED retiring

\* retire(): a helper that still runs is killed and remembered.
Retired == IF QueryBusy THEN retiring + 1 ELSE retiring

QueryCancel ==
    /\ asked' = NoQuestion
    /\ retiring' = Retired

\* The helper ends by itself, or never started: nothing to retire.
HelperEnds ==
    /\ QueryBusy
    /\ asked' = NoQuestion
    /\ UNCHANGED retiring

\* The two second timer, or more output than allowed.
HelperStopped ==
    /\ QueryBusy
    /\ QueryCancel

\* completed is emitted once process_ is clear; found if a selection came.
QueryEnds(found) ==
    \/ HelperEnds
    \/ ~found /\ HelperStopped

Reap ==
    /\ retiring > 0
    /\ retiring' = retiring - 1
    /\ UNCHANGED asked
=============================================================================
