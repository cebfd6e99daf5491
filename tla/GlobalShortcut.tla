---------------------------- MODULE GlobalShortcut ---------------------------
(***************************************************************************)
(* The global shortcut as the program sees it (IGlobalShortcut): which of  *)
(* the implementations runs is chosen once, by the platform Qt found.      *)
(* The other implementation is never created.                              *)
(***************************************************************************)
EXTENDS Naturals, Sequences

CONSTANTS
    MaxStarts,    \* bound: calls of start()
    MaxMishaps,   \* bound: sessions closed by the portal, and its restarts
    MaxKeys       \* bound: key events of the X server

VARIABLES
    backend,
    phase, explicit, available, generation, awaiting, request, session, calls,
    answers, portal, mishaps,
    registered, blocked, worker, signals, grabbed, xevents, keys,
    starts

portalOnly == <<phase, explicit, available, awaiting, request, session, calls,
                answers, portal, mishaps>>
x11Only    == <<registered, blocked, worker, signals, grabbed, xevents, keys>>
vars       == <<backend, portalOnly, x11Only, generation, starts>>

Portal == INSTANCE PortalShortcut
X11    == INSTANCE X11Shortcut

ASSUME ShortcutAssumption ==
    MaxStarts \in Nat /\ MaxMishaps \in Nat /\ MaxKeys \in Nat

Init ==
    /\ backend \in {"wayland", "xcb"}
    /\ Portal!Init
    /\ X11!Init

Next ==
    /\ UNCHANGED backend
    /\ \/ backend = "wayland" /\ Portal!Next /\ UNCHANGED x11Only
       \/ backend = "xcb" /\ X11!Next /\ UNCHANGED portalOnly

\* The event loop, the bus's time limits, the timer and the worker's thread
\* run; the user, the portal and the X server need not do anything.
FairSpec ==
    /\ Init /\ [][Next]_vars
    /\ Portal!Fairness
    /\ X11!Fairness

-----------------------------------------------------------------------------
(***************************************************************************)
(* The status tells the truth.  Portal: while registered is shown, the     *)
(* session is bound, or the news of its end are on their way.  X11: once   *)
(* the signals are delivered, registered is shown exactly while the key is *)
(* grabbed, however many workers came and went.                            *)
(***************************************************************************)
HeldAsShown == Portal!HeldAsShown /\ X11!HeldAsShown

(***************************************************************************)
(* Nothing is left behind.  Once all calls and answers have arrived, the   *)
(* portal keeps no session or request of an earlier or failed start; and   *)
(* no grab outlives its worker.                                            *)
(***************************************************************************)
NothingLeftBehind == Portal!NothingLeftBehind /\ X11!NothingLeftBehind

(***************************************************************************)
(* Every start comes to an end, registered or not, although the portal and *)
(* its user may never answer; and stop(), which blocks the GUI thread,     *)
(* returns wherever it finds the worker.                                   *)
(***************************************************************************)
Settled == Portal!Settled /\ X11!Settled

StartsSettle == ~Settled ~> Settled
=============================================================================
